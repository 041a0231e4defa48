--------------------------- MODULE LineEditProofs ---------------------------
(***************************************************************************)
(* Proofs about LineEdit, for any characters, any length of the buffer and *)
(* any size of the ring.                                                   *)
(***************************************************************************)
EXTENDS LineEdit, SequenceTheorems, WellFoundedInduction, TLAPS

LEMMA Sizes ==
    /\ CAP \in Nat /\ CAP >= 2 /\ HISTORY_SIZE \in Nat /\ HISTORY_SIZE >= 1 /\ MaxKeys \in Nat
    /\ NUL \notin Char /\ BLANK \in Char
    /\ Index = 0 .. CAP /\ Byte = Char \cup {NUL}
  BY CapAssumption, RingAssumption DEF Index, Byte
-----------------------------------------------------------------------------
(* Numbers *)

LEMMA LessThan ==
    \E R : IsWellFoundedOn(R, Nat) /\ \A a, b \in Nat : a < b => <<a, b>> \in R
  <1> DEFINE R == OpToRel(<, Nat)
  <1>1. IsWellFoundedOn(R, Nat)  BY NatLessThanWellFounded
  <1>2. \A a, b \in Nat : a < b => <<a, b>> \in R  BY DEF OpToRel
  <1> HIDE DEF R
  <1> QED BY <1>1, <1>2

\* Where induction is needed: a least counterexample.
LEMMA NatMin ==
    ASSUME NEW T, T \subseteq Nat, T # {}
    PROVE  \E x \in T : \A y \in T : x <= y
  <1>1. PICK R : IsWellFoundedOn(R, Nat) /\ \A a, b \in Nat : a < b => <<a, b>> \in R
    BY LessThan
  <1>2. IsWellFoundedOn(R, Nat)  BY <1>1
  <1>3. \E x \in T : \A y \in T : ~(<<y, x>> \in R)  BY <1>2, WFMin, Zenon
  <1>4. PICK x : x \in T /\ \A y \in T : ~(<<y, x>> \in R)  BY <1>3
  <1>5. \A y \in T : ~(y < x)
    <2> TAKE y \in T
    <2>1. y \in Nat /\ x \in Nat  BY <1>4
    <2> QED BY <2>1, <1>1, <1>4
  <1> QED BY <1>4, <1>5

\* A set of numbers up to n, with 0 in it, has a greatest element.
LEMMA NatMax ==
    ASSUME NEW n \in Nat, NEW T, T \subseteq 0 .. n, 0 \in T
    PROVE  \E x \in T : \A y \in T : y <= x
  <1> DEFINE U == {n - x : x \in T}
  <1>1. U \subseteq Nat /\ U # {}  OBVIOUS
  <1>2. PICK u \in U : \A w \in U : u <= w  BY <1>1, NatMin
  <1>3. PICK x \in T : u = n - x  BY <1>2
  <1>4. ASSUME NEW y \in T PROVE y <= x
    <2>1. n - y \in U /\ y \in Nat /\ x \in Nat  OBVIOUS
    <2> HIDE DEF U
    <2> QED BY <2>1, <1>2, <1>3
  <1> QED BY <1>4

LEMMA MinIs ==
    ASSUME NEW T, T \subseteq Int, NEW m \in T, \A y \in T : m <= y
    PROVE  Min(T) = m
  <1>1. \A x \in T : (\A y \in T : x <= y) => x = m
    <2> SUFFICES ASSUME NEW x \in T, \A y \in T : x <= y PROVE x = m  OBVIOUS
    <2>1. x <= m /\ m <= x /\ x \in Int /\ m \in Int  OBVIOUS
    <2> QED BY <2>1
  <1> QED BY <1>1 DEF Min

LEMMA MaxIs ==
    ASSUME NEW T, T \subseteq Int, NEW m \in T, \A y \in T : y <= m
    PROVE  Max(T) = m
  <1>1. \A x \in T : (\A y \in T : x >= y) => x = m
    <2> SUFFICES ASSUME NEW x \in T, \A y \in T : x >= y PROVE x = m  OBVIOUS
    <2>1. x <= m /\ m <= x /\ x \in Int /\ m \in Int  OBVIOUS
    <2> QED BY <2>1
  <1> QED BY <1>1 DEF Max

\* The quotient and the remainder of a number are unique.
LEMMA ModUnique ==
    ASSUME NEW a \in Nat, NEW n \in Nat \ {0}, NEW q \in Int, NEW r \in 0 .. n - 1,
           a = n * q + r
    PROVE  a % n = r
  <1> DEFINE p == a \div n
             s == a % n
  <1>1. s \in 0 .. n - 1 /\ p \in Nat /\ a = n * p + s  OBVIOUS
  <1> HIDE DEF p, s
  <1>2. n * (q - p) = s - r  BY <1>1
  <1>3. CASE q - p >= 1
    <2>1. n * (q - p) >= n  BY <1>1, <1>3
    <2> QED BY <2>1, <1>1, <1>2
  <1>4. CASE q - p <= -1
    <2>1. n * (q - p) <= -n  BY <1>1, <1>4
    <2> QED BY <2>1, <1>1, <1>2
  <1>5. q = p  BY <1>1, <1>3, <1>4
  <1>6. s = r  BY <1>1, <1>5
  <1> QED BY <1>6 DEF s

\* Two numbers less than n apart have different remainders.
LEMMA ModApart ==
    ASSUME NEW a \in Nat, NEW b \in Nat, NEW n \in Nat \ {0}, a < b, b - a < n
    PROVE  a % n # b % n
  <1> SUFFICES ASSUME a % n = b % n PROVE FALSE  OBVIOUS
  <1> DEFINE q == a \div n
             p == b \div n
             r == a % n
  <1>1. r \in 0 .. n - 1 /\ q \in Nat /\ a = n * q + r  OBVIOUS
  <1>2. p \in Nat /\ b = n * p + r  OBVIOUS
  <1> HIDE DEF q, p, r
  <1>3. n * (p - q) = b - a  BY <1>1, <1>2
  <1>4. CASE p - q >= 1
    <2>1. n * (p - q) >= n  BY <1>1, <1>2, <1>4
    <2> QED BY <2>1, <1>3
  <1>5. CASE p - q <= 0
    <2>1. n * (p - q) <= 0  BY <1>1, <1>2, <1>5
    <2> QED BY <2>1, <1>3
  <1> QED BY <1>1, <1>2, <1>4, <1>5

-----------------------------------------------------------------------------
(* Slots of the ring *)

\* The next slot, the one before, and the one of a counter.
LEMMA Slots ==
    ASSUME NEW a \in Nat
    PROVE  /\ modid(a) = a % HISTORY_SIZE /\ modid(a) \in 0 .. HISTORY_SIZE - 1
           /\ nexthisid(a % HISTORY_SIZE) = (a + 1) % HISTORY_SIZE
           /\ a > 0 => prehisid(a % HISTORY_SIZE) = modid(a - 1)
           /\ modid(a + HISTORY_SIZE) = modid(a)
           /\ a < HISTORY_SIZE => modid(a) = a
  <1> DEFINE q == a \div HISTORY_SIZE
             r == a % HISTORY_SIZE
  <1>0. HISTORY_SIZE \in Nat \ {0}  BY Sizes
  <1>1. r \in 0 .. HISTORY_SIZE - 1 /\ q \in Nat /\ a = HISTORY_SIZE * q + r  BY <1>0
  <1> HIDE DEF q, r
  <1>2. (a + HISTORY_SIZE) % HISTORY_SIZE = r
    <2>1. a + HISTORY_SIZE = HISTORY_SIZE * (q + 1) + r /\ a + HISTORY_SIZE \in Nat
      BY <1>0, <1>1
    <2> QED BY <2>1, <1>0, <1>1, ModUnique
  <1>3. modid(a) = r  BY <1>2 DEF modid
  <1>4. modid(a + HISTORY_SIZE) = r
    <2>1. (a + HISTORY_SIZE) + HISTORY_SIZE = HISTORY_SIZE * (q + 2) + r
          /\ (a + HISTORY_SIZE) + HISTORY_SIZE \in Nat
      BY <1>0, <1>1
    <2> QED BY <2>1, <1>0, <1>1, ModUnique DEF modid
  <1>5. nexthisid(r) = (a + 1) % HISTORY_SIZE
    <2>1. CASE r + 1 < HISTORY_SIZE
      <3>1. a + 1 = HISTORY_SIZE * q + (r + 1) /\ r + 1 = HISTORY_SIZE * 0 + (r + 1)
            /\ r + 1 \in 0 .. HISTORY_SIZE - 1
        BY <1>0, <1>1, <2>1
      <3>2. (a + 1) % HISTORY_SIZE = r + 1  BY <1>0, <1>1, <3>1, ModUnique
      <3>3. (r + 1) % HISTORY_SIZE = r + 1  BY <1>0, <1>1, <3>1, ModUnique
      <3> QED BY <3>2, <3>3 DEF nexthisid
    <2>2. CASE r + 1 = HISTORY_SIZE
      <3>1. a + 1 = HISTORY_SIZE * (q + 1) + 0 /\ r + 1 = HISTORY_SIZE * 1 + 0
            /\ 0 \in 0 .. HISTORY_SIZE - 1
        BY <1>0, <1>1, <2>2
      <3>2. (a + 1) % HISTORY_SIZE = 0  BY <1>0, <1>1, <3>1, ModUnique
      <3>3. (r + 1) % HISTORY_SIZE = 0  BY <1>0, <1>1, <3>1, ModUnique
      <3> QED BY <3>2, <3>3 DEF nexthisid
    <2> QED BY <1>0, <1>1, <2>1, <2>2
  <1>6. ASSUME a > 0 PROVE prehisid(r) = modid(a - 1)
    <2>1. CASE r > 0
      <3>1. r - 1 \in 0 .. HISTORY_SIZE - 1 /\ r - 1 + HISTORY_SIZE \in Nat
            /\ a - 1 + HISTORY_SIZE \in Nat
            /\ r - 1 + HISTORY_SIZE = HISTORY_SIZE * 1 + (r - 1)
            /\ a - 1 + HISTORY_SIZE = HISTORY_SIZE * (q + 1) + (r - 1)
        BY <1>0, <1>1, <1>6, <2>1
      <3>2. (r - 1 + HISTORY_SIZE) % HISTORY_SIZE = r - 1  BY <1>0, <3>1, ModUnique
      <3>3. (a - 1 + HISTORY_SIZE) % HISTORY_SIZE = r - 1  BY <1>0, <1>1, <3>1, ModUnique
      <3> QED BY <3>2, <3>3 DEF prehisid, modid
    <2>2. CASE r = 0
      <3>1. HISTORY_SIZE - 1 \in 0 .. HISTORY_SIZE - 1 /\ HISTORY_SIZE - 1 \in Nat
            /\ a - 1 + HISTORY_SIZE \in Nat
            /\ r - 1 + HISTORY_SIZE = HISTORY_SIZE - 1
            /\ HISTORY_SIZE - 1 = HISTORY_SIZE * 0 + (HISTORY_SIZE - 1)
            /\ a - 1 + HISTORY_SIZE = HISTORY_SIZE * q + (HISTORY_SIZE - 1)
        BY <1>0, <1>1, <1>6, <2>2
      <3>2. (HISTORY_SIZE - 1) % HISTORY_SIZE = HISTORY_SIZE - 1  BY <1>0, <3>1, ModUnique
      <3>3. (a - 1 + HISTORY_SIZE) % HISTORY_SIZE = HISTORY_SIZE - 1
        BY <1>0, <1>1, <3>1, ModUnique
      <3> QED BY <3>1, <3>2, <3>3 DEF prehisid, modid
    <2> QED BY <1>0, <1>1, <2>1, <2>2
  <1>7. ASSUME a < HISTORY_SIZE PROVE r = a
    <2>1. a = HISTORY_SIZE * 0 + a /\ a \in 0 .. HISTORY_SIZE - 1  BY <1>0, <1>7
    <2> QED BY <2>1, <1>0, ModUnique DEF r
  <1> QED BY <1>1, <1>3, <1>4, <1>5, <1>6, <1>7 DEF r

LEMMA SlotsApart ==
    ASSUME NEW a \in Nat, NEW b \in Nat, a < b, b - a < HISTORY_SIZE
    PROVE  modid(a) # modid(b)
  <1>1. HISTORY_SIZE \in Nat \ {0}  BY Sizes
  <1>2. a % HISTORY_SIZE # b % HISTORY_SIZE  BY <1>1, ModApart
  <1>3. modid(a) = a % HISTORY_SIZE /\ modid(b) = b % HISTORY_SIZE  BY Slots
  <1> QED BY <1>2, <1>3

\* Counting on from a slot is counting on from its counter.
LEMMA Turned ==
    ASSUME NEW a \in Nat
    PROVE  /\ a % HISTORY_SIZE \in Nat
           /\ \A k \in 1 .. HISTORY_SIZE : modid((a % HISTORY_SIZE) + k - 1) = modid(a + k - 1)
  <1> DEFINE q == a \div HISTORY_SIZE
             r == a % HISTORY_SIZE
  <1>0. HISTORY_SIZE \in Nat \ {0}  BY Sizes
  <1>1. r \in 0 .. HISTORY_SIZE - 1 /\ q \in Nat /\ a = HISTORY_SIZE * q + r  BY <1>0
  <1> HIDE DEF q, r
  <1>2. ASSUME NEW k \in 1 .. HISTORY_SIZE PROVE modid(r + k - 1) = modid(a + k - 1)
    <2> PICK b : b = r + k - 1 + HISTORY_SIZE  OBVIOUS
    <2> DEFINE p == b \div HISTORY_SIZE
               s == b % HISTORY_SIZE
    <2>1. b \in Nat  BY <1>0, <1>1
    <2>2. s \in 0 .. HISTORY_SIZE - 1 /\ p \in Nat /\ b = HISTORY_SIZE * p + s
      BY <2>1, <1>0
    <2> HIDE DEF p, s
    <2> PICK e : e = a + k - 1 + HISTORY_SIZE  OBVIOUS
    <2>3. e \in Nat /\ e = HISTORY_SIZE * (q + p) + s /\ q + p \in Int
      BY <2>2, <1>0, <1>1
    <2>4. e % HISTORY_SIZE = s  BY <2>2, <2>3, <1>0, ModUnique
    <2> QED BY <2>4 DEF modid, s
  <1> QED BY <1>1, <1>2 DEF r
-----------------------------------------------------------------------------
(* Bytes *)

\* b is a string of n characters.
Holds(b, n) == /\ b \in [Index -> Byte] /\ n \in 0 .. CAP - 1
               /\ b[n] = NUL /\ \A k \in 0 .. n - 1 : b[k] \in Char

LEMMA Lists ==
    ASSUME NEW s
    PROVE  s \in Text <=> s \in Seq(Char) /\ Len(s) \in 0 .. CAP - 1
  <1>1. ASSUME s \in Text PROVE s \in Seq(Char) /\ Len(s) \in 0 .. CAP - 1
    <2>1. PICK m \in 0 .. CAP - 1 : s \in [1 .. m -> Char]  BY <1>1 DEF Text, BoundedSeq, SeqOf
    <2> QED BY <2>1, Sizes
  <1>2. ASSUME s \in Seq(Char), Len(s) \in 0 .. CAP - 1 PROVE s \in Text
    <2>1. s \in [1 .. Len(s) -> Char]  BY <1>2, LenProperties
    <2> QED BY <2>1, <1>2 DEF Text, BoundedSeq, SeqOf
  <1> QED BY <1>1, <1>2

\* What strlen, strcpy and strcmp take for the string is the string.
LEMMA StrIs ==
    ASSUME NEW b, NEW n, Holds(b, n)
    PROVE  /\ Str(b) = [k \in 1 .. n |-> b[k - 1]]
           /\ Str(b) \in Seq(Char) /\ Len(Str(b)) = n /\ Str(b) \in Text
  <1> DEFINE T == {j \in Index : b[j] = NUL} \cup {CAP + 1}
  <1>1. n \in T /\ T \subseteq Int /\ \A y \in T : n <= y
    <2>1. \A k \in 0 .. n - 1 : b[k] # NUL  BY Sizes DEF Holds
    <2>2. n \in T /\ T \subseteq Int  BY Sizes DEF Holds
    <2>3. ASSUME NEW y \in T PROVE n <= y
      BY <2>1, <2>3, Sizes DEF Holds
    <2> QED BY <2>2, <2>3
  <1> HIDE DEF T
  <1>2. Min(T) = n  BY <1>1, MinIs
  <1>3. Str(b) = [k \in 1 .. n |-> b[k - 1]]  BY <1>2 DEF Str, T
  <1>4. n \in Nat /\ \A k \in 1 .. n : b[k - 1] \in Char  BY Sizes DEF Holds
  <1>5. Str(b) \in Seq(Char) /\ Len(Str(b)) = n  BY <1>3, <1>4
  <1> QED BY <1>3, <1>5, Lists DEF Holds

LEMMA CopyHolds ==
    ASSUME NEW b \in [Index -> Byte], NEW s \in Text
    PROVE  /\ Holds(Copy(b, s), Len(s)) /\ Len(s) \in 0 .. CAP - 1
           /\ \A k \in 1 .. Len(s) : Copy(b, s)[k - 1] = s[k]
  <1>1. s \in Seq(Char) /\ Len(s) \in 0 .. CAP - 1  BY Lists
  <1>2. \A k \in 0 .. Len(s) - 1 : s[k + 1] \in Char  BY <1>1, Sizes
  <1>3. \A k \in Index : Copy(b, s)[k] = IF k < Len(s) THEN s[k + 1]
                                          ELSE IF k = Len(s) THEN NUL ELSE b[k]
    BY DEF Copy
  <1>4. DOMAIN Copy(b, s) = Index /\ Copy(b, s) = [k \in Index |-> Copy(b, s)[k]]
    BY DEF Copy
  <1>5. \A k \in Index : Copy(b, s)[k] \in Byte  BY <1>1, <1>2, <1>3, Sizes
  <1>6. Copy(b, s) \in [Index -> Byte]  BY <1>4, <1>5
  <1>7. \A k \in 0 .. Len(s) - 1 : Copy(b, s)[k] = s[k + 1]
    BY <1>1, <1>3, Sizes
  <1>8. Copy(b, s)[Len(s)] = NUL  BY <1>1, <1>3, Sizes
  <1>9. \A k \in 1 .. Len(s) : Copy(b, s)[k - 1] = s[k]  BY <1>1, <1>7
  <1> QED BY <1>1, <1>2, <1>6, <1>7, <1>8, <1>9 DEF Holds

\* What memmove leaves, a byte at a time.
Moves(m, b, to, from, n) ==
    /\ m \in [Index -> Byte]
    /\ \A k \in Index : m[k] = IF to <= k /\ k < to + n
                                THEN IF k - to + from <= CAP THEN b[k - to + from] ELSE NUL
                                ELSE b[k]

LEMMA Moved ==
    ASSUME NEW b \in [Index -> Byte], NEW to \in Nat, NEW from \in Nat, NEW n \in Int
    PROVE  Moves(memmove(b, to, from, n), b, to, from, n)
  <1> DEFINE f(k) == IF to <= k /\ k < to + n
                     THEN IF k - to + from <= CAP THEN b[k - to + from] ELSE NUL
                     ELSE b[k]
  <1>1. memmove(b, to, from, n) = [k \in Index |-> f(k)]
    <2>1. ASSUME NEW k \in Index
          PROVE  /\ k \in to .. (to + n - 1) <=> to <= k /\ k < to + n
                 /\ to <= k => (k - to + from \in Index <=> k - to + from <= CAP)
      BY Sizes
    <2> QED BY <2>1 DEF memmove
  <1>2. \A k \in Index : f(k) \in Byte
    <2> SUFFICES ASSUME NEW k \in Index PROVE f(k) \in Byte  OBVIOUS
    <2>1. to <= k /\ k - to + from <= CAP => k - to + from \in Index  BY Sizes
    <2> QED BY <2>1, Sizes
  <1> QED BY <1>1, <1>2 DEF Moves

LEMMA Ended ==
    ASSUME NEW b \in [Index -> Byte], NEW n \in Index
    PROVE  /\ Terminate(b, n) \in [Index -> Byte] /\ Terminate(b, n)[n] = NUL
           /\ \A k \in Index \ {n} : Terminate(b, n)[k] = b[k]
  BY Sizes DEF Terminate
-----------------------------------------------------------------------------
(* The line *)

Bytes == Holds(buf, len) /\ i \in 0 .. len

LEMMA Piece ==
    ASSUME NEW b, NEW n, Holds(b, n), NEW j \in Nat, NEW m \in Nat, j + m <= n
    PROVE  /\ [k \in 1 .. m |-> b[j + k - 1]] \in Seq(Char)
           /\ Len([k \in 1 .. m |-> b[j + k - 1]]) = m
  <1>1. \A k \in 1 .. m : b[j + k - 1] \in Char
    <2> SUFFICES ASSUME NEW k \in 1 .. m PROVE b[j + k - 1] \in Char  OBVIOUS
    <2>1. n \in Nat /\ j + k - 1 \in 0 .. n - 1  BY Sizes DEF Holds
    <2> QED BY <2>1 DEF Holds
  <1> QED BY <1>1

\* A list is known by its characters.
LEMMA PieceIs ==
    ASSUME NEW b, NEW n, Holds(b, n), NEW j \in Nat, NEW s \in Seq(Char), j + Len(s) <= n,
           \A k \in 1 .. Len(s) : b[j + k - 1] = s[k]
    PROVE  [k \in 1 .. Len(s) |-> b[j + k - 1]] = s
  <1>1. Len(s) \in Nat  OBVIOUS
  <1> DEFINE t == [k \in 1 .. Len(s) |-> b[j + k - 1]]
  <1>2. t \in Seq(Char) /\ Len(t) = Len(s)  BY <1>1, Piece
  <1>3. \A k \in 1 .. Len(s) : t[k] = s[k]  OBVIOUS
  <1> HIDE DEF t
  <1>4. t = s  BY <1>2, <1>3, SeqEqual
  <1> QED BY <1>4 DEF t

\* s is what stands before the cursor j, t what stands after it.
Spells(b, n, j, s, t) ==
    /\ Holds(b, n) /\ j \in 0 .. n
    /\ s \in Seq(Char) /\ Len(s) = j /\ \A k \in 1 .. j : b[k - 1] = s[k]
    /\ t \in Seq(Char) /\ Len(t) = n - j /\ \A k \in 1 .. n - j : b[j + k - 1] = t[k]

FrontOf(b, j)   == [k \in 1 .. j |-> b[k - 1]]
BackOf(b, n, j) == [k \in 1 .. (n - j) |-> b[j + k - 1]]

LEMMA Spelled ==
    ASSUME NEW b, NEW n, Holds(b, n), NEW j \in 0 .. n
    PROVE  Spells(b, n, j, FrontOf(b, j), BackOf(b, n, j))
  <1> PICK s, t : s = FrontOf(b, j) /\ t = BackOf(b, n, j)  OBVIOUS
  <1>1. n \in Nat /\ n <= CAP - 1 /\ j \in Nat /\ n - j \in Nat /\ j + (n - j) <= n
    BY Sizes DEF Holds
  <1>2. s \in Seq(Char) /\ Len(s) = j
    <2>1. \A k \in 1 .. j : b[k - 1] \in Char
      <3> SUFFICES ASSUME NEW k \in 1 .. j PROVE b[k - 1] \in Char  OBVIOUS
      <3>1. k - 1 \in 0 .. n - 1  BY <1>1
      <3> QED BY <3>1 DEF Holds
    <2> QED BY <1>1, <2>1 DEF FrontOf
  <1>3. t \in Seq(Char) /\ Len(t) = n - j
    <2> PICK m : m = n - j  OBVIOUS
    <2>1. [k \in 1 .. m |-> b[j + k - 1]] \in Seq(Char)
          /\ Len([k \in 1 .. m |-> b[j + k - 1]]) = m
      BY <1>1, Piece
    <2> QED BY <2>1 DEF BackOf
  <1>4. /\ \A k \in 1 .. j : s[k] = b[k - 1]
        /\ \A k \in 1 .. n - j : t[k] = b[j + k - 1]
    BY DEF FrontOf, BackOf
  <1> QED BY <1>2, <1>3, <1>4 DEF Spells

\* The two parts are the string.
LEMMA Joined ==
    ASSUME NEW b, NEW n, NEW j, NEW s, NEW t, Spells(b, n, j, s, t)
    PROVE  /\ s \o t = Str(b) /\ s \o t \in Seq(Char) /\ Len(s \o t) = n /\ s \o t \in Text
           /\ \A k \in 1 .. n : (s \o t)[k] = b[k - 1]
  <1>1. /\ Holds(b, n) /\ j \in 0 .. n
        /\ s \in Seq(Char) /\ Len(s) = j /\ \A k \in 1 .. j : s[k] = b[k - 1]
        /\ t \in Seq(Char) /\ Len(t) = n - j /\ \A k \in 1 .. n - j : t[k] = b[j + k - 1]
    BY DEF Spells
  <1>2. n \in Nat /\ j \in Nat /\ j + (n - j) = n  BY <1>1, Sizes DEF Holds
  <1>3. s \o t \in Seq(Char) /\ Len(s \o t) = n
    <2>1. s \o t \in Seq(Char) /\ Len(s \o t) = Len(s) + Len(t)
      BY <1>1, ConcatProperties
    <2> QED BY <2>1, <1>1, <1>2
  <1>4. ASSUME NEW k \in 1 .. n PROVE (s \o t)[k] = b[k - 1]
    <2> PICK w : w = (s \o t)[k]  OBVIOUS
    <2>1. w = IF k <= j THEN s[k] ELSE t[k - j]
      <3>1. Len(s) + Len(t) = n  BY <1>1, <1>2
      <3>2. k \in 1 .. Len(s) + Len(t)  BY <3>1
      <3> QED BY <1>1, <3>2, ConcatProperties
    <2>2. CASE k <= j
      <3>1. k \in 1 .. j  BY <2>2, <1>2
      <3> QED BY <3>1, <2>1, <2>2, <1>1
    <2>3. CASE k > j
      <3>1. k - j \in 1 .. n - j /\ j + (k - j) - 1 = k - 1 /\ ~(k <= j)  BY <2>3, <1>2
      <3>2. t[k - j] = b[j + (k - j) - 1]  BY <3>1, <1>1
      <3> QED BY <3>1, <3>2, <2>1
    <2>4. k <= j \/ k > j  BY <1>2
    <2> QED BY <2>2, <2>3, <2>4
  <1>5. Str(b) = [k \in 1 .. n |-> b[k - 1]] /\ Str(b) \in Seq(Char)
        /\ Len(Str(b)) = n /\ Str(b) \in Text
    BY <1>1, StrIs
  <1>6. \A k \in 1 .. n : Str(b)[k] = b[k - 1]  BY <1>5
  <1> PICK u : u = s \o t  OBVIOUS
  <1>7. u = Str(b)  BY <1>3, <1>4, <1>5, <1>6, SeqEqual
  <1> QED BY <1>3, <1>4, <1>5, <1>7

LEMMA Parts ==
    ASSUME Bytes
    PROVE  /\ buf \in [Index -> Byte] /\ len \in Nat /\ len <= CAP - 1 /\ i \in 0 .. len
           /\ Before \in Seq(Char) /\ Len(Before) = i /\ \A k \in 1 .. i : Before[k] = buf[k - 1]
           /\ After \in Seq(Char) /\ Len(After) = len - i
           /\ \A k \in 1 .. len - i : After[k] = buf[i + k - 1]
           /\ Before \o After \in Seq(Char) /\ Len(Before \o After) = len
           /\ \A k \in 1 .. len : (Before \o After)[k] = buf[k - 1]
           /\ Before \o After = Str(buf) /\ Before \o After \in Text
  <1>1. Spells(buf, len, i, Before, After)
    BY Spelled DEF Bytes, Before, After, FrontOf, BackOf
  <1>2. buf \in [Index -> Byte] /\ len \in Nat /\ len <= CAP - 1 /\ i \in 0 .. len
    BY Sizes DEF Bytes, Holds
  <1>3. /\ Before \o After = Str(buf) /\ Before \o After \in Seq(Char)
        /\ Len(Before \o After) = len /\ Before \o After \in Text
        /\ \A k \in 1 .. len : (Before \o After)[k] = buf[k - 1]
    BY <1>1, Joined
  <1>4. /\ Before \in Seq(Char) /\ Len(Before) = i /\ \A k \in 1 .. i : Before[k] = buf[k - 1]
        /\ After \in Seq(Char) /\ Len(After) = len - i
        /\ \A k \in 1 .. len - i : After[k] = buf[i + k - 1]
    BY <1>1 DEF Spells
  <1> QED BY <1>2, <1>3, <1>4

\* The line after a key.
LEMMA PartsAre ==
    ASSUME NEW b, NEW n, NEW j, NEW s, NEW t, Spells(b, n, j, s, t),
           buf' = b, len' = n, i' = j
    PROVE  Bytes' /\ Before' = s /\ After' = t
  <1>0. /\ Holds(b, n) /\ j \in 0 .. n
        /\ s \in Seq(Char) /\ Len(s) = j /\ \A k \in 1 .. j : b[k - 1] = s[k]
        /\ t \in Seq(Char) /\ Len(t) = n - j /\ \A k \in 1 .. n - j : b[j + k - 1] = t[k]
    BY DEF Spells
  <1>1. n \in Nat /\ j \in Nat /\ n - j \in Nat /\ j + (n - j) <= n /\ 0 + j <= n
    BY <1>0, Sizes DEF Holds
  <1>2. [k \in 1 .. n - j |-> b[j + k - 1]] = t
    BY <1>0, <1>1, PieceIs
  <1>3. [k \in 1 .. j |-> b[k - 1]] = s
    <2>1. \A k \in 1 .. j : 0 + k - 1 = k - 1  BY <1>1
    <2>2. \A k \in 1 .. j : b[0 + k - 1] = s[k]  BY <1>0, <2>1
    <2>3. [k \in 1 .. j |-> b[0 + k - 1]] = s  BY <1>0, <1>1, <2>2, PieceIs
    <2> QED BY <2>1, <2>3
  <1>4. Bytes'  BY <1>0 DEF Bytes
  <1> QED BY <1>2, <1>3, <1>4 DEF Before, After

LEMMA HeldSame ==
    ASSUME UNCHANGED history
    PROVE  UNCHANGED E!held /\ UNCHANGED <<hisBuffer, hisBuffer_ptr, now_ptr, cursor_ptr, newBuffer, file>>
  BY DEF history, E!held, Past, Kept, modid, At
-----------------------------------------------------------------------------
(* The keys that change the line *)

LEMMA BeginBytes ==
    ASSUME NEW b \in [Index -> Byte], Begin(b)
    PROVE  Bytes' /\ Before' = <<>> /\ After' = <<>>
  <1>1. 0 \in Index /\ buf' = Terminate(b, 0) /\ i' = 0 /\ len' = 0
    BY Sizes DEF Begin
  <1>2. Holds(Terminate(b, 0), 0)  BY <1>1, Ended, Sizes DEF Holds
  <1>3. <<>> \in Seq(Char) /\ Len(<<>>) = 0 /\ 0 - 0 = 0 /\ 0 \in 0 .. 0
        /\ \A k \in 1 .. 0 : FALSE
    OBVIOUS
  <1>4. Spells(Terminate(b, 0), 0, 0, <<>>, <<>>)  BY <1>2, <1>3 DEF Spells
  <1> QED BY <1>1, <1>4, PartsAre

LEMMA InsertKey ==
    ASSUME Bytes, Insert
    PROVE  Bytes' /\ E!Type
  <1> PICK c \in Char :
         LET b == [memmove(Terminate(buf, len + 1), i + 1, i, len - i) EXCEPT ![i] = c]
         IN  IF len + 1 < CAP THEN buf' = b /\ i' = i + 1 /\ len' = len + 1 ELSE Begin(b)
    BY DEF Insert
  <1> DEFINE a == Terminate(buf, len + 1)
             m == memmove(a, i + 1, i, len - i)
             b == [m EXCEPT ![i] = c]
  <1>1. IF len + 1 < CAP THEN buf' = b /\ i' = i + 1 /\ len' = len + 1 ELSE Begin(b)
    OBVIOUS
  <1>2. UNCHANGED E!held  BY HeldSame DEF Insert
  <1>3. buf \in [Index -> Byte] /\ len \in Nat /\ len <= CAP - 1 /\ i \in 0 .. len
        /\ len + 1 \in Index /\ i \in Nat /\ i + 1 \in Nat /\ len - i \in Int /\ i \in Index
        /\ c \in Byte
    BY Parts, Sizes
  <1>4. a \in [Index -> Byte] /\ a[len + 1] = NUL /\ \A k \in 0 .. len : a[k] = buf[k]
    <2>1. \A k \in 0 .. len : k \in Index \ {len + 1}  BY <1>3, Sizes
    <2> QED BY <2>1, <1>3, Ended
  <1> HIDE DEF a
  <1>5. m \in [Index -> Byte]
        /\ \A k \in Index : m[k] = IF i + 1 <= k /\ k < i + 1 + (len - i)
                                   THEN IF k - (i + 1) + i <= CAP THEN a[k - (i + 1) + i] ELSE NUL
                                   ELSE a[k]
    <2>1. Moves(m, a, i + 1, i, len - i)  BY <1>3, <1>4, Moved
    <2> QED BY <2>1 DEF Moves
  <1> HIDE DEF m
  <1>6. /\ b \in [Index -> Byte] /\ b[i] = c
        /\ \A k \in Index \ {i} : b[k] = m[k]
    BY <1>3, <1>5
  <1> HIDE DEF b
  <1>7. \A k \in 0 .. i - 1 : b[k] = buf[k]
    BY <1>3, <1>4, <1>5, <1>6, Sizes
  <1>8. \A k \in i + 1 .. len : b[k] = buf[k - 1]
    <2> SUFFICES ASSUME NEW k \in i + 1 .. len PROVE b[k] = buf[k - 1]  OBVIOUS
    <2>1. k \in Index \ {i} /\ i + 1 <= k /\ k < i + 1 + (len - i) /\ k - (i + 1) + i = k - 1
          /\ k - 1 <= CAP /\ k - 1 \in 0 .. len
      BY <1>3, Sizes
    <2> QED BY <2>1, <1>4, <1>5, <1>6
  <1>9. b[len + 1] = NUL
    <2>1. len + 1 \in Index \ {i} /\ ~(len + 1 < i + 1 + (len - i))  BY <1>3
    <2> QED BY <2>1, <1>4, <1>5, <1>6
  <1>10. Len(E!Line) = len  BY Parts DEF E!Line
  <1>11. CASE len + 1 < CAP
    <2>1. buf' = b /\ i' = i + 1 /\ len' = len + 1  BY <1>1, <1>11
    <2>2. \A k \in 0 .. len : b[k] \in Char
      <3>1. \A k \in 0 .. len - 1 : buf[k] \in Char  BY DEF Bytes, Holds
      <3> SUFFICES ASSUME NEW k \in 0 .. len PROVE b[k] \in Char  OBVIOUS
      <3>2. CASE k < i  BY <3>1, <3>2, <1>3, <1>7
      <3>3. CASE k = i  BY <3>3, <1>6
      <3>4. CASE k > i
        <4>1. k \in i + 1 .. len /\ k - 1 \in 0 .. len - 1  BY <3>4, <1>3
        <4> QED BY <4>1, <3>1, <1>8
      <3> QED BY <3>2, <3>3, <3>4, <1>3
    <2>3. Holds(b, len + 1)
      BY <2>2, <1>3, <1>6, <1>9, <1>11, Sizes DEF Holds
    <2>4. Append(Before, c) \in Seq(Char) /\ Len(Append(Before, c)) = i + 1
          /\ \A k \in 1 .. i : Append(Before, c)[k] = Before[k]
          /\ Append(Before, c)[i + 1] = c
      BY Parts, AppendProperties
    <2>5. ASSUME NEW k \in 1 .. i + 1 PROVE b[k - 1] = Append(Before, c)[k]
      <3>1. CASE k = i + 1  BY <3>1, <2>4, <1>3, <1>6
      <3>2. CASE k \in 1 .. i
        <4>1. k - 1 \in 0 .. i - 1  BY <3>2, <1>3
        <4> QED BY <4>1, <3>2, <2>4, <1>7, Parts
      <3>3. k = i + 1 \/ k \in 1 .. i  BY <1>3
      <3> QED BY <3>1, <3>2, <3>3
    <2>6. ASSUME NEW k \in 1 .. (len + 1) - (i + 1) PROVE b[i + 1 + k - 1] = After[k]
      <3>1. k \in 1 .. len - i /\ i + k \in i + 1 .. len /\ i + 1 + k - 1 = i + k
        BY <1>3
      <3>2. After[k] = buf[i + k - 1]  BY <3>1, Parts
      <3> PICK h : h = i + k  OBVIOUS
      <3>3. b[h] = buf[h - 1]  BY <3>1, <1>8
      <3>4. h - 1 = i + k - 1 /\ h = i + 1 + k - 1  BY <3>1, <1>3
      <3> QED BY <3>2, <3>3, <3>4
    <2>7. /\ After \in Seq(Char) /\ Len(After) = (len + 1) - (i + 1)
          /\ i + 1 \in 0 .. len + 1
      <3>1. After \in Seq(Char) /\ Len(After) = len - i  BY Parts
      <3>2. len - i = (len + 1) - (i + 1)  BY <1>3
      <3> QED BY <3>1, <3>2, <1>3
    <2> PICK s : s = Append(Before, c)  OBVIOUS
    <2> PICK n, j : n = len + 1 /\ j = i + 1  OBVIOUS
    <2>8. Bytes' /\ Before' = s /\ After' = After
      <3>1. Spells(b, n, j, s, After)  BY <2>3, <2>4, <2>5, <2>6, <2>7 DEF Spells
      <3> QED BY <3>1, <2>1, PartsAre
    <2>9. Len(E!Line) + 1 # CAP  BY <1>3, <1>10, <1>11, Sizes
    <2> QED BY <2>8, <2>9, <1>2 DEF E!Type
  <1>12. CASE ~(len + 1 < CAP)
    <2>1. Begin(b)  BY <1>1, <1>12
    <2>2. Bytes' /\ Before' = <<>> /\ After' = <<>>  BY <2>1, <1>6, BeginBytes
    <2>3. Len(E!Line) + 1 = CAP  BY <1>3, <1>10, <1>12, Sizes
    <2> QED BY <2>2, <2>3, <1>2 DEF E!Type
  <1> QED BY <1>11, <1>12

LEMMA BackspaceKey ==
    ASSUME Bytes, Backspace
    PROVE  Bytes' /\ E!Rubout
  <1> PICK n, j : n = len - 1 /\ j = i - 1  OBVIOUS
  <1> PICK m : m = memmove(buf, i - 1, i, len - i + 1)  OBVIOUS
  <1> PICK b : b = Terminate(m, len - 1)  OBVIOUS
  <1>1. i > 0 /\ buf' = b /\ i' = j /\ len' = n /\ UNCHANGED E!held
    BY HeldSame DEF Backspace
  <1>2. buf \in [Index -> Byte] /\ len \in Nat /\ len <= CAP - 1 /\ i \in 0 .. len
        /\ i \in Nat /\ i - 1 \in Nat /\ len - i + 1 \in Int /\ len - 1 \in Index
        /\ n \in Nat /\ n <= CAP - 1 /\ j \in 0 .. n /\ j \in Nat
    BY <1>1, Parts, Sizes
  <1>3. m \in [Index -> Byte]
        /\ \A k \in Index : m[k] = IF i - 1 <= k /\ k < (i - 1) + (len - i + 1)
                                   THEN IF k - (i - 1) + i <= CAP THEN buf[k - (i - 1) + i] ELSE NUL
                                   ELSE buf[k]
    <2>1. Moves(m, buf, i - 1, i, len - i + 1)  BY <1>2, Moved
    <2> QED BY <2>1 DEF Moves
  <1>4. b \in [Index -> Byte] /\ b[n] = NUL /\ \A k \in 0 .. n - 1 : b[k] = m[k]
    <2>1. \A k \in 0 .. n - 1 : k \in Index \ {len - 1}  BY <1>2, Sizes
    <2> QED BY <2>1, <1>2, <1>3, Ended
  <1>5. \A k \in 0 .. j - 1 : b[k] = buf[k]
    <2> SUFFICES ASSUME NEW k \in 0 .. j - 1 PROVE b[k] = buf[k]  OBVIOUS
    <2>1. k \in Index /\ k \in 0 .. n - 1 /\ ~(i - 1 <= k)  BY <1>2, Sizes
    <2> QED BY <2>1, <1>3, <1>4
  <1>6. \A k \in j .. n - 1 : b[k] = buf[k + 1]
    <2> SUFFICES ASSUME NEW k \in j .. n - 1 PROVE b[k] = buf[k + 1]  OBVIOUS
    <2>1. k \in Index /\ k \in 0 .. n - 1 /\ i - 1 <= k /\ k < (i - 1) + (len - i + 1)
          /\ k - (i - 1) + i <= CAP /\ k - (i - 1) + i = k + 1
      BY <1>2, Sizes
    <2> QED BY <2>1, <1>3, <1>4
  <1>7. Holds(b, n)
    <2>1. \A k \in 0 .. len - 1 : buf[k] \in Char  BY DEF Bytes, Holds
    <2>2. ASSUME NEW k \in 0 .. n - 1 PROVE b[k] \in Char
      <3>1. CASE k < j
        <4>1. k \in 0 .. j - 1 /\ k \in 0 .. len - 1  BY <3>1, <1>2
        <4> QED BY <4>1, <2>1, <1>5
      <3>2. CASE k >= j
        <4>1. k \in j .. n - 1 /\ k + 1 \in 0 .. len - 1  BY <3>2, <1>2
        <4> QED BY <4>1, <2>1, <1>6
      <3>3. k < j \/ k >= j  BY <1>2
      <3> QED BY <3>1, <3>2, <3>3
    <2> QED BY <2>2, <1>2, <1>4, Sizes DEF Holds
  <1>8. Before \in Seq(Char) /\ Len(Before) = i /\ Before # <<>>
    BY <1>1, <1>2, Parts
  <1> PICK s : s = Front(Before)  OBVIOUS
  <1>9. s \in Seq(Char) /\ Len(s) = j /\ \A k \in 1 .. j : s[k] = Before[k]
    <2>1. s = SubSeq(Before, 1, j)  BY <1>8 DEF Front
    <2>2. \A k \in 1 .. j : Before[k] \in Char  BY <1>2, <1>8
    <2>3. /\ SubSeq(Before, 1, j) \in Seq(Char) /\ Len(SubSeq(Before, 1, j)) = j
          /\ \A k \in 1 .. j : SubSeq(Before, 1, j)[k] = Before[k]
      BY <2>2, <1>2
    <2> QED BY <2>1, <2>3
  <1>10. ASSUME NEW k \in 1 .. j PROVE b[k - 1] = s[k]
    <2>1. k - 1 \in 0 .. j - 1 /\ k \in 1 .. i  BY <1>2
    <2> QED BY <2>1, <1>5, <1>9, Parts
  <1>11. ASSUME NEW k \in 1 .. n - j PROVE b[j + k - 1] = After[k]
    <2> PICK h : h = j + k - 1  OBVIOUS
    <2>1. h \in j .. n - 1 /\ k \in 1 .. len - i /\ h + 1 = i + k - 1  BY <1>2
    <2>2. b[h] = buf[h + 1]  BY <2>1, <1>6
    <2>3. After[k] = buf[i + k - 1]  BY <2>1, Parts
    <2> QED BY <2>1, <2>2, <2>3
  <1>12. After \in Seq(Char) /\ Len(After) = n - j
    <2>1. After \in Seq(Char) /\ Len(After) = len - i  BY Parts
    <2> QED BY <2>1, <1>2
  <1>13. Spells(b, n, j, s, After)
    BY <1>2, <1>7, <1>9, <1>10, <1>11, <1>12 DEF Spells
  <1>14. Bytes' /\ Before' = s /\ After' = After  BY <1>1, <1>13, PartsAre
  <1> QED BY <1>1, <1>8, <1>14 DEF E!Rubout, E!Front, Front

\* The cursor moves and the bytes stay.
LEMMA MoveKey ==
    ASSUME Bytes, CtrlA \/ CtrlE \/ Left \/ Right
    PROVE  Bytes' /\ E!Move
  <1>1. UNCHANGED <<buf, len>> /\ UNCHANGED E!held
    BY HeldSame DEF CtrlA, CtrlE, Left, Right
  <1>2. len \in Nat /\ i \in 0 .. len  BY Parts
  <1>3. i' \in 0 .. len  BY <1>2 DEF CtrlA, CtrlE, Left, Right
  <1>4. Bytes'  BY <1>1, <1>3 DEF Bytes
  <1>5. Before \o After = Str(buf)  BY Parts
  <1>6. Before' \o After' = Str(buf)
    <2> PICK j : j = i'  OBVIOUS
    <2>1. Before' = FrontOf(buf, j) /\ After' = BackOf(buf, len, j)
      BY <1>1 DEF Before, After, FrontOf, BackOf
    <2>2. Spells(buf, len, j, FrontOf(buf, j), BackOf(buf, len, j))
      BY <1>3, Spelled DEF Bytes
    <2> QED BY <2>1, <2>2, Joined
  <1>7. Before' \o After' = E!Line  BY <1>1, <1>5, <1>6 DEF E!Line
  <1> QED BY <1>1, <1>4, <1>7 DEF E!Move

LEMMA CtrlKKey ==
    ASSUME Bytes, CtrlK
    PROVE  Bytes' /\ E!KillRight
  <1> PICK b, j : b = Terminate(buf, i) /\ j = i  OBVIOUS
  <1>1. buf' = b /\ i' = j /\ len' = j /\ UNCHANGED E!held  BY HeldSame DEF CtrlK
  <1>2. buf \in [Index -> Byte] /\ len \in Nat /\ len <= CAP - 1 /\ j \in 0 .. len
        /\ j \in Nat /\ j \in Index
    BY Parts, Sizes
  <1>3. b \in [Index -> Byte] /\ b[j] = NUL /\ \A k \in 0 .. j - 1 : b[k] = buf[k]
    <2>1. \A k \in 0 .. j - 1 : k \in Index \ {j}  BY <1>2, Sizes
    <2> QED BY <2>1, <1>2, Ended
  <1>4. \A k \in 0 .. j - 1 : b[k] \in Char
    <2>1. \A k \in 0 .. j - 1 : k \in 0 .. len - 1  BY <1>2
    <2> QED BY <2>1, <1>3 DEF Bytes, Holds
  <1>5. Holds(b, j)  BY <1>2, <1>3, <1>4, Sizes DEF Holds
  <1>6. Spells(b, j, j, Before, <<>>)
    <2>1. <<>> \in Seq(Char) /\ Len(<<>>) = j - j /\ j \in 0 .. j
          /\ \A k \in 1 .. j - j : FALSE
      BY <1>2
    <2>2. \A k \in 1 .. j : b[k - 1] = Before[k]
      <3> SUFFICES ASSUME NEW k \in 1 .. j PROVE b[k - 1] = Before[k]  OBVIOUS
      <3>1. k - 1 \in 0 .. j - 1  BY <1>2
      <3> QED BY <3>1, <1>3, Parts
    <2>3. Before \in Seq(Char) /\ Len(Before) = j  BY Parts
    <2> QED BY <2>1, <2>2, <2>3, <1>5 DEF Spells
  <1>7. Bytes' /\ Before' = Before /\ After' = <<>>  BY <1>1, <1>6, PartsAre
  <1> QED BY <1>1, <1>7 DEF E!KillRight

LEMMA CtrlUKey ==
    ASSUME Bytes, CtrlU
    PROVE  Bytes' /\ (E!KillLeft \/ KillLeftRepeats)
  <1> PICK n : n = len - i  OBVIOUS
  <1> PICK m : m = memmove(buf, 0, i, i)  OBVIOUS
  <1> PICK b : b = Terminate(m, n)  OBVIOUS
  <1>1. buf' = b /\ i' = 0 /\ len' = n /\ UNCHANGED E!held
    BY HeldSame DEF CtrlU
  <1>2. buf \in [Index -> Byte] /\ len \in Nat /\ len <= CAP - 1 /\ i \in 0 .. len
        /\ i \in Nat /\ n \in Nat /\ n \in Index /\ n <= CAP - 1 /\ n <= len
    BY Parts, Sizes
  <1>3. m \in [Index -> Byte]
        /\ \A k \in Index : m[k] = IF 0 <= k /\ k < 0 + i
                                   THEN IF k - 0 + i <= CAP THEN buf[k - 0 + i] ELSE NUL
                                   ELSE buf[k]
    <2>1. 0 \in Nat /\ i \in Int  BY <1>2
    <2>2. Moves(m, buf, 0, i, i)  BY <1>2, <2>1, Moved
    <2> QED BY <2>2 DEF Moves
  <1>4. b \in [Index -> Byte] /\ b[n] = NUL /\ \A k \in 0 .. n - 1 : b[k] = m[k]
    <2>1. \A k \in 0 .. n - 1 : k \in Index \ {n}  BY <1>2, Sizes
    <2> QED BY <2>1, <1>2, <1>3, Ended
  <1>5. ASSUME NEW k \in 0 .. n - 1
        PROVE  b[k] = IF k < i THEN buf[k + i] ELSE buf[k]
    <2>1. k \in Index /\ 0 <= k /\ (k < 0 + i <=> k < i) /\ k - 0 + i = k + i
          /\ k + i <= CAP
      BY <1>2, Sizes
    <2> QED BY <2>1, <1>3, <1>4
  <1>6. Holds(b, n)
    <2>1. \A k \in 0 .. len - 1 : buf[k] \in Char  BY DEF Bytes, Holds
    <2>2. ASSUME NEW k \in 0 .. n - 1 PROVE b[k] \in Char
      <3>1. k + i \in 0 .. len - 1 /\ k \in 0 .. len - 1  BY <1>2
      <3> QED BY <3>1, <2>1, <1>5
    <2> QED BY <2>2, <1>2, <1>4, Sizes DEF Holds
  <1> PICK t : t = BackOf(b, n, 0)  OBVIOUS
  <1>7. Spells(b, n, 0, <<>>, t)
    <2>1. 0 \in 0 .. n  BY <1>2
    <2>2. Spells(b, n, 0, FrontOf(b, 0), t)  BY <1>6, <2>1, Spelled
    <2>3. FrontOf(b, 0) = <<>>  BY <2>2 DEF Spells
    <2> QED BY <2>2, <2>3
  <1>8. Bytes' /\ Before' = <<>> /\ After' = t  BY <1>1, <1>7, PartsAre
  <1>9. /\ t \in Seq(Char) /\ Len(t) = n /\ \A k \in 1 .. n : t[k] = b[k - 1]
    <2>1. n - 0 = n /\ \A k \in 1 .. n : 0 + k - 1 = k - 1  BY <1>2
    <2> QED BY <1>7, <2>1 DEF Spells
  <1>10. Len(Before) = i /\ After \in Seq(Char) /\ Len(After) = n
    BY Parts
  <1>11. ASSUME Len(After) <= Len(Before) PROVE t = After
    <2>1. n <= i  BY <1>10, <1>11
    <2>2. ASSUME NEW k \in 1 .. n PROVE t[k] = After[k]
      <3> PICK h : h = k - 1  OBVIOUS
      <3>1. h \in 0 .. n - 1 /\ h < i /\ h + i = i + k - 1  BY <1>2, <2>1
      <3>2. t[k] = b[h]  BY <1>9
      <3>3. b[h] = buf[h + i]  BY <3>1, <1>5
      <3>4. After[k] = buf[i + k - 1]  BY Parts
      <3> QED BY <3>1, <3>2, <3>3, <3>4
    <2> QED BY <1>9, <1>10, <2>2, SeqEqual
  <1>12. ASSUME Len(After) > i
         PROVE  t = [k \in DOMAIN After |-> After[IF k <= i THEN k ELSE k - i]]
    <2>1. n > i /\ DOMAIN After = 1 .. n  BY <1>2, <1>10, <1>12
    <2> PICK r : r = [k \in 1 .. n |-> After[IF k <= i THEN k ELSE k - i]]  OBVIOUS
    <2>2. ASSUME NEW k \in 1 .. n
          PROVE  /\ (IF k <= i THEN k ELSE k - i) \in 1 .. n
                 /\ t[k] = After[IF k <= i THEN k ELSE k - i]
      <3> PICK h : h = k - 1  OBVIOUS
      <3>1. h \in 0 .. n - 1 /\ (h < i <=> k <= i) /\ h + i = i + k - 1 /\ h = i + (k - i) - 1
        BY <1>2
      <3>2. t[k] = IF h < i THEN buf[h + i] ELSE buf[h]  BY <1>5, <1>9, <3>1
      <3>3. CASE k <= i
        <4>1. After[k] = buf[h + i]  BY <3>1, Parts
        <4> QED BY <1>2, <3>1, <3>2, <3>3, <4>1
      <3>4. CASE ~(k <= i)
        <4>1. k - i \in 1 .. n  BY <1>2, <3>4
        <4>2. After[k - i] = buf[h]  BY <3>1, <4>1, Parts
        <4> QED BY <3>1, <3>2, <3>4, <4>1, <4>2
      <3> QED BY <3>3, <3>4
    <2>3. r \in Seq(Char) /\ Len(r) = n
      <3>1. \A k \in 1 .. n : After[k] \in Char  BY <1>10
      <3>2. \A k \in 1 .. n : After[IF k <= i THEN k ELSE k - i] \in Char
        <4> SUFFICES ASSUME NEW k \in 1 .. n PROVE After[IF k <= i THEN k ELSE k - i] \in Char
          OBVIOUS
        <4>1. (IF k <= i THEN k ELSE k - i) \in 1 .. n  BY <2>2
        <4> QED BY <3>1, <4>1
      <3> QED BY <1>2, <3>2
    <2>4. t = r  BY <1>9, <2>2, <2>3, SeqEqual
    <2> QED BY <2>1, <2>4
  <1>13. Len(After) <= Len(Before) \/ Len(After) > i  BY <1>2, <1>10
  <1> QED BY <1>1, <1>8, <1>11, <1>12, <1>13 DEF E!KillLeft, KillLeftRepeats

\* The word before the cursor ends at e and begins after j: CtrlW and Editor agree.
WordAt(s, n, e, j) ==
    /\ n \in Nat /\ e \in 0 .. n /\ j \in 0 .. e
    /\ e = 0 \/ s[e] # BLANK
    /\ \A k \in e + 1 .. n : s[k] = BLANK
    /\ j = 0 \/ s[j] = BLANK
    /\ \A k \in j + 1 .. e : s[k] # BLANK

LEMMA WordStartIs ==
    ASSUME Bytes
    PROVE  \E e : WordAt(Before, i, e, WordStart)
  <1> DEFINE T == {0} \cup {k \in 1 .. i : buf[k - 1] # BLANK}
  <1>1. i \in Nat /\ \A k \in 1 .. i : Before[k] = buf[k - 1]
    BY Parts
  <1>2. PICK e \in T : \A k \in T : k <= e
    <2>1. T \subseteq 0 .. i /\ 0 \in T  BY <1>1
    <2> QED BY <1>1, <2>1, NatMax
  <1>3. e \in 0 .. i /\ e \in Nat /\ T \subseteq Int  BY <1>1
  <1>4. Max(T) = e  BY <1>2, <1>3, MaxIs
  <1>5. e = 0 \/ Before[e] # BLANK  BY <1>1, <1>2
  <1>6. ASSUME NEW k \in e + 1 .. i PROVE Before[k] = BLANK
    <2>1. k \in 1 .. i /\ ~(k <= e)  BY <1>1, <1>3
    <2>2. k \notin T  BY <2>1, <1>2
    <2> QED BY <2>1, <2>2, <1>1
  <1> DEFINE U == {0} \cup {k \in 1 .. e : buf[k - 1] = BLANK}
  <1>7. WordStart = Max(U)  BY <1>4 DEF WordStart
  <1> HIDE DEF T
  <1>8. PICK j \in U : \A k \in U : k <= j
    <2>1. U \subseteq 0 .. e /\ 0 \in U  BY <1>3
    <2> QED BY <1>3, <2>1, NatMax
  <1>9. j \in 0 .. e /\ U \subseteq Int  BY <1>3
  <1>10. Max(U) = j  BY <1>8, <1>9, MaxIs
  <1>11. j = 0 \/ Before[j] = BLANK
    <2> SUFFICES ASSUME j # 0 PROVE Before[j] = BLANK  OBVIOUS
    <2>1. j \in 1 .. i /\ buf[j - 1] = BLANK  BY <1>1, <1>3, <1>8
    <2> QED BY <2>1, <1>1
  <1>12. ASSUME NEW k \in j + 1 .. e PROVE Before[k] # BLANK
    <2>1. k \in 1 .. e /\ ~(k <= j) /\ k \in 1 .. i  BY <1>1, <1>3, <1>9
    <2>2. k \notin U  BY <2>1, <1>8
    <2> QED BY <2>1, <2>2, <1>1
  <1> HIDE DEF U
  <1>13. WordAt(Before, i, e, j)
    BY <1>1, <1>3, <1>5, <1>6, <1>9, <1>11, <1>12 DEF WordAt
  <1> QED BY <1>7, <1>10, <1>13

LEMMA WithoutWordIs ==
    ASSUME NEW s \in Seq(Char), NEW e, NEW j, WordAt(s, Len(s), e, j)
    PROVE  E!WithoutWord(s) = SubSeq(s, 1, j)
  <1> DEFINE word == {k \in DOMAIN s : s[k] # BLANK}
  <1>1. /\ Len(s) \in Nat /\ e \in 0 .. Len(s) /\ j \in 0 .. e /\ e \in Nat /\ j \in Nat
        /\ e = 0 \/ s[e] # BLANK
        /\ \A k \in e + 1 .. Len(s) : s[k] = BLANK
        /\ j = 0 \/ s[j] = BLANK
        /\ \A k \in j + 1 .. e : s[k] # BLANK
        /\ DOMAIN s = 1 .. Len(s)
    BY DEF WordAt
  <1>2. \A k \in word : k <= e /\ k \in Nat
    <2> SUFFICES ASSUME NEW k \in word PROVE k <= e /\ k \in Nat  OBVIOUS
    <2>1. k \in 1 .. Len(s) /\ k \notin e + 1 .. Len(s)  BY <1>1
    <2> QED BY <2>1, <1>1
  <1>3. CASE e = 0
    <2>1. word = {}
      <3> SUFFICES ASSUME NEW k \in word PROVE FALSE  OBVIOUS
      <3>1. k \in 1 .. Len(s) /\ k <= 0  BY <1>1, <1>2, <1>3
      <3> QED BY <3>1, <1>1
    <2>2. j = 0  BY <1>1, <1>3
    <2>3. SubSeq(s, 1, j) = <<>>  BY <2>2, SubSeqEmpty
    <2> QED BY <2>1, <2>3 DEF E!WithoutWord
  <1>4. CASE e # 0
    <2>1. e \in word /\ word # {}  BY <1>1, <1>4
    <2> DEFINE last == CHOOSE k \in word : \A l \in word : l <= k
    <2>2. last = e
      <3>1. \A l \in word : l <= e  BY <1>2
      <3>2. last \in word /\ \A l \in word : l <= last
        BY <2>1, <3>1
      <3>3. last <= e /\ e <= last /\ last \in Nat  BY <2>1, <3>2, <1>2
      <3> HIDE DEF last, word
      <3> QED BY <3>3, <1>1
    <2> DEFINE Starts(f) == /\ \A l \in f .. e : s[l] # BLANK
                            /\ f = 1 \/ s[f - 1] = BLANK
               first == CHOOSE f \in 1 .. e : Starts(f)
    <2>3. j < e
      <3>1. j = e => e = 0  BY <1>1, <1>4
      <3> QED BY <3>1, <1>1, <1>4
    <2>4. j + 1 \in 1 .. e /\ Starts(j + 1)
      <3>1. j + 1 \in 1 .. e /\ (j + 1) - 1 = j /\ (j = 0 => j + 1 = 1)  BY <1>1, <2>3
      <3> QED BY <3>1, <1>1
    <2>5. first \in 1 .. e /\ Starts(first)  BY <2>4
    <2>6. first = j + 1
      <3> HIDE DEF first
      <3> PICK f : f = first  OBVIOUS
      <3>1. f \in 1 .. e /\ Starts(f)  BY <2>5
      <3>2. ~(f <= j)
        <4> SUFFICES ASSUME f <= j PROVE FALSE  OBVIOUS
        <4>1. j \in f .. e /\ j # 0  BY <3>1, <1>1, <2>3
        <4> QED BY <4>1, <3>1, <1>1
      <3>3. ~(f > j + 1)
        <4> SUFFICES ASSUME f > j + 1 PROVE FALSE  OBVIOUS
        <4>1. f - 1 \in j + 1 .. e /\ f # 1  BY <3>1, <1>1, <2>3
        <4>2. s[f - 1] = BLANK  BY <4>1, <3>1
        <4> QED BY <4>1, <4>2, <1>1
      <3>4. f \in Nat  BY <3>1, <1>1
      <3> QED BY <3>2, <3>3, <3>4, <1>1
    <2>7. E!WithoutWord(s) = SubSeq(s, 1, first - 1)
      BY <2>1, <2>2 DEF E!WithoutWord
    <2> HIDE DEF first
    <2>8. first - 1 = j  BY <2>6, <1>1
    <2> QED BY <2>7, <2>8
  <1> QED BY <1>3, <1>4

LEMMA CtrlWKey ==
    ASSUME Bytes, CtrlW
    PROVE  Bytes' /\ E!KillWord
  <1> PICK j, n : j = WordStart /\ n = len - (i - j)  OBVIOUS
  <1> PICK m : m = memmove(buf, j, i, len - i)  OBVIOUS
  <1> PICK b : b = Terminate(m, n)  OBVIOUS
  <1>1. buf' = b /\ i' = j /\ len' = n /\ UNCHANGED E!held
    BY HeldSame DEF CtrlW
  <1>2. PICK e : WordAt(Before, i, e, j)  BY WordStartIs
  <1>3. buf \in [Index -> Byte] /\ len \in Nat /\ len <= CAP - 1 /\ i \in 0 .. len
        /\ i \in Nat /\ len - i \in Int /\ j \in Nat /\ j <= i
        /\ n \in Nat /\ n \in Index /\ n <= CAP - 1 /\ n <= len /\ j \in 0 .. n
    <2>1. buf \in [Index -> Byte] /\ len \in Nat /\ len <= CAP - 1 /\ i \in 0 .. len
      BY Parts
    <2>2. e \in 0 .. i /\ j \in 0 .. e  BY <1>2 DEF WordAt
    <2> QED BY <2>1, <2>2, Sizes
  <1>4. m \in [Index -> Byte]
        /\ \A k \in Index : m[k] = IF j <= k /\ k < j + (len - i)
                                   THEN IF k - j + i <= CAP THEN buf[k - j + i] ELSE NUL
                                   ELSE buf[k]
    <2>1. Moves(m, buf, j, i, len - i)  BY <1>3, Moved
    <2> QED BY <2>1 DEF Moves
  <1>5. b \in [Index -> Byte] /\ b[n] = NUL /\ \A k \in 0 .. n - 1 : b[k] = m[k]
    <2>1. \A k \in 0 .. n - 1 : k \in Index \ {n}  BY <1>3, Sizes
    <2> QED BY <2>1, <1>3, <1>4, Ended
  <1>6. ASSUME NEW k \in 0 .. n - 1
        PROVE  b[k] = IF j <= k THEN buf[k - j + i] ELSE buf[k]
    <2>1. k \in Index /\ k < j + (len - i) /\ k - j + i <= CAP
      BY <1>3, Sizes
    <2> QED BY <2>1, <1>4, <1>5
  <1>7. Holds(b, n)
    <2>1. \A k \in 0 .. len - 1 : buf[k] \in Char  BY DEF Bytes, Holds
    <2>2. ASSUME NEW k \in 0 .. n - 1 PROVE b[k] \in Char
      <3>1. k \in 0 .. len - 1 /\ (j <= k => k - j + i \in 0 .. len - 1)  BY <1>3
      <3> QED BY <3>1, <2>1, <1>6
    <2> QED BY <2>2, <1>3, <1>5, Sizes DEF Holds
  <1> PICK s : s = SubSeq(Before, 1, j)  OBVIOUS
  <1>8. s \in Seq(Char) /\ Len(s) = j /\ \A k \in 1 .. j : s[k] = Before[k]
    <2>1. Before \in Seq(Char) /\ Len(Before) = i  BY Parts
    <2>2. \A k \in 1 .. j : Before[k] \in Char  BY <1>3, <2>1
    <2> QED BY <2>1, <2>2, <1>3
  <1>9. ASSUME NEW k \in 1 .. j PROVE b[k - 1] = s[k]
    <2> PICK h : h = k - 1  OBVIOUS
    <2>1. h \in 0 .. n - 1 /\ ~(j <= h) /\ k \in 1 .. i  BY <1>3
    <2>2. b[h] = buf[h]  BY <2>1, <1>6
    <2>3. Before[k] = buf[k - 1]  BY <2>1, Parts
    <2> QED BY <2>2, <2>3, <1>8
  <1>10. ASSUME NEW k \in 1 .. n - j PROVE b[j + k - 1] = After[k]
    <2> PICK h : h = j + k - 1  OBVIOUS
    <2>1. h \in 0 .. n - 1 /\ j <= h /\ k \in 1 .. len - i /\ h - j + i = i + k - 1
      BY <1>3
    <2>2. b[h] = buf[h - j + i]  BY <2>1, <1>6
    <2>3. After[k] = buf[i + k - 1]  BY <2>1, Parts
    <2> QED BY <2>1, <2>2, <2>3
  <1>11. After \in Seq(Char) /\ Len(After) = n - j
    <2>1. After \in Seq(Char) /\ Len(After) = len - i  BY Parts
    <2> QED BY <2>1, <1>3
  <1>12. Spells(b, n, j, s, After)
    BY <1>3, <1>7, <1>8, <1>9, <1>10, <1>11 DEF Spells
  <1>13. Bytes' /\ Before' = s /\ After' = After  BY <1>1, <1>12, PartsAre
  <1>14. E!WithoutWord(Before) = s
    <2>1. Before \in Seq(Char) /\ Len(Before) = i  BY Parts
    <2> QED BY <2>1, <1>2, WithoutWordIs
  <1> QED BY <1>1, <1>13, <1>14 DEF E!KillWord
-----------------------------------------------------------------------------
(* The lines written to the file: what the loop of save2file has after n.  *)

Loop(s, n, f) == /\ f[0] = <<>>
                 /\ \A k \in 1 .. n : f[k] = IF s[k] = <<>> THEN f[k - 1]
                                             ELSE Append(f[k - 1], s[k])

\* The recursive function exists: a least n for which it does not is not there.
LEMMA LoopExists ==
    ASSUME NEW s, NEW N \in Nat
    PROVE  \E g : g = [k \in 0 .. N |-> IF k = 0 THEN <<>>
                                        ELSE IF s[k] = <<>> THEN g[k - 1]
                                        ELSE Append(g[k - 1], s[k])]
  <1> DEFINE Is(g, n) == g = [k \in 0 .. n |-> IF k = 0 THEN <<>>
                                               ELSE IF s[k] = <<>> THEN g[k - 1]
                                               ELSE Append(g[k - 1], s[k])]
             T == {n \in Nat : ~\E g : Is(g, n)}
  <1>1. SUFFICES T = {}  OBVIOUS
  <1>2. SUFFICES ASSUME T # {} PROVE FALSE  OBVIOUS
  <1>3. T \subseteq Nat  OBVIOUS
  <1>4. PICK n \in T : \A m \in T : n <= m  BY <1>2, <1>3, NatMin
  <1>5. CASE n = 0
    <2> DEFINE g == [k \in 0 .. 0 |-> <<>>]
    <2>1. \A k \in 0 .. 0 : k = 0  OBVIOUS
    <2>2. Is(g, 0)  BY <2>1
    <2> QED BY <2>2, <1>5
  <1>6. CASE n # 0
    <2>1. n - 1 \in Nat /\ n \in Nat  BY <1>6
    <2>2. n - 1 \notin T
      <3> HIDE DEF T
      <3>1. ~(n <= n - 1)  BY <2>1
      <3> QED BY <1>4, <3>1
    <2>3. PICK h : Is(h, n - 1)  BY <2>1, <2>2
    <2> DEFINE g == [k \in 0 .. n |-> IF k = n THEN IF s[n] = <<>> THEN h[n - 1]
                                                    ELSE Append(h[n - 1], s[n])
                                      ELSE h[k]]
    <2>4. \A k \in 0 .. n - 1 : k \in 0 .. n /\ k # n /\ g[k] = h[k]  BY <2>1
    <2>5. ASSUME NEW k \in 0 .. n
          PROVE  g[k] = IF k = 0 THEN <<>> ELSE IF s[k] = <<>> THEN g[k - 1]
                        ELSE Append(g[k - 1], s[k])
      <3>1. CASE k = n
        <4>1. n - 1 \in 0 .. n - 1 /\ n # 0  BY <2>1, <1>6
        <4>2. g[n - 1] = h[n - 1]  BY <4>1, <2>4
        <4> QED BY <3>1, <4>1, <4>2
      <3>2. CASE k # n
        <4>1. k \in 0 .. n - 1 /\ (k # 0 => k - 1 \in 0 .. n - 1)  BY <3>2, <2>1
        <4>2. g[k] = h[k] /\ (k # 0 => g[k - 1] = h[k - 1])  BY <4>1, <2>4
        <4>3. h[k] = IF k = 0 THEN <<>> ELSE IF s[k] = <<>> THEN h[k - 1]
                     ELSE Append(h[k - 1], s[k])
          BY <4>1, <2>3
        <4> QED BY <4>2, <4>3
      <3> QED BY <3>1, <3>2
    <2>6. g = [k \in 0 .. n |-> g[k]]  OBVIOUS
    <2> HIDE DEF g
    <2>7. Is(g, n)  BY <2>5, <2>6
    <2> QED BY <2>7
  <1> QED BY <1>5, <1>6

LEMMA WrittenIs ==
    ASSUME NEW s, Len(s) \in Nat
    PROVE  \E f : Loop(s, Len(s), f) /\ Written(s) = f[Len(s)]
  <1> DEFINE f[n \in 0 .. Len(s)] == IF n = 0 THEN <<>>
                                     ELSE IF s[n] = <<>> THEN f[n - 1]
                                     ELSE Append(f[n - 1], s[n])
  <1>1. Written(s) = f[Len(s)]  BY DEF Written
  <1>2. f = [n \in 0 .. Len(s) |-> IF n = 0 THEN <<>>
                                   ELSE IF s[n] = <<>> THEN f[n - 1]
                                   ELSE Append(f[n - 1], s[n])]
    BY LoopExists
  <1> HIDE DEF f
  <1>3. Loop(s, Len(s), f)
    <2>1. 0 \in 0 .. Len(s)  OBVIOUS
    <2>2. \A k \in 1 .. Len(s) : k \in 0 .. Len(s) /\ k # 0  OBVIOUS
    <2> QED BY <1>2, <2>1, <2>2 DEF Loop
  <1> QED BY <1>1, <1>3

\* So many lines at most, and each of them from the list and not empty.
LEMMA WrittenLines ==
    ASSUME NEW S, NEW s \in Seq(S)
    PROVE  Written(s) \in Seq(S \ {<<>>}) /\ Len(Written(s)) <= Len(s)
  <1>1. Len(s) \in Nat  OBVIOUS
  <1>2. PICK f : Loop(s, Len(s), f) /\ Written(s) = f[Len(s)]  BY <1>1, WrittenIs
  <1> DEFINE R == S \ {<<>>}
             Good(n) == f[n] \in Seq(R) /\ Len(f[n]) <= n
             T == {n \in 0 .. Len(s) : ~Good(n)}
  <1>3. SUFFICES T = {}
    <2>1. Len(s) \in 0 .. Len(s)  BY <1>1
    <2> QED BY <2>1, <1>2
  <1>4. SUFFICES ASSUME T # {} PROVE FALSE  OBVIOUS
  <1>5. T \subseteq Nat  BY <1>1
  <1>6. PICK n \in T : \A m \in T : n <= m  BY <1>4, <1>5, NatMin
  <1>7. n \in 0 .. Len(s) /\ n \in Nat /\ ~Good(n)  BY <1>1
  <1>8. n # 0
    <2>1. <<>> \in Seq(R) /\ Len(<<>>) <= 0  OBVIOUS
    <2>2. f[0] = <<>>  BY <1>2 DEF Loop
    <2> QED BY <2>1, <2>2, <1>7
  <1>9. n \in 1 .. Len(s) /\ n - 1 \in 0 .. Len(s) /\ ~(n <= n - 1)  BY <1>1, <1>7, <1>8
  <1>10. Good(n - 1)  BY <1>6, <1>9
  <1>11. f[n] = IF s[n] = <<>> THEN f[n - 1] ELSE Append(f[n - 1], s[n])
    BY <1>2, <1>9 DEF Loop
  <1>12. s[n] \in S  BY <1>9, ElementOfSeq
  <1> PICK g, x : g = f[n - 1] /\ x = s[n]  OBVIOUS
  <1>13. g \in Seq(R) /\ Len(g) \in Nat /\ Len(g) <= n - 1  BY <1>10
  <1>14. CASE x = <<>>
    <2>1. f[n] = g  BY <1>11, <1>14
    <2> QED BY <2>1, <1>7, <1>13
  <1>15. CASE x # <<>>
    <2>1. f[n] = Append(g, x) /\ x \in R  BY <1>11, <1>12, <1>15
    <2>2. Append(g, x) \in Seq(R) /\ Len(Append(g, x)) = Len(g) + 1
      BY <2>1, <1>13, AppendProperties
    <2>3. Len(g) + 1 <= n  BY <1>7, <1>13
    <2> HIDE DEF R
    <2> QED BY <2>1, <2>2, <2>3, <1>7
  <1> QED BY <1>14, <1>15

\* Empty lines before the others make no difference.
LEMMA WrittenSkips ==
    ASSUME NEW s, NEW t, NEW d \in Nat, Len(t) \in Nat, Len(s) = d + Len(t),
           \A k \in 1 .. d : s[k] = <<>>,
           \A k \in 1 .. Len(t) : s[d + k] = t[k]
    PROVE  Written(s) = Written(t)
  <1>1. Len(s) \in Nat  OBVIOUS
  <1>2. PICK f : Loop(s, Len(s), f) /\ Written(s) = f[Len(s)]  BY <1>1, WrittenIs
  <1>3. PICK g : Loop(t, Len(t), g) /\ Written(t) = g[Len(t)]  BY WrittenIs
  <1>4. ASSUME NEW n \in 0 .. d PROVE f[n] = <<>>
    <2> DEFINE T == {m \in 0 .. d : f[m] # <<>>}
    <2>1. SUFFICES ASSUME T # {} PROVE FALSE  OBVIOUS
    <2>2. T \subseteq Nat  OBVIOUS
    <2>3. PICK m \in T : \A l \in T : m <= l  BY <2>1, <2>2, NatMin
    <2>4. m # 0  BY <1>2 DEF Loop
    <2>5. m \in 1 .. d /\ m \in 1 .. Len(s) /\ m - 1 \in 0 .. d /\ ~(m <= m - 1)
      BY <2>4
    <2>6. f[m - 1] = <<>>  BY <2>3, <2>5
    <2>7. f[m] = f[m - 1]  BY <2>5, <1>2 DEF Loop
    <2> QED BY <2>6, <2>7
  <1>5. ASSUME NEW n \in 0 .. Len(t) PROVE f[d + n] = g[n]
    <2> DEFINE T == {m \in 0 .. Len(t) : f[d + m] # g[m]}
    <2>1. SUFFICES ASSUME T # {} PROVE FALSE  OBVIOUS
    <2>2. T \subseteq Nat  OBVIOUS
    <2>3. PICK m \in T : \A l \in T : m <= l  BY <2>1, <2>2, NatMin
    <2>4. m # 0
      <3>1. d \in 0 .. d /\ d + 0 = d  OBVIOUS
      <3>2. f[d + 0] = g[0]  BY <3>1, <1>3, <1>4 DEF Loop
      <3> QED BY <3>2
    <2>5. m \in 1 .. Len(t) /\ m - 1 \in 0 .. Len(t) /\ ~(m <= m - 1)
      BY <2>4
    <2>6. f[d + (m - 1)] = g[m - 1]  BY <2>3, <2>5
    <2> PICK e : e = d + m  OBVIOUS
    <2>7. e \in 1 .. Len(s) /\ e - 1 = d + (m - 1)  BY <2>5
    <2>8. f[e] = IF s[e] = <<>> THEN f[e - 1] ELSE Append(f[e - 1], s[e])
      BY <2>7, <1>2 DEF Loop
    <2>9. g[m] = IF t[m] = <<>> THEN g[m - 1] ELSE Append(g[m - 1], t[m])
      BY <2>5, <1>3 DEF Loop
    <2>10. s[e] = t[m]  BY <2>5
    <2>11. f[e] = g[m]  BY <2>6, <2>7, <2>8, <2>9, <2>10
    <2> QED BY <2>11
  <1>6. Len(t) \in 0 .. Len(t)  OBVIOUS
  <1>7. f[d + Len(t)] = g[Len(t)]  BY <1>5, <1>6
  <1> QED BY <1>2, <1>3, <1>7
-----------------------------------------------------------------------------
(* The ring *)

KeptOf(n)    == Min({n, HISTORY_SIZE})
PastOf(h, n) == [k \in 1 .. KeptOf(n) |-> h[modid(n - KeptOf(n) + k - 1)]]

\* The lines of the ring h when n have been stored: the slots not yet used are empty.
Ring(h, n, c) ==
    /\ h \in [0 .. HISTORY_SIZE - 1 -> Text] /\ n \in Nat /\ c \in Nat /\ c <= n
    /\ c >= n - KeptOf(n)
    /\ \A k \in n .. HISTORY_SIZE - 1 : h[k] = <<>>

LEMMA KeptIs ==
    ASSUME NEW n \in Nat
    PROVE  /\ KeptOf(n) = IF n <= HISTORY_SIZE THEN n ELSE HISTORY_SIZE
           /\ KeptOf(n) \in Nat /\ KeptOf(n) <= HISTORY_SIZE /\ KeptOf(n) <= n
  <1> PICK m : m = IF n <= HISTORY_SIZE THEN n ELSE HISTORY_SIZE  OBVIOUS
  <1>1. /\ m \in {n, HISTORY_SIZE} /\ {n, HISTORY_SIZE} \subseteq Int
        /\ \A y \in {n, HISTORY_SIZE} : m <= y
    BY Sizes
  <1>2. KeptOf(n) = m  BY <1>1, MinIs DEF KeptOf
  <1> QED BY <1>2, Sizes

LEMMA PastIs ==
    ASSUME NEW h \in [0 .. HISTORY_SIZE - 1 -> Text], NEW n \in Nat
    PROVE  /\ PastOf(h, n) \in Seq(Text) /\ Len(PastOf(h, n)) = KeptOf(n)
           /\ DOMAIN PastOf(h, n) = 1 .. KeptOf(n)
           /\ \A k \in 1 .. KeptOf(n) :
                /\ PastOf(h, n)[k] = h[modid(n - KeptOf(n) + k - 1)]
                /\ n - KeptOf(n) + k - 1 \in Nat
                /\ modid(n - KeptOf(n) + k - 1) \in 0 .. HISTORY_SIZE - 1
  <1> PICK m : m = KeptOf(n)  OBVIOUS
  <1>1. m \in Nat /\ m <= n  BY KeptIs
  <1>2. ASSUME NEW k \in 1 .. m
        PROVE  n - m + k - 1 \in Nat /\ modid(n - m + k - 1) \in 0 .. HISTORY_SIZE - 1
    <2> PICK a : a = n - m + k - 1  OBVIOUS
    <2>1. a \in Nat  BY <1>1
    <2> QED BY <2>1, Slots
  <1>3. \A k \in 1 .. m : h[modid(n - m + k - 1)] \in Text  BY <1>2
  <1>4. PastOf(h, n) = [k \in 1 .. m |-> h[modid(n - m + k - 1)]]  BY DEF PastOf
  <1>5. [k \in 1 .. m |-> h[modid(n - m + k - 1)]] \in Seq(Text)
        /\ Len([k \in 1 .. m |-> h[modid(n - m + k - 1)]]) = m
    BY <1>1, <1>3
  <1> QED BY <1>2, <1>4, <1>5

\* The place of a line, and whether there is one before it.
LEMMA Places ==
    ASSUME NEW h, NEW n, NEW c, Ring(h, n, c)
    PROVE  /\ c - (n - KeptOf(n)) + 1 \in 1 .. KeptOf(n) + 1
           /\ c - (n - KeptOf(n)) + 1 = KeptOf(n) + 1 <=> c = n
           /\ c - (n - KeptOf(n)) + 1 > 1 <=> c # 0 /\ c + HISTORY_SIZE # n
  <1> PICK m : m = KeptOf(n)  OBVIOUS
  <1>1. n \in Nat /\ c \in Nat /\ c <= n /\ c >= n - m  BY DEF Ring
  <1>2. m \in Nat /\ m <= n /\ m = IF n <= HISTORY_SIZE THEN n ELSE HISTORY_SIZE
    BY <1>1, KeptIs
  <1>3. c - (n - m) + 1 \in 1 .. m + 1 /\ (c - (n - m) + 1 = m + 1 <=> c = n)
    BY <1>1, <1>2
  <1>4. c - (n - m) + 1 > 1 <=> c # 0 /\ c + HISTORY_SIZE # n
    <2>1. CASE n <= HISTORY_SIZE
      <3>1. m = n /\ c - (n - m) + 1 = c + 1  BY <2>1, <1>1, <1>2
      <3>2. c + HISTORY_SIZE = n => c = 0  BY <2>1, <1>1, Sizes
      <3> QED BY <3>1, <3>2, <1>1
    <2>2. CASE n > HISTORY_SIZE
      <3>1. m = HISTORY_SIZE  BY <2>2, <1>1, <1>2, Sizes
      <3>2. c - (n - m) + 1 > 1 <=> c > n - HISTORY_SIZE  BY <3>1, <1>1, Sizes
      <3>3. c > n - HISTORY_SIZE <=> c + HISTORY_SIZE # n  BY <3>1, <1>1, Sizes
      <3>4. c # 0  BY <2>2, <3>1, <1>1, Sizes
      <3> QED BY <3>2, <3>3, <3>4
    <2> QED BY <2>1, <2>2, <1>1, Sizes
  <1> QED BY <1>3, <1>4

\* The line at a place.
LEMMA PastAt ==
    ASSUME NEW h, NEW n, NEW c, Ring(h, n, c), c < n
    PROVE  PastOf(h, n)[c - (n - KeptOf(n)) + 1] = h[modid(c)]
           /\ c - (n - KeptOf(n)) + 1 \in 1 .. KeptOf(n)
  <1> PICK m, k : m = KeptOf(n) /\ k = c - (n - m) + 1  OBVIOUS
  <1>1. h \in [0 .. HISTORY_SIZE - 1 -> Text] /\ n \in Nat /\ c \in Nat /\ c >= n - m
    BY DEF Ring
  <1>2. m \in Nat /\ m <= n  BY <1>1, KeptIs
  <1>3. k \in 1 .. m /\ n - m + k - 1 = c
    <2>1. n \in Int /\ c \in Int /\ m \in Int /\ c < n /\ c >= n - m /\ k = c - (n - m) + 1
      BY <1>1, <1>2
    <2> QED BY <2>1
  <1>4. PastOf(h, n)[k] = h[modid(n - m + k - 1)]  BY <1>1, <1>3, PastIs
  <1> QED BY <1>3, <1>4

\* A line is changed in its place, and only there.
Changed(g, h, n, c, x) ==
    /\ PastOf(g, n) = [PastOf(h, n) EXCEPT ![c - (n - KeptOf(n)) + 1] = x]
    /\ Ring(g, n, c)
    /\ \A a \in Nat : a # c /\ n - KeptOf(n) <= a /\ a < n => g[modid(a)] = h[modid(a)]

LEMMA PastPut ==
    ASSUME NEW h, NEW n, NEW c, Ring(h, n, c), c < n, NEW x \in Text,
           NEW g, g = [h EXCEPT ![modid(c)] = x]
    PROVE  Changed(g, h, n, c, x)
  <1> PICK m, j : m = KeptOf(n) /\ j = c - (n - m) + 1  OBVIOUS
  <1>1. h \in [0 .. HISTORY_SIZE - 1 -> Text] /\ n \in Nat /\ c \in Nat /\ c >= n - m
        /\ \A k \in n .. HISTORY_SIZE - 1 : h[k] = <<>>
    BY DEF Ring
  <1>2. m \in Nat /\ m <= n /\ m <= HISTORY_SIZE  BY <1>1, KeptIs
  <1>3. modid(c) \in 0 .. HISTORY_SIZE - 1  BY <1>1, Slots
  <1>4. /\ g \in [0 .. HISTORY_SIZE - 1 -> Text] /\ g[modid(c)] = x
        /\ \A k \in 0 .. HISTORY_SIZE - 1 : k # modid(c) => g[k] = h[k]
    BY <1>1, <1>3
  <1>5. ASSUME NEW a \in Nat, a # c, n - m <= a, a < n
        PROVE  g[modid(a)] = h[modid(a)]
    <2>1. (a < c /\ c - a < HISTORY_SIZE) \/ (c < a /\ a - c < HISTORY_SIZE)
      BY <1>1, <1>2, <1>5, Sizes
    <2>2. modid(a) # modid(c)  BY <2>1, <1>1, SlotsApart
    <2>3. modid(a) \in 0 .. HISTORY_SIZE - 1  BY Slots
    <2> QED BY <2>2, <2>3, <1>4
  <1> PICK s, t : s = PastOf(h, n) /\ t = PastOf(g, n)  OBVIOUS
  <1>6. s \in Seq(Text) /\ Len(s) = m /\ t \in Seq(Text) /\ Len(t) = m
    BY <1>1, <1>4, PastIs
  <1>7. j \in 1 .. m /\ n - m + j - 1 = c
    <2>1. n \in Int /\ c \in Int /\ m \in Int /\ c < n /\ c >= n - m /\ j = c - (n - m) + 1
      BY <1>1, <1>2
    <2> QED BY <2>1
  <1>8. ASSUME NEW k \in 1 .. m PROVE t[k] = IF k = j THEN x ELSE s[k]
    <2> PICK a : a = n - m + k - 1  OBVIOUS
    <2>1. a \in Nat /\ n - m <= a /\ a < n /\ (k = j <=> a = c)
      <3>1. n \in Int /\ m \in Int /\ k \in Int /\ j \in Int /\ k >= 1 /\ k <= m /\ m <= n
            /\ a = n - m + k - 1 /\ c = n - m + j - 1
        BY <1>1, <1>2, <1>7
      <3> QED BY <3>1
    <2>2. s[k] = h[modid(a)]  BY <1>1, PastIs
    <2>3. t[k] = g[modid(a)]  BY <1>1, <1>4, PastIs
    <2> QED BY <2>1, <2>2, <2>3, <1>4, <1>5
  <1>9. t = [s EXCEPT ![j] = x]
    <2>1. [s EXCEPT ![j] = x] \in Seq(Text) /\ Len([s EXCEPT ![j] = x]) = m
          /\ \A k \in 1 .. m : [s EXCEPT ![j] = x][k] = IF k = j THEN x ELSE s[k]
      BY <1>6, <1>7, ExceptSeq
    <2> QED BY <2>1, <1>6, <1>8, SeqEqual
  <1>10. ASSUME NEW k \in n .. HISTORY_SIZE - 1 PROVE g[k] = <<>>
    <2>1. c < HISTORY_SIZE /\ k \in 0 .. HISTORY_SIZE - 1 /\ k # c  BY <1>1, Sizes
    <2>2. modid(c) = c  BY <2>1, <1>1, Slots
    <2> QED BY <2>1, <2>2, <1>1, <1>4
  <1>11. Ring(g, n, c)  BY <1>1, <1>4, <1>10 DEF Ring
  <1> QED BY <1>5, <1>9, <1>11 DEF Changed

\* A new line comes after the others, the oldest of which goes when the ring is full.
Added(g, h, n, x) ==
    /\ PastOf(g, n + 1) = IF KeptOf(n) < HISTORY_SIZE THEN Append(PastOf(h, n), x)
                          ELSE Append(Tail(PastOf(h, n)), x)
    /\ Ring(g, n + 1, n + 1)

LEMMA PastAdd ==
    ASSUME NEW h, NEW n, NEW c, Ring(h, n, c), NEW x \in Text,
           NEW g, g = [h EXCEPT ![modid(n)] = x]
    PROVE  Added(g, h, n, x)
  <1> PICK m : m = KeptOf(n)  OBVIOUS
  <1> PICK l : l = KeptOf(n + 1)  OBVIOUS
  <1>1. h \in [0 .. HISTORY_SIZE - 1 -> Text] /\ n \in Nat
        /\ \A k \in n .. HISTORY_SIZE - 1 : h[k] = <<>>
    BY DEF Ring
  <1>2. m \in Nat /\ m <= n /\ m <= HISTORY_SIZE
        /\ m = IF n <= HISTORY_SIZE THEN n ELSE HISTORY_SIZE
    BY <1>1, KeptIs
  <1>3. l \in Nat /\ l <= n + 1 /\ l = IF n + 1 <= HISTORY_SIZE THEN n + 1 ELSE HISTORY_SIZE
    BY <1>1, KeptIs
  <1>4. modid(n) \in 0 .. HISTORY_SIZE - 1  BY <1>1, Slots
  <1>5. /\ g \in [0 .. HISTORY_SIZE - 1 -> Text] /\ g[modid(n)] = x
        /\ \A k \in 0 .. HISTORY_SIZE - 1 : k # modid(n) => g[k] = h[k]
    BY <1>1, <1>4
  <1>6. ASSUME NEW a \in Nat, a < n, n - a < HISTORY_SIZE
        PROVE  g[modid(a)] = h[modid(a)]
    <2>1. modid(a) # modid(n)  BY <1>1, <1>6, SlotsApart
    <2>2. modid(a) \in 0 .. HISTORY_SIZE - 1  BY Slots
    <2> QED BY <2>1, <2>2, <1>5
  <1> PICK s, t : s = PastOf(h, n) /\ t = PastOf(g, n + 1)  OBVIOUS
  <1>7. s \in Seq(Text) /\ Len(s) = m
        /\ \A k \in 1 .. m : s[k] = h[modid(n - m + k - 1)]
    BY <1>1, PastIs
  <1>8. t \in Seq(Text) /\ Len(t) = l
        /\ \A k \in 1 .. l : t[k] = g[modid((n + 1) - l + k - 1)]
    <2> PICK p : p = n + 1  OBVIOUS
    <2>1. p \in Nat  BY <1>1
    <2>2. t \in Seq(Text) /\ Len(t) = l /\ \A k \in 1 .. l : t[k] = g[modid(p - l + k - 1)]
      BY <1>5, <2>1, PastIs
    <2> QED BY <2>2
  <1>9. ASSUME NEW k \in n + 1 .. HISTORY_SIZE - 1 PROVE g[k] = <<>>
    <2>1. n < HISTORY_SIZE /\ k \in 0 .. HISTORY_SIZE - 1 /\ k # n /\ k \in n .. HISTORY_SIZE - 1
      BY <1>1, Sizes
    <2>2. modid(n) = n  BY <2>1, <1>1, Slots
    <2> QED BY <2>1, <2>2, <1>1, <1>5
  <1>10. Ring(g, n + 1, n + 1)
    <2>1. n + 1 \in Nat /\ n + 1 <= n + 1 /\ n + 1 >= (n + 1) - l  BY <1>1, <1>3
    <2> QED BY <2>1, <1>5, <1>9 DEF Ring
  <1>11. CASE m < HISTORY_SIZE
    <2>1. m = n /\ l = n + 1  BY <1>1, <1>2, <1>3, <1>11, Sizes
    <2>2. Append(s, x) \in Seq(Text) /\ Len(Append(s, x)) = m + 1
          /\ (\A k \in 1 .. m : Append(s, x)[k] = s[k]) /\ Append(s, x)[m + 1] = x
      BY <1>7, AppendProperties
    <2>3. ASSUME NEW k \in 1 .. l PROVE t[k] = Append(s, x)[k]
      <3> PICK a : a = k - 1  OBVIOUS
      <3>1. a \in Nat /\ (n + 1) - l + k - 1 = a  BY <2>1, <1>1
      <3>2. t[k] = g[modid(a)]  BY <3>1, <1>8
      <3>3. CASE k = m + 1
        <4>1. a = n  BY <3>3, <2>1, <1>1
        <4> QED BY <4>1, <3>2, <3>3, <2>2, <1>5
      <3>4. CASE k # m + 1
        <4>1. k \in 1 .. m /\ a < n /\ n - a < HISTORY_SIZE /\ n - m + k - 1 = a
          BY <3>1, <3>4, <2>1, <1>1, <1>11, Sizes
        <4>2. s[k] = h[modid(a)]  BY <4>1, <1>7
        <4>3. g[modid(a)] = h[modid(a)]  BY <3>1, <4>1, <1>6
        <4> QED BY <4>1, <4>2, <4>3, <3>2, <2>2
      <3> QED BY <3>3, <3>4
    <2>4. t = Append(s, x)  BY <2>1, <2>2, <2>3, <1>8, SeqEqual
    <2>5. KeptOf(n) < HISTORY_SIZE  BY <1>11
    <2> QED BY <2>4, <2>5, <1>10 DEF Added
  <1>12. CASE ~(m < HISTORY_SIZE)
    <2>1. m = HISTORY_SIZE /\ l = HISTORY_SIZE /\ n >= HISTORY_SIZE /\ m >= 1
      BY <1>1, <1>2, <1>3, <1>12, Sizes
    <2>2. s # <<>>  BY <2>1, <1>7
    <2>3. Tail(s) \in Seq(Text) /\ Len(Tail(s)) = m - 1
          /\ \A k \in 1 .. m - 1 : Tail(s)[k] = s[k + 1]
      BY <2>2, <1>7, HeadTailProperties
    <2>4. Append(Tail(s), x) \in Seq(Text) /\ Len(Append(Tail(s), x)) = (m - 1) + 1
          /\ (\A k \in 1 .. m - 1 : Append(Tail(s), x)[k] = Tail(s)[k])
          /\ Append(Tail(s), x)[(m - 1) + 1] = x
      BY <2>3, AppendProperties
    <2>5. (m - 1) + 1 = l  BY <2>1, Sizes
    <2>6. ASSUME NEW k \in 1 .. l PROVE t[k] = Append(Tail(s), x)[k]
      <3> PICK a : a = (n + 1) - l + k - 1  OBVIOUS
      <3>1. a \in Nat  BY <2>1, <1>1, <1>3
      <3>2. t[k] = g[modid(a)]  BY <1>8
      <3>3. CASE k = l
        <4>1. a = n  BY <3>3, <1>1, <1>3
        <4> QED BY <4>1, <3>2, <3>3, <2>4, <2>5, <1>5
      <3>4. CASE k # l
        <4>1. k \in 1 .. m - 1 /\ a < n /\ n - a < HISTORY_SIZE /\ k + 1 \in 1 .. m
              /\ n - m + (k + 1) - 1 = a
          BY <3>1, <3>4, <2>1, <1>1, <1>3, Sizes
        <4>2. s[k + 1] = h[modid(a)]  BY <4>1, <1>7
        <4>3. g[modid(a)] = h[modid(a)]  BY <3>1, <4>1, <1>6
        <4> QED BY <4>1, <4>2, <4>3, <3>2, <2>3, <2>4
      <3> QED BY <3>3, <3>4
    <2>7. t = Append(Tail(s), x)  BY <2>4, <2>5, <2>6, <1>8, SeqEqual
    <2>8. ~(KeptOf(n) < HISTORY_SIZE)  BY <1>12
    <2> QED BY <2>7, <2>8, <1>10 DEF Added
  <1> QED BY <1>11, <1>12
-----------------------------------------------------------------------------
(***************************************************************************)
(* The inductive invariant: the buffer is a string, and the ring and its   *)
(* counters agree, the slots not yet written being empty.                  *)
(***************************************************************************)
Filed == Len(file) <= HISTORY_SIZE /\ \A k \in DOMAIN file : file[k] \in Text \ {<<>>}

IInv ==
    /\ Bytes
    /\ Ring(hisBuffer, now_ptr, cursor_ptr)
    /\ newBuffer \in Text /\ hisBuffer_ptr = now_ptr % HISTORY_SIZE
    /\ keys \in 0 .. MaxKeys /\ now_ptr <= keys
    /\ Filed

LEMMA Names ==
    /\ Past = PastOf(hisBuffer, now_ptr) /\ Kept = KeptOf(now_ptr)
    /\ At = cursor_ptr - (now_ptr - KeptOf(now_ptr)) + 1
  BY DEF Past, PastOf, Kept, KeptOf, At

\* What the editor shows, from what the ring holds.
LEMMA HeldIs ==
    ASSUME Ring(hisBuffer, now_ptr, cursor_ptr)
    PROVE  /\ Past \in Seq(Text) /\ Len(Past) = KeptOf(now_ptr)
           /\ At \in 1 .. Len(Past) + 1
           /\ E!IsNew <=> cursor_ptr = now_ptr
           /\ At > 1 <=> is_up_able
           /\ Len(Past) \in Nat /\ Len(Past) <= now_ptr /\ (now_ptr > 0 => Len(Past) > 0)
  <1> PICK h, n, c : h = hisBuffer /\ n = now_ptr /\ c = cursor_ptr  OBVIOUS
  <1>1. Ring(h, n, c) /\ h \in [0 .. HISTORY_SIZE - 1 -> Text] /\ n \in Nat  BY DEF Ring
  <1>2. Past = PastOf(h, n) /\ At = c - (n - KeptOf(n)) + 1  BY Names
  <1>3. Past \in Seq(Text) /\ Len(Past) = KeptOf(n)  BY <1>1, <1>2, PastIs
  <1>4. /\ At \in 1 .. KeptOf(n) + 1 /\ (At = KeptOf(n) + 1 <=> c = n)
        /\ At > 1 <=> c # 0 /\ c + HISTORY_SIZE # n
    BY <1>1, <1>2, Places
  <1>5. E!IsNew <=> c = n  BY <1>3, <1>4 DEF E!IsNew
  <1>6. KeptOf(n) \in Nat /\ KeptOf(n) <= n /\ (n > 0 => KeptOf(n) > 0)
    BY <1>1, KeptIs, Sizes
  <1> QED BY <1>3, <1>4, <1>5, <1>6 DEF is_up_able

LEMMA ShownBytes ==
    ASSUME Bytes, NEW s \in Text, Shown(s)
    PROVE  Bytes' /\ Before' = s /\ After' = <<>>
  <1> PICK b, n : b = Copy(buf, s) /\ n = Len(s)  OBVIOUS
  <1>1. buf' = b /\ len' = n /\ i' = n  BY DEF Shown
  <1>2. buf \in [Index -> Byte]  BY Parts
  <1>3. Holds(b, n) /\ n \in 0 .. CAP - 1 /\ \A k \in 1 .. n : b[k - 1] = s[k]
    BY <1>2, CopyHolds
  <1>4. n \in Nat  BY <1>3, Sizes
  <1>5. <<>> \in Seq(Char) /\ Len(<<>>) = n - n /\ n \in 0 .. n /\ \A k \in 1 .. n - n : FALSE
    BY <1>4
  <1>6. s \in Seq(Char)  BY Lists
  <1>7. Spells(b, n, n, s, <<>>)  BY <1>3, <1>5, <1>6 DEF Spells
  <1> QED BY <1>1, <1>7, PartsAre

LEMMA UpKey ==
    ASSUME IInv, pressUP
    PROVE  /\ Bytes' /\ E!Up
           /\ Ring(hisBuffer, now_ptr, cursor_ptr)' /\ newBuffer' \in Text
           /\ UNCHANGED <<hisBuffer_ptr, now_ptr, file>>
  <1> PICK h, n, c, x : h = hisBuffer /\ n = now_ptr /\ c = cursor_ptr /\ x = Str(buf)
    OBVIOUS
  <1> PICK g, d : g = hisBuffer' /\ d = c - 1  OBVIOUS
  <1>1. /\ is_up_able
        /\ IF c = n THEN newBuffer' = x /\ g = h
           ELSE g = [h EXCEPT ![modid(c)] = x] /\ newBuffer' = newBuffer
        /\ cursor_ptr' = d /\ Shown(g[modid(d)])
        /\ UNCHANGED <<hisBuffer_ptr, now_ptr, file>>
    BY DEF pressUP, is_newline
  <1>2. Bytes /\ Ring(h, n, c) /\ newBuffer \in Text  BY DEF IInv
  <1>3. x \in Text /\ x = Before \o After  BY <1>2, Parts
  <1>4. h \in [0 .. HISTORY_SIZE - 1 -> Text] /\ n \in Nat /\ c \in Nat /\ c <= n
        /\ c >= n - KeptOf(n) /\ KeptOf(n) \in Nat /\ KeptOf(n) <= n
    BY <1>2, KeptIs DEF Ring
  <1>5. At > 1 /\ (E!IsNew <=> c = n) /\ At \in 1 .. Len(Past) + 1
    BY <1>1, <1>2, HeldIs
  <1>6. At = c - (n - KeptOf(n)) + 1 /\ Past = PastOf(h, n)  BY Names
  <1>7. d \in Nat /\ d < n /\ d < c /\ d >= n - KeptOf(n) /\ d # c
    <2>1. c > n - KeptOf(n)  BY <1>4, <1>5, <1>6
    <2> QED BY <2>1, <1>4
  <1>8. Ring(g, n, c) /\ Ring(g, n, d) /\ g[modid(d)] = h[modid(d)]
    <2>1. CASE c = n
      BY <2>1, <1>1, <1>2, <1>7 DEF Ring
    <2>2. CASE c # n
      <3>1. g = [h EXCEPT ![modid(c)] = x] /\ c < n  BY <2>2, <1>1, <1>4
      <3>2. Ring(g, n, c) /\ g[modid(d)] = h[modid(d)]
        <4>1. Changed(g, h, n, c, x)  BY <3>1, <1>2, <1>3, PastPut
        <4> QED BY <4>1, <1>7 DEF Changed
      <3> QED BY <3>2, <1>7 DEF Ring
    <2> QED BY <2>1, <2>2
  <1>9. h[modid(d)] = Past[At - 1] /\ h[modid(d)] \in Text
    <2>1. Ring(h, n, d)  BY <1>2, <1>7 DEF Ring
    <2>2. PastOf(h, n)[d - (n - KeptOf(n)) + 1] = h[modid(d)]  BY <2>1, <1>7, PastAt
    <2>3. d - (n - KeptOf(n)) + 1 = At - 1  BY <1>4, <1>6
    <2>4. modid(d) \in 0 .. HISTORY_SIZE - 1  BY <1>7, Slots
    <2> QED BY <2>2, <2>3, <2>4, <1>4, <1>6
  <1>10. Bytes' /\ Before' = Past[At - 1] /\ After' = <<>>
    BY <1>1, <1>2, <1>8, <1>9, ShownBytes
  <1>11. Past' = PastOf(g, n) /\ At' = d - (n - KeptOf(n)) + 1
    BY <1>1 DEF Past, PastOf, Kept, KeptOf, At
  <1>12. At' = At - 1  BY <1>4, <1>6, <1>11
  <1>13. E!PutBack
    <2>1. CASE c = n
      <3>1. newBuffer' = E!Line  BY <2>1, <1>1, <1>3 DEF E!Line
      <3>2. Past' = Past  BY <2>1, <1>1, <1>6, <1>11
      <3> QED BY <2>1, <3>1, <3>2, <1>5 DEF E!PutBack
    <2>2. CASE c # n
      <3>1. g = [h EXCEPT ![modid(c)] = x] /\ c < n /\ newBuffer' = newBuffer
        BY <2>2, <1>1, <1>4
      <3>2. PastOf(g, n) = [PastOf(h, n) EXCEPT ![c - (n - KeptOf(n)) + 1] = x]
        <4>1. Changed(g, h, n, c, x)  BY <3>1, <1>2, <1>3, PastPut
        <4> QED BY <4>1 DEF Changed
      <3>3. Past' = [Past EXCEPT ![At] = E!Line]  BY <3>2, <1>3, <1>6, <1>11 DEF E!Line
      <3> QED BY <2>2, <3>1, <3>3, <1>5 DEF E!PutBack
    <2> QED BY <2>1, <2>2
  <1>14. E!Up  BY <1>5, <1>10, <1>12, <1>13 DEF E!Up, E!Show
  <1>15. Ring(hisBuffer, now_ptr, cursor_ptr)'  BY <1>1, <1>8 DEF Ring
  <1>16. newBuffer' \in Text  BY <1>1, <1>2, <1>3
  <1> QED BY <1>1, <1>10, <1>14, <1>15, <1>16

LEMMA DownKey ==
    ASSUME IInv, pressDOWN
    PROVE  /\ Bytes' /\ E!Down
           /\ Ring(hisBuffer, now_ptr, cursor_ptr)' /\ newBuffer' \in Text
           /\ UNCHANGED <<hisBuffer_ptr, now_ptr, file>>
  <1> PICK h, n, c, x : h = hisBuffer /\ n = now_ptr /\ c = cursor_ptr /\ x = Str(buf)
    OBVIOUS
  <1> PICK g, d : g = hisBuffer' /\ d = c + 1  OBVIOUS
  <1> PICK s : s = IF n = d THEN newBuffer ELSE g[modid(d)]  OBVIOUS
  <1>1. /\ c # n /\ g = [h EXCEPT ![modid(c)] = x] /\ newBuffer' = newBuffer
        /\ cursor_ptr' = d /\ Shown(s)
        /\ UNCHANGED <<hisBuffer_ptr, now_ptr, file>>
    BY DEF pressDOWN, is_down_able
  <1>2. Bytes /\ Ring(h, n, c) /\ newBuffer \in Text  BY DEF IInv
  <1>3. x \in Text /\ x = Before \o After  BY <1>2, Parts
  <1>4. h \in [0 .. HISTORY_SIZE - 1 -> Text] /\ n \in Nat /\ c \in Nat /\ c < n
        /\ c >= n - KeptOf(n) /\ KeptOf(n) \in Nat /\ KeptOf(n) <= n
    BY <1>1, <1>2, KeptIs DEF Ring
  <1>5. (E!IsNew <=> c = n) /\ Len(Past) = KeptOf(n)
    BY <1>2, HeldIs
  <1>6. At = c - (n - KeptOf(n)) + 1 /\ Past = PastOf(h, n)  BY Names
  <1>7. d \in Nat /\ d <= n /\ d >= n - KeptOf(n) /\ d # c
    BY <1>4
  <1>8. Changed(g, h, n, c, x)  BY <1>1, <1>2, <1>3, <1>4, PastPut
  <1>9. Ring(g, n, d)  BY <1>7, <1>8 DEF Changed, Ring
  <1>10. s = (IF At = Len(Past) THEN newBuffer ELSE Past[At + 1]) /\ s \in Text
    <2>1. CASE n = d
      <3>1. At = Len(Past)  BY <2>1, <1>4, <1>5, <1>6
      <3> QED BY <2>1, <3>1, <1>2
    <2>2. CASE n # d
      <3>1. d < n  BY <2>2, <1>4, <1>7
      <3>2. Ring(h, n, d)  BY <1>2, <1>7 DEF Ring
      <3>3. PastOf(h, n)[d - (n - KeptOf(n)) + 1] = h[modid(d)]  BY <3>1, <3>2, PastAt
      <3>4. d - (n - KeptOf(n)) + 1 = At + 1 /\ At # Len(Past)
        BY <3>1, <1>4, <1>5, <1>6
      <3>5. g[modid(d)] = h[modid(d)]  BY <3>1, <1>7, <1>8 DEF Changed
      <3>6. h[modid(d)] \in Text
        <4>1. modid(d) \in 0 .. HISTORY_SIZE - 1  BY <1>7, Slots
        <4> QED BY <4>1, <1>4
      <3> QED BY <2>2, <3>3, <3>4, <3>5, <3>6, <1>6
    <2> QED BY <2>1, <2>2
  <1>11. Bytes' /\ Before' = s /\ After' = <<>>
    BY <1>1, <1>2, <1>10, ShownBytes
  <1>12. Past' = PastOf(g, n) /\ At' = d - (n - KeptOf(n)) + 1
    BY <1>1 DEF Past, PastOf, Kept, KeptOf, At
  <1>13. At' = At + 1  BY <1>4, <1>6, <1>12
  <1>14. Past' = [Past EXCEPT ![At] = E!Line]
    BY <1>3, <1>6, <1>8, <1>12 DEF Changed, E!Line
  <1>15. ~E!IsNew /\ E!PutBack  BY <1>1, <1>5, <1>14 DEF E!PutBack
  <1>16. E!Down  BY <1>10, <1>11, <1>13, <1>15 DEF E!Down, E!Show
  <1>17. Ring(hisBuffer, now_ptr, cursor_ptr)'  BY <1>1, <1>9 DEF Ring
  <1> QED BY <1>1, <1>2, <1>11, <1>16, <1>17

(***************************************************************************)
(* The newline.                                                            *)
(***************************************************************************)

\* The ring from its oldest slot, empty slots first, is what save2file walks over.
LEMMA RingWritten ==
    ASSUME NEW h, NEW n, NEW c, Ring(h, n, c)
    PROVE  /\ save2file(h, n % HISTORY_SIZE) = Written(PastOf(h, n))
           /\ save2file(h, n % HISTORY_SIZE) \in Seq(Text \ {<<>>})
           /\ Len(save2file(h, n % HISTORY_SIZE)) <= HISTORY_SIZE
  <1> PICK m, r : m = KeptOf(n) /\ r = n % HISTORY_SIZE  OBVIOUS
  <1> DEFINE s == [k \in 1 .. HISTORY_SIZE |-> h[modid(r + k - 1)]]
             t == PastOf(h, n)
  <1>1. h \in [0 .. HISTORY_SIZE - 1 -> Text] /\ n \in Nat
        /\ \A k \in n .. HISTORY_SIZE - 1 : h[k] = <<>>
    BY DEF Ring
  <1>2. m \in Nat /\ m <= n /\ m <= HISTORY_SIZE
        /\ m = IF n <= HISTORY_SIZE THEN n ELSE HISTORY_SIZE
    BY <1>1, KeptIs
  <1>3. r \in Nat /\ \A k \in 1 .. HISTORY_SIZE : modid(r + k - 1) = modid(n + k - 1)
    BY <1>1, Turned
  <1>4. \A k \in 1 .. HISTORY_SIZE : r + k - 1 \in Nat  BY <1>3, Sizes
  <1>5. \A k \in 1 .. HISTORY_SIZE : modid(r + k - 1) \in 0 .. HISTORY_SIZE - 1
    <2> SUFFICES ASSUME NEW k \in 1 .. HISTORY_SIZE
                 PROVE  modid(r + k - 1) \in 0 .. HISTORY_SIZE - 1
      OBVIOUS
    <2> PICK a : a = r + k - 1  OBVIOUS
    <2>1. a \in Nat  BY <1>4
    <2> QED BY <2>1, Slots
  <1>6. \A k \in 1 .. HISTORY_SIZE : h[modid(r + k - 1)] \in Text  BY <1>1, <1>5
  <1>7. s \in Seq(Text) /\ Len(s) = HISTORY_SIZE
        /\ \A k \in 1 .. HISTORY_SIZE : s[k] = h[modid(n + k - 1)]
    BY <1>3, <1>6, Sizes
  <1>8. save2file(h, r) = Written(s)  BY DEF save2file
  <1> HIDE DEF s
  <1>9. Written(s) \in Seq(Text \ {<<>>}) /\ Len(Written(s)) <= HISTORY_SIZE
    BY <1>7, WrittenLines
  <1>10. t \in Seq(Text) /\ Len(t) = m /\ \A k \in 1 .. m : t[k] = h[modid(n - m + k - 1)]
    BY <1>1, PastIs
  <1> HIDE DEF t
  <1> PICK d : d = HISTORY_SIZE - m  OBVIOUS
  <1>11. d \in Nat /\ Len(s) = d + Len(t)  BY <1>2, <1>7, <1>10, Sizes
  <1>12. ASSUME NEW k \in 1 .. d PROVE s[k] = <<>>
    <2> PICK a : a = n + k - 1  OBVIOUS
    <2>1. a \in n .. HISTORY_SIZE - 1 /\ a \in Nat /\ a < HISTORY_SIZE
          /\ k \in 1 .. HISTORY_SIZE
      BY <1>1, <1>2, Sizes
    <2>2. modid(a) = a  BY <2>1, Slots
    <2> QED BY <2>1, <2>2, <1>1, <1>7
  <1>13. ASSUME NEW k \in 1 .. m PROVE s[d + k] = t[k]
    <2> PICK a, b : a = n - m + k - 1 /\ b = d + k  OBVIOUS
    <2>1. a \in Nat /\ b \in 1 .. HISTORY_SIZE /\ n + b - 1 = a + HISTORY_SIZE
      BY <1>1, <1>2, Sizes
    <2>2. modid(a + HISTORY_SIZE) = modid(a)  BY <2>1, Slots
    <2>3. s[b] = h[modid(n + b - 1)]  BY <2>1, <1>7
    <2>4. t[k] = h[modid(a)]  BY <1>10
    <2> QED BY <2>1, <2>2, <2>3, <2>4
  <1>14. Written(s) = Written(t)
    <2>1. Len(t) \in Nat /\ \A k \in 1 .. Len(t) : s[d + k] = t[k]
      BY <1>2, <1>10, <1>13
    <2> QED BY <2>1, <1>11, <1>12, WrittenSkips
  <1> QED BY <1>8, <1>9, <1>14 DEF t

\* The line that is recorded, when it is not blank.
Recorded(h, n, x) ==
    /\ hisBuffer' = [h EXCEPT ![modid(n)] = x]
    /\ now_ptr' = n + 1 /\ cursor_ptr' = n + 1
    /\ hisBuffer_ptr' = (n + 1) % HISTORY_SIZE
    /\ file' = save2file(hisBuffer', hisBuffer_ptr')
    /\ newBuffer' = newBuffer

\* What store_cmd does, in the counters of the ring.
LEMMA Stored ==
    ASSUME IInv, NEW x, store_cmd(x)
    PROVE  \/ UNCHANGED history /\ Past # <<>> /\ x = Last(Past)
           \/ Recorded(hisBuffer, now_ptr, x)
  <1> PICK h, n, c : h = hisBuffer /\ n = now_ptr /\ c = cursor_ptr  OBVIOUS
  <1>1. Ring(h, n, c) /\ n \in Nat /\ c \in Nat /\ c <= n /\ hisBuffer_ptr = n % HISTORY_SIZE
    BY DEF IInv, Ring
  <1>2. /\ modid(n) = n % HISTORY_SIZE /\ nexthisid(n % HISTORY_SIZE) = (n + 1) % HISTORY_SIZE
        /\ n > 0 => prehisid(n % HISTORY_SIZE) = modid(n - 1)
    BY <1>1, Slots
  <1>3. CASE c # 0 /\ x = h[prehisid(hisBuffer_ptr)]
    <2> PICK d : d = n - 1  OBVIOUS
    <2>1. UNCHANGED history  BY <1>3 DEF store_cmd
    <2>2. n > 0 /\ x = h[modid(d)] /\ d \in Nat /\ d < n  BY <1>1, <1>2, <1>3
    <2>3. Past = PastOf(h, n) /\ Past \in Seq(Text) /\ Len(Past) = KeptOf(n) /\ Len(Past) > 0
      BY <1>1, <2>2, Names, HeldIs
    <2>4. KeptOf(n) \in Nat /\ KeptOf(n) <= n  BY <1>1, KeptIs
    <2>5. Ring(h, n, d)  BY <1>1, <2>2, <2>3, <2>4 DEF Ring
    <2>6. PastOf(h, n)[d - (n - KeptOf(n)) + 1] = h[modid(d)]  BY <2>2, <2>5, PastAt
    <2>7. d - (n - KeptOf(n)) + 1 = KeptOf(n)  BY <1>1, <2>4
    <2>8. x = Past[Len(Past)]  BY <2>2, <2>3, <2>6, <2>7
    <2>9. Past # <<>>  BY <2>3
    <2> QED BY <2>1, <2>8, <2>9 DEF Last
  <1>4. CASE ~(c # 0 /\ x = h[prehisid(hisBuffer_ptr)])
    BY <1>1, <1>2, <1>4 DEF store_cmd, Recorded
  <1> QED BY <1>3, <1>4

LEMMA RecordKey ==
    ASSUME IInv, Recorded(hisBuffer, now_ptr, E!Line)
    PROVE  /\ E!Record /\ UNCHANGED newBuffer
           /\ Ring(hisBuffer, now_ptr, cursor_ptr)' /\ hisBuffer_ptr' = now_ptr' % HISTORY_SIZE
           /\ now_ptr' = now_ptr + 1
           /\ Filed' /\ file' = Written(Past')
  <1> PICK h, n, c, x : h = hisBuffer /\ n = now_ptr /\ c = cursor_ptr /\ x = E!Line
    OBVIOUS
  <1> PICK g, p : g = hisBuffer' /\ p = n + 1  OBVIOUS
  <1>1. /\ g = [h EXCEPT ![modid(n)] = x] /\ now_ptr' = p /\ cursor_ptr' = p
        /\ hisBuffer_ptr' = p % HISTORY_SIZE /\ newBuffer' = newBuffer
        /\ file' = save2file(g, p % HISTORY_SIZE)
    BY DEF Recorded
  <1>2. Ring(h, n, c) /\ n \in Nat /\ Bytes  BY DEF IInv, Ring
  <1>3. x \in Text  BY <1>2, Parts DEF E!Line
  <1>4. /\ PastOf(g, p) = IF KeptOf(n) < HISTORY_SIZE THEN Append(PastOf(h, n), x)
                          ELSE Append(Tail(PastOf(h, n)), x)
        /\ Ring(g, p, p)
    <2>1. Added(g, h, n, x)  BY <1>1, <1>2, <1>3, PastAdd
    <2> QED BY <2>1 DEF Added
  <1>5. Past = PastOf(h, n) /\ Len(Past) = KeptOf(n)  BY <1>2, Names, HeldIs
  <1>6. Past' = PastOf(g, p) /\ At' = p - (p - KeptOf(p)) + 1
    BY <1>1 DEF Past, PastOf, Kept, KeptOf, At
  <1>7. Past' = IF Len(Past) < HISTORY_SIZE THEN Append(Past, x) ELSE Append(Tail(Past), x)
    BY <1>4, <1>5, <1>6
  <1>8. At' = Len(Past') + 1
    <2>1. p \in Nat /\ g \in [0 .. HISTORY_SIZE - 1 -> Text]  BY <1>4 DEF Ring
    <2>2. KeptOf(p) \in Nat  BY <2>1, KeptIs
    <2>3. Len(PastOf(g, p)) = KeptOf(p)  BY <2>1, PastIs
    <2> QED BY <2>1, <2>2, <2>3, <1>6
  <1>9. E!Record  BY <1>7, <1>8 DEF E!Record
  <1>10. /\ save2file(g, p % HISTORY_SIZE) = Written(PastOf(g, p))
         /\ save2file(g, p % HISTORY_SIZE) \in Seq(Text \ {<<>>})
         /\ Len(save2file(g, p % HISTORY_SIZE)) <= HISTORY_SIZE
    BY <1>4, RingWritten
  <1>11. Filed'
    <2> PICK f : f = file'  OBVIOUS
    <2>1. f \in Seq(Text \ {<<>>}) /\ Len(f) <= HISTORY_SIZE  BY <1>1, <1>10
    <2>2. \A k \in DOMAIN f : f[k] \in Text \ {<<>>}  BY <2>1
    <2> QED BY <2>1, <2>2 DEF Filed
  <1>12. Ring(hisBuffer, now_ptr, cursor_ptr)'  BY <1>1, <1>4 DEF Ring
  <1> QED BY <1>1, <1>6, <1>9, <1>10, <1>11, <1>12

LEMMA ReturnKey ==
    ASSUME IInv, Return
    PROVE  /\ Bytes' /\ (E!Enter \/ EnterKeepsPlace) /\ UNCHANGED newBuffer
           /\ Ring(hisBuffer, now_ptr, cursor_ptr)' /\ hisBuffer_ptr' = now_ptr' % HISTORY_SIZE
           /\ now_ptr' \in {now_ptr, now_ptr + 1}
           /\ Filed' /\ (file' # file => file' = Written(Past'))
  <1> PICK b, x : b = Terminate(buf, len) /\ x = Str(b)  OBVIOUS
  <1>1. Begin(b) /\ IF ToSet(x) \subseteq {BLANK} THEN UNCHANGED history ELSE store_cmd(x)
    BY DEF Return
  <1>2. Bytes /\ buf \in [Index -> Byte] /\ len \in Index /\ buf[len] = NUL
    <2>1. Bytes  BY DEF IInv
    <2>2. len \in Nat /\ len <= CAP - 1  BY <2>1, Parts
    <2> QED BY <2>1, <2>2, Sizes DEF Bytes, Holds
  <1>3. b = buf  BY <1>2 DEF Terminate
  <1>4. x = E!Line  BY <1>2, <1>3, Parts DEF E!Line
  <1>5. Bytes' /\ Before' = <<>> /\ After' = <<>>  BY <1>1, <1>2, <1>3, BeginBytes
  <1>6. E!Show(<<>>)  BY <1>5 DEF E!Show
  <1>7. E!Blank(x) <=> ToSet(x) \subseteq {BLANK}  BY DEF E!Blank, E!ToSet, ToSet
  <1>8. ASSUME UNCHANGED history, E!Blank(x) \/ (Past # <<>> /\ x = Last(Past))
        PROVE  /\ E!Enter \/ EnterKeepsPlace
               /\ UNCHANGED newBuffer
               /\ Ring(hisBuffer, now_ptr, cursor_ptr)' /\ hisBuffer_ptr' = now_ptr' % HISTORY_SIZE
               /\ now_ptr' = now_ptr /\ Filed' /\ file' = file
    <2>1. UNCHANGED <<hisBuffer, hisBuffer_ptr, now_ptr, cursor_ptr, newBuffer, file>>
          /\ UNCHANGED <<Past, At>>
      BY <1>8, HeldSame DEF E!held
    <2>2. Last(Past) = E!Last(Past)  BY DEF Last, E!Last
    <2>3. E!Enter \/ EnterKeepsPlace
      <3>1. CASE E!IsNew
        <4>1. At' = Len(Past) + 1 /\ UNCHANGED Past  BY <2>1, <3>1 DEF E!IsNew
        <4> QED BY <1>4, <1>6, <1>8, <2>1, <2>2, <4>1 DEF E!Enter
      <3>2. CASE ~E!IsNew
        <4>1. UNCHANGED E!held  BY <2>1 DEF E!held
        <4> QED BY <1>4, <1>6, <1>8, <3>2, <4>1 DEF EnterKeepsPlace
      <3> QED BY <3>1, <3>2
    <2>4. /\ Ring(hisBuffer, now_ptr, cursor_ptr)' /\ Filed'
          /\ hisBuffer_ptr' = now_ptr' % HISTORY_SIZE
      BY <2>1 DEF IInv, Ring, Filed
    <2> QED BY <2>1, <2>3, <2>4
  <1>9. CASE ToSet(x) \subseteq {BLANK}
    BY <1>1, <1>5, <1>7, <1>8, <1>9
  <1>10. CASE ~(ToSet(x) \subseteq {BLANK})
    <2>1. store_cmd(x)  BY <1>1, <1>10
    <2>2. CASE UNCHANGED history /\ Past # <<>> /\ x = Last(Past)
      BY <1>5, <1>8, <2>2
    <2>3. CASE Recorded(hisBuffer, now_ptr, x)
      <3>1. /\ E!Record /\ UNCHANGED newBuffer
            /\ Ring(hisBuffer, now_ptr, cursor_ptr)' /\ hisBuffer_ptr' = now_ptr' % HISTORY_SIZE
            /\ now_ptr' = now_ptr + 1
            /\ Filed' /\ file' = Written(Past')
        BY <1>4, <2>3, RecordKey
      <3>2. E!Enter  BY <1>4, <1>6, <1>7, <1>10, <3>1 DEF E!Enter
      <3> QED BY <1>5, <3>1, <3>2
    <2> QED BY <2>1, <2>2, <2>3, Stored
  <1> QED BY <1>9, <1>10
-----------------------------------------------------------------------------
(* The specification *)

LEMMA InitIInv == Init => IInv /\ E!Init
  <1> SUFFICES ASSUME Init PROVE IInv /\ E!Init  OBVIOUS
  <1> PICK b, h, e : b = buf /\ h = hisBuffer /\ e = <<>>  OBVIOUS
  <1>1. /\ b = [k \in Index |-> NUL] /\ i = 0 /\ len = 0
        /\ h = [k \in 0 .. HISTORY_SIZE - 1 |-> <<>>] /\ newBuffer = e
        /\ hisBuffer_ptr = 0 /\ now_ptr = 0 /\ cursor_ptr = 0 /\ file = <<>> /\ keys = 0
    BY DEF Init
  <1>2. Holds(b, 0)  BY <1>1, Sizes DEF Holds
  <1>3. Bytes /\ 0 \in 0 .. 0  BY <1>1, <1>2 DEF Bytes
  <1>4. e \in Text
    <2>1. e \in Seq(Char) /\ Len(e) = 0 /\ 0 \in 0 .. CAP - 1  BY Sizes
    <2> QED BY <2>1, Lists
  <1>5. KeptOf(0) = 0  BY KeptIs, Sizes
  <1>6. Ring(h, 0, 0)
    <2>1. h \in [0 .. HISTORY_SIZE - 1 -> Text]  BY <1>1, <1>4
    <2>2. 0 \in Nat /\ 0 <= 0 /\ 0 >= 0 - 0
          /\ \A k \in 0 .. HISTORY_SIZE - 1 : h[k] = <<>>
      BY <1>1
    <2> QED BY <2>1, <2>2, <1>5 DEF Ring
  <1>7. 0 % HISTORY_SIZE = 0
    <2>1. 0 = HISTORY_SIZE * 0 + 0 /\ 0 \in 0 .. HISTORY_SIZE - 1 /\ HISTORY_SIZE \in Nat \ {0}
      BY Sizes
    <2> QED BY <2>1, ModUnique
  <1>8. Filed  BY <1>1, Sizes DEF Filed
  <1>9. IInv  BY <1>1, <1>3, <1>4, <1>6, <1>7, <1>8, Sizes DEF IInv
  <1>10. Before = <<>> /\ After = <<>>
    <2>1. /\ Before \in Seq(Char) /\ Len(Before) = i /\ After \in Seq(Char) /\ Len(After) = len - i
      BY <1>3, Parts
    <2> QED BY <2>1, <1>1
  <1>11. Past = <<>> /\ At = 1
    <2>1. Past \in Seq(Text) /\ Len(Past) = KeptOf(now_ptr)  BY <1>1, <1>6, HeldIs
    <2>2. At = 0 - (0 - 0) + 1  BY <1>1, <1>5, Names
    <2> QED BY <2>1, <2>2, <1>1, <1>5
  <1> QED BY <1>1, <1>9, <1>10, <1>11 DEF E!Init

\* One key: the invariant, the editor's step, and the file.
Edits == E!Next \/ KillLeftRepeats \/ EnterKeepsPlace

Keyed == /\ Bytes' /\ Ring(hisBuffer, now_ptr, cursor_ptr)' /\ newBuffer' \in Text
         /\ hisBuffer_ptr' = now_ptr' % HISTORY_SIZE /\ now_ptr' \in {now_ptr, now_ptr + 1}
         /\ Filed'
         /\ Edits
         /\ file' # file => file' = Written(Past')

LEMMA LineKey ==
    ASSUME IInv, Bytes', UNCHANGED history, Edits
    PROVE  Keyed
  <1>1. UNCHANGED <<hisBuffer, hisBuffer_ptr, now_ptr, cursor_ptr, newBuffer, file>>
    BY DEF history
  <1> QED BY <1>1 DEF Keyed, IInv, Ring, Filed

LEMMA EveryKey ==
    ASSUME IInv, Next
    PROVE  Keyed
  <1>1. Bytes  BY DEF IInv
  <1>2. CASE Insert
    <2>1. Bytes' /\ E!Type /\ UNCHANGED history  BY <1>1, <1>2, InsertKey DEF Insert
    <2> QED BY <2>1, LineKey DEF Edits, E!Next
  <1>3. CASE Backspace
    <2>1. Bytes' /\ E!Rubout /\ UNCHANGED history  BY <1>1, <1>3, BackspaceKey DEF Backspace
    <2> QED BY <2>1, LineKey DEF Edits, E!Next
  <1>4. CASE CtrlA \/ CtrlE \/ Left \/ Right
    <2>1. Bytes' /\ E!Move  BY <1>1, <1>4, MoveKey
    <2>2. UNCHANGED history  BY <1>4 DEF CtrlA, CtrlE, Left, Right
    <2> QED BY <2>1, <2>2, LineKey DEF Edits, E!Next
  <1>5. CASE CtrlK
    <2>1. Bytes' /\ E!KillRight /\ UNCHANGED history  BY <1>1, <1>5, CtrlKKey DEF CtrlK
    <2> QED BY <2>1, LineKey DEF Edits, E!Next
  <1>6. CASE CtrlU
    <2>1. Bytes' /\ (E!KillLeft \/ KillLeftRepeats) /\ UNCHANGED history
      BY <1>1, <1>6, CtrlUKey DEF CtrlU
    <2> QED BY <2>1, LineKey DEF Edits, E!Next
  <1>7. CASE CtrlW
    <2>1. Bytes' /\ E!KillWord  BY <1>1, <1>7, CtrlWKey
    <2>2. UNCHANGED history  BY <1>7 DEF CtrlW
    <2> QED BY <2>1, <2>2, LineKey DEF Edits, E!Next
  <1>8. CASE pressUP \/ pressDOWN
    <2>1. /\ Bytes' /\ E!Next
          /\ Ring(hisBuffer, now_ptr, cursor_ptr)' /\ newBuffer' \in Text
          /\ UNCHANGED <<hisBuffer_ptr, now_ptr, file>>
      BY <1>8, UpKey, DownKey DEF E!Next
    <2>2. hisBuffer_ptr' = now_ptr' % HISTORY_SIZE /\ Filed'  BY <2>1 DEF IInv, Filed
    <2> QED BY <2>1, <2>2 DEF Keyed, Edits
  <1>9. CASE Return
    <2>1. newBuffer \in Text  BY DEF IInv
    <2> QED BY <2>1, <1>9, ReturnKey DEF Keyed, Edits, E!Next
  <1> QED BY <1>2, <1>3, <1>4, <1>5, <1>6, <1>7, <1>8, <1>9 DEF Next

LEMMA NextIInv == IInv /\ [Next]_vars => IInv'
  <1> SUFFICES ASSUME IInv, [Next]_vars PROVE IInv'  OBVIOUS
  <1>1. CASE Next
    <2>1. Keyed  BY <1>1, EveryKey
    <2> PICK n, m, k, l : n = now_ptr /\ m = now_ptr' /\ k = keys /\ l = keys'  OBVIOUS
    <2>2. n \in Nat /\ k \in 0 .. MaxKeys /\ n <= k  BY DEF IInv, Ring
    <2>3. k < MaxKeys /\ l = k + 1  BY <1>1 DEF Next
    <2>4. m \in {n, n + 1}  BY <2>1 DEF Keyed
    <2>5. l \in 0 .. MaxKeys /\ m <= l  BY <2>2, <2>3, <2>4, Sizes
    <2> QED BY <2>1, <2>5 DEF Keyed, IInv
  <1>2. CASE UNCHANGED vars
    <2>1. UNCHANGED <<buf, i, len, hisBuffer, hisBuffer_ptr, now_ptr, cursor_ptr, newBuffer,
                      file, keys>>
      BY <1>2 DEF vars, line, history
    <2> QED BY <2>1 DEF IInv, Bytes, Holds, Ring, Filed
  <1> QED BY <1>1, <1>2

\* The invariant holds whatever keys are pressed.
THEOREM LineInvariant == Spec => []IInv
  <1>1. Init => IInv  BY InitIInv
  <1> QED BY <1>1, NextIInv, PTL DEF Spec

LEMMA SoundIs == IInv => Sound
  <1> SUFFICES ASSUME IInv PROVE Sound  OBVIOUS
  <1> PICK h, n, c : h = hisBuffer /\ n = now_ptr /\ c = cursor_ptr  OBVIOUS
  <1>1. Bytes /\ Ring(h, n, c) /\ hisBuffer_ptr = n % HISTORY_SIZE /\ newBuffer \in Text
        /\ keys \in 0 .. MaxKeys /\ n <= keys /\ Filed
    BY DEF IInv
  <1>2. n \in Nat /\ c \in Nat /\ c <= n /\ c >= n - KeptOf(n)
        /\ h \in [0 .. HISTORY_SIZE - 1 -> Text]
    BY <1>1 DEF Ring
  <1>3. n \in 0 .. MaxKeys /\ c \in 0 .. n  BY <1>1, <1>2, Sizes
  <1>4. hisBuffer_ptr \in 0 .. HISTORY_SIZE - 1  BY <1>1, <1>2, Slots
  <1>5. buf \in [Index -> Byte] /\ len \in 0 .. CAP - 1 /\ i \in 0 .. len
    BY <1>1 DEF Bytes, Holds
  <1>6. TypeOK  BY <1>1, <1>2, <1>3, <1>4, <1>5 DEF TypeOK, Filed
  <1>7. Terminated  BY <1>1, Sizes DEF Terminated, Bytes, Holds
  <1>8. RingSound  BY <1>1, <1>2, Names DEF RingSound
  <1> QED BY <1>6, <1>7, <1>8 DEF Sound

\* The buffer is a string of exactly len bytes before every key, and the two
\* counters of the history fit the ring.
THEOREM LineSound == Spec => []Sound
  BY LineInvariant, SoundIs, PTL

\* Whenever the history file is written it holds the lines kept, the oldest
\* first, however often the ring has wrapped.
THEOREM FileAlwaysInOrder == Spec => FileInOrder
  <1>1. IInv /\ [Next]_vars => [file' # file => file' = Written(Past')]_vars
    BY EveryKey DEF Keyed
  <1> QED BY <1>1, LineInvariant, PTL DEF Spec, FileInOrder

LEMMA NextEditor == IInv /\ [Next]_vars => [E!Next \/ KillLeftRepeats \/ EnterKeepsPlace]_(E!vars)
  <1> SUFFICES ASSUME IInv, [Next]_vars PROVE [Edits]_(E!vars)  BY DEF Edits
  <1>1. CASE Next  BY <1>1, EveryKey DEF Keyed
  <1>2. CASE UNCHANGED vars
    <2>1. UNCHANGED <<buf, i, len, hisBuffer, now_ptr, cursor_ptr, newBuffer>>
      BY <1>2 DEF vars, line, history
    <2> QED BY <2>1 DEF E!vars, Before, After, Past, Kept, modid, At
  <1> QED BY <1>1, <1>2

\* Every key does to the bytes and the ring what it does to the line before and
\* after the cursor and to the list of earlier lines, but for a ^U before a longer
\* rest of the line and an Enter that records nothing on an earlier line.
THEOREM LineImplementsEditor == Spec => EditorSpec
  <1>1. Spec => E!Init  BY InitIInv DEF Spec
  <1>2. Spec => [][E!Next \/ KillLeftRepeats \/ EnterKeepsPlace]_(E!vars)
    BY NextEditor, LineInvariant, PTL DEF Spec
  <1> QED BY <1>1, <1>2, PTL DEF EditorSpec
=============================================================================

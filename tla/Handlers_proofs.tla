--------------------------- MODULE Handlers_proofs ---------------------------
(***************************************************************************)
(* For every width of a word, the emitted process computes with integers   *)
(* what the machine computes with words.                                   *)
(***************************************************************************)
EXTENDS Handlers, Lemmas

-----------------------------------------------------------------------------
(* Division and powers.                                                    *)

LEMMA Division ==
    ASSUME NEW a \in Int, NEW b \in Nat \ {0}
    PROVE  a \div b \in Int /\ a % b \in 0 .. b - 1 /\ a = (a \div b) * b + (a % b)
    OBVIOUS

LEMMA DivisionUnique ==
    ASSUME NEW a \in Int, NEW b \in Nat \ {0}, NEW q \in Int, NEW r \in 0 .. b - 1,
           a = q * b + r
    PROVE  a \div b = q /\ a % b = r
    OBVIOUS

\* The powers up to n.
PowersUpTo(s, n) == \A m \in 0 .. n : s[m] = IF m = 0 THEN 1 ELSE 2 * s[m - 1]

LEMMA PowersExist ==
    ASSUME NEW n \in Nat
    PROVE  \E s : PowersUpTo(s, n)
<1> DEFINE T == {m \in Nat : ~ \E s : PowersUpTo(s, m)}
<1> SUFFICES ASSUME T # {} PROVE FALSE
    OBVIOUS
<1>1. PICK m \in T : \A y \in T : m <= y
    <2>1. T \subseteq Nat
        OBVIOUS
    <2> HIDE DEF T
    <2> QED  BY <2>1, LeastNat
<1>2. m # 0
    <2>1. PowersUpTo([k \in 0 .. 0 |-> 1], 0)
        BY DEF PowersUpTo
    <2> QED  BY <2>1
<1>3. m \in Nat /\ m - 1 \in Nat /\ m - 1 \notin T
    BY <1>1, <1>2
<1>4. PICK s : PowersUpTo(s, m - 1)
    BY <1>3
<1> DEFINE r == [k \in 0 .. m |-> IF k = m THEN 2 * s[m - 1] ELSE s[k]]
<1>5. PowersUpTo(r, m)
    <2> SUFFICES ASSUME NEW k \in 0 .. m PROVE r[k] = IF k = 0 THEN 1 ELSE 2 * r[k - 1]
        BY DEF PowersUpTo
    <2>1. CASE k = m
        BY <1>2, <1>3, <2>1
    <2>2. CASE k # m
        <3>1. k \in 0 .. m - 1 /\ r[k] = s[k]
            BY <1>3, <2>2
        <3>2. k # 0 => k - 1 \in 0 .. m /\ k - 1 # m
            BY <1>3
        <3> QED  BY <1>4, <3>1, <3>2 DEF PowersUpTo
    <2> QED  BY <2>1, <2>2
<1> QED  BY <1>3, <1>5

LEMMA PowersUnique ==
    ASSUME NEW n \in Nat, NEW s, PowersUpTo(s, n), NEW k \in Nat, k >= n, NEW t, PowersUpTo(t, k)
    PROVE  s[n] = t[n]
<1> DEFINE T == {m \in 0 .. n : s[m] # t[m]}
<1> SUFFICES ASSUME T # {} PROVE FALSE
    OBVIOUS
<1>1. PICK m \in T : \A y \in T : m <= y
    <2>1. T \subseteq Nat
        OBVIOUS
    <2> HIDE DEF T
    <2> QED  BY <2>1, LeastNat
<1>2. m \in 0 .. n /\ m \in 0 .. k /\ (m # 0 => m - 1 \in 0 .. n /\ m - 1 \notin T)
    BY <1>1
<1> QED  BY <1>1, <1>2 DEF PowersUpTo

LEMMA PowerIs ==
    /\ Power[0] = 1
    /\ \A n \in Nat : Power[n + 1] = 2 * Power[n]
<1> DEFINE Eq(g) == g = [n \in Nat |-> IF n = 0 THEN 1 ELSE 2 * g[n - 1]]
           s(n) == CHOOSE s : PowersUpTo(s, n)
           h == [n \in Nat |-> s(n)[n]]
<1>1. \A n \in Nat : PowersUpTo(s(n), n)
    BY PowersExist
<1> HIDE DEF s
<1>2. h[0] = 1
    BY <1>1 DEF PowersUpTo
<1>3. ASSUME NEW n \in Nat, n # 0 PROVE h[n] = 2 * h[n - 1]
    <2>1. n - 1 \in Nat /\ n \in 0 .. n
        BY <1>3
    <2>2. s(n)[n] = 2 * s(n)[n - 1]
        BY <1>1, <1>3, <2>1 DEF PowersUpTo
    <2>3. s(n - 1)[n - 1] = s(n)[n - 1]
        BY <1>1, <2>1, PowersUnique
    <2> QED  BY <2>1, <2>2, <2>3
<1>4. Eq(h)
    <2>1. h = [n \in Nat |-> IF n = 0 THEN 1 ELSE 2 * h[n - 1]]
        BY <1>2, <1>3
    <2> QED  BY <2>1
<1>5. Power = CHOOSE g : Eq(g)
    BY DEF Power
<1> HIDE DEF h
<1>6. Eq(Power)
    BY <1>4, <1>5
<1> HIDE DEF Eq
<1>7. Power = [n \in Nat |-> IF n = 0 THEN 1 ELSE 2 * Power[n - 1]]
    BY <1>6 DEF Eq
<1>8. \A n \in Nat : Power[n + 1] = 2 * Power[n]
    <2> SUFFICES ASSUME NEW n \in Nat PROVE Power[n + 1] = 2 * Power[n]
        OBVIOUS
    <2>1. n + 1 \in Nat /\ n + 1 # 0 /\ (n + 1) - 1 = n
        OBVIOUS
    <2>2. Power[n + 1] = 2 * Power[(n + 1) - 1]
        BY <1>7, <2>1
    <2> QED  BY <2>1, <2>2
<1>9. Power[0] = 1
    BY <1>7
<1> QED  BY <1>8, <1>9

LEMMA PowerPositive == \A n \in Nat : Power[n] \in Nat \ {0}
<1> DEFINE T == {n \in Nat : Power[n] \notin Nat \ {0}}
<1> SUFFICES ASSUME T # {} PROVE FALSE
    OBVIOUS
<1>1. PICK m \in T : \A y \in T : m <= y
    <2>1. T \subseteq Nat
        OBVIOUS
    <2> HIDE DEF T
    <2> QED  BY <2>1, LeastNat
<1>2. m # 0
    BY PowerIs
<1>3. m - 1 \in Nat /\ m - 1 \notin T /\ (m - 1) + 1 = m
    BY <1>1, <1>2
<1>4. Power[m] = 2 * Power[m - 1]
    BY <1>3, PowerIs
<1> QED  BY <1>1, <1>3, <1>4

LEMMA PowerSum ==
    ASSUME NEW m \in Nat, NEW n \in Nat
    PROVE  Power[m + n] = Power[m] * Power[n]
<1> DEFINE T == {k \in Nat : Power[m + k] # Power[m] * Power[k]}
<1> SUFFICES ASSUME T # {} PROVE FALSE
    OBVIOUS
<1>1. PICK k \in T : \A y \in T : k <= y
    <2>1. T \subseteq Nat
        OBVIOUS
    <2> HIDE DEF T
    <2> QED  BY <2>1, LeastNat
<1>2. Power[m] \in Nat
    BY PowerPositive
<1>3. k # 0
    BY <1>2, PowerIs
<1> DEFINE j == k - 1
<1>4. j \in Nat /\ j \notin T /\ j + 1 = k /\ m + k = (m + j) + 1 /\ m + j \in Nat
    BY <1>1, <1>3
<1> HIDE DEF j
<1>5. Power[m + j] = Power[m] * Power[j] /\ Power[j] \in Nat
    BY <1>4, PowerPositive
<1>6. Power[k] = 2 * Power[j] /\ Power[m + k] = 2 * Power[m + j]
    BY <1>4, PowerIs
<1>7. Power[m + k] = Power[m] * Power[k]
    BY <1>2, <1>5, <1>6
<1> QED  BY <1>1, <1>7

-----------------------------------------------------------------------------
(* Integers that stand for words.                                          *)

Congruent(a, c) == \E q \in Int : a = c + q * Word
StandsFor(a, w) == a \in Int /\ w \in Words /\ Congruent(a, w)

LEMMA WordIs ==
    /\ WordBits \in Nat \ {0}
    /\ Word \in Nat /\ Word > 1
    /\ Word \div 2 \in Nat /\ Word = 2 * (Word \div 2)
    /\ Word \div 2 = Power[WordBits - 1]
<1>1. WordBits \in Nat \ {0}
    BY HandlersAssumption
<1> DEFINE n == WordBits - 1
           h == Power[n]
<1>2. n \in Nat /\ n + 1 = WordBits
    BY <1>1
<1> HIDE DEF n
<1>3. Word = 2 * h /\ h \in Nat \ {0}
    BY <1>2, PowerIs, PowerPositive DEF Word
<1> HIDE DEF h
<1>4. Word \div 2 = h
    BY <1>3
<1> QED  BY <1>1, <1>3, <1>4 DEF h, n

LEMMA SameWord ==
    ASSUME NEW a \in Int, NEW c \in Int, Congruent(a, c)
    PROVE  a % Word = c % Word /\ a % Word \in Words
<1>1. Word \in Nat \ {0}
    BY WordIs
<1>2. PICK q \in Int : a = c + q * Word
    BY DEF Congruent
<1> DEFINE r == c % Word
           d == c \div Word
<1>3. d \in Int /\ r \in 0 .. Word - 1 /\ c = d * Word + r
    BY <1>1, Division
<1> HIDE DEF r, d
<1>4. a = (d + q) * Word + r /\ d + q \in Int
    BY <1>1, <1>2, <1>3
<1>5. a % Word = r
    BY <1>1, <1>3, <1>4, DivisionUnique
<1> QED  BY <1>3, <1>5 DEF r, Words

LEMMA CongruentToWord ==
    ASSUME NEW a \in Int
    PROVE  Congruent(a, a % Word) /\ Congruent(a % Word, a) /\ a % Word \in Words
<1>1. Word \in Nat \ {0}
    BY WordIs
<1> DEFINE r == a % Word
           d == a \div Word
<1>2. d \in Int /\ r \in 0 .. Word - 1 /\ a = d * Word + r
    BY <1>1, Division
<1> HIDE DEF r, d
<1>3. a = r + d * Word /\ r = a + (- d) * Word /\ - d \in Int
    BY <1>1, <1>2
<1> QED  BY <1>2, <1>3 DEF Congruent, r, Words

LEMMA CongruentSelf == ASSUME NEW a \in Int PROVE Congruent(a, a)
<1>1. a = a + 0 * Word
    BY WordIs
<1> QED  BY <1>1 DEF Congruent

LEMMA CongruentBy ==
    ASSUME NEW a \in Int, NEW c \in Int, NEW q \in Int, a = c + q * Word
    PROVE  Congruent(a, c)
    BY DEF Congruent

LEMMA CongruentTransitive ==
    ASSUME NEW a \in Int, NEW b \in Int, NEW c \in Int, Congruent(a, b), Congruent(b, c)
    PROVE  Congruent(a, c)
<1>1. PICK p \in Int : a = b + p * Word
    BY DEF Congruent
<1>2. PICK q \in Int : b = c + q * Word
    BY DEF Congruent
<1>3. a = c + (p + q) * Word /\ p + q \in Int
    BY <1>1, <1>2, WordIs
<1> QED  BY <1>3 DEF Congruent

LEMMA CongruentSum ==
    ASSUME NEW a \in Int, NEW b \in Int, NEW c \in Int, NEW d \in Int,
           Congruent(a, c), Congruent(b, d)
    PROVE  Congruent(a + b, c + d)
<1>1. PICK p \in Int : a = c + p * Word
    BY DEF Congruent
<1>2. PICK q \in Int : b = d + q * Word
    BY DEF Congruent
<1>3. a + b = (c + d) + (p + q) * Word /\ p + q \in Int
    BY <1>1, <1>2, WordIs
<1> QED  BY <1>3 DEF Congruent

LEMMA CongruentProduct ==
    ASSUME NEW a \in Int, NEW b \in Int, NEW c \in Int, NEW d \in Int,
           Congruent(a, c), Congruent(b, d)
    PROVE  Congruent(a * b, c * d)
<1>1. PICK p \in Int : a = c + p * Word
    BY DEF Congruent
<1>2. PICK q \in Int : b = d + q * Word
    BY DEF Congruent
<1>3. Word \in Int
    BY WordIs
<1>4. a * b = c * d + (p * d + q * c + p * q * Word) * Word
    BY <1>1, <1>2, <1>3
<1>5. p * d + q * c + p * q * Word \in Int
    BY <1>3
<1> QED  BY <1>4, <1>5 DEF Congruent

LEMMA CongruentOpposite ==
    ASSUME NEW a \in Int, NEW c \in Int, Congruent(a, c)
    PROVE  Congruent(- a, - c)
<1>1. PICK p \in Int : a = c + p * Word
    BY DEF Congruent
<1>2. - a = - c + (- p) * Word /\ - p \in Int
    BY <1>1, WordIs
<1> QED  BY <1>2 DEF Congruent

\* What a computation leaves in a register, if it is that of the machine but for
\* multiples of Word.
LEMMA WordOf ==
    ASSUME NEW a \in Int, NEW c \in Int, Congruent(a, c)
    PROVE  StandsFor(a, c % Word)
<1>1. c % Word \in Words /\ Congruent(c, c % Word)
    BY CongruentToWord
<1>2. c % Word \in Int
    BY <1>1, WordIs DEF Words
<1> QED  BY <1>1, <1>2, CongruentTransitive DEF StandsFor

LEMMA AgreesIff ==
    ASSUME NEW a \in Int, NEW w \in Words
    PROVE  StandsFor(a, w) <=> a % Word = w
<1>1. w \in Int /\ w % Word = w
    <2>1. w \in 0 .. Word - 1 /\ Word \in Nat \ {0} /\ w = 0 * Word + w
        BY WordIs DEF Words
    <2> QED  BY <2>1, DivisionUnique
<1>2. StandsFor(a, w) => a % Word = w
    BY <1>1, SameWord DEF StandsFor
<1>3. a % Word = w => StandsFor(a, w)
    BY CongruentToWord DEF StandsFor
<1> QED  BY <1>2, <1>3

\* In its range, an integer is the word, or the word read as signed.
LEMMA InRangeIs ==
    ASSUME NEW a, NEW w, StandsFor(a, w)
    PROVE  /\ a \in Words => a = w
           /\ a \in SignedWords => a = Signed(w)
<1>1. PICK q \in Int : a = w + q * Word
    BY DEF StandsFor, Congruent
<1> DEFINE h == Word \div 2
<1>2. w \in 0 .. Word - 1 /\ a \in Int /\ h \in Nat /\ Word = 2 * h /\ h > 0 /\ Word \in Int
    BY WordIs DEF StandsFor, Words
<1>3. q >= 1 => q * Word >= Word
    BY <1>2
<1>4. q <= -1 => q * Word <= - Word
    BY <1>2
<1>5. q <= -2 => q * Word <= - 2 * Word
    BY <1>2
<1>6. a \in Words => a = w
    BY <1>1, <1>2, <1>3, <1>4 DEF Words
<1> HIDE DEF h
<1>7. a \in SignedWords => a = Signed(w)
    <2> SUFFICES ASSUME - h <= a, a <= h - 1 PROVE a = IF w >= h THEN w - Word ELSE w
        BY DEF SignedWords, Signed, h
    <2>1. q = 0 \/ q = -1
        BY <1>1, <1>2, <1>3, <1>5
    <2> QED  BY <1>1, <1>2, <2>1
<1> QED  BY <1>6, <1>7

LEMMA SignedIs ==
    ASSUME NEW w \in Words
    PROVE  Signed(w) \in Int /\ Congruent(Signed(w), w)
<1>1. w \in Int /\ Word \in Int /\ w - Word = w + (-1) * Word /\ w = w + 0 * Word
    BY WordIs DEF Words
<1> QED  BY <1>1 DEF Signed, Congruent

-----------------------------------------------------------------------------
(* Shifts.                                                                 *)

LEMMA AddedMultiple ==
    ASSUME NEW x \in Int, NEW k \in Int
    PROVE  (x + k * Word) \div Word = (x \div Word) + k
<1>1. Word \in Nat \ {0}
    BY WordIs
<1> DEFINE r == x % Word
           d == x \div Word
<1>2. d \in Int /\ r \in 0 .. Word - 1 /\ x = d * Word + r
    BY <1>1, Division
<1> HIDE DEF r, d
<1>3. x + k * Word = (d + k) * Word + r /\ d + k \in Int /\ x + k * Word \in Int
    BY <1>1, <1>2
<1>4. (x + k * Word) \div Word = d + k
    BY <1>1, <1>2, <1>3, DivisionUnique
<1> QED  BY <1>4 DEF d

LEMMA FactorCancelled ==
    ASSUME NEW x \in Int, NEW b \in Nat \ {0}, NEW c \in Nat \ {0}
    PROVE  (x * b) \div (b * c) = x \div c
<1> DEFINE r == x % c
           d == x \div c
<1>1. d \in Int /\ r \in 0 .. c - 1 /\ x = d * c + r
    BY Division
<1> HIDE DEF r, d
<1>2. b * c \in Nat \ {0} /\ r * b \in Int /\ x * b \in Int
    BY <1>1
<1>3. x * b = d * (b * c) + r * b
    BY <1>1
<1>4. r * b >= 0 /\ r * b <= (c - 1) * b
    BY <1>1
<1>5. r * b \in 0 .. (b * c) - 1
    BY <1>1, <1>2, <1>4
<1>6. (x * b) \div (b * c) = d
    BY <1>1, <1>2, <1>3, <1>5, DivisionUnique
<1> QED  BY <1>6 DEF d

LEMMA WholeQuotient ==
    ASSUME NEW x \in Int, NEW b \in Nat \ {0}
    PROVE  (x * b) \div b = x /\ (x * b) % b = 0
<1>1. x * b = x * b + 0 /\ 0 \in 0 .. b - 1 /\ x * b \in Int
    OBVIOUS
<1> QED  BY <1>1, DivisionUnique

\* A count k splits Word.
LEMMA SplitWord ==
    ASSUME NEW k \in 0 .. WordBits
    PROVE  /\ k \in Nat /\ WordBits - k \in Nat
           /\ Power[k] \in Nat \ {0} /\ Power[WordBits - k] \in Nat \ {0}
           /\ Word = Power[WordBits - k] * Power[k]
           /\ Power[k + WordBits] = Word * Power[k]
           /\ Power[2 * WordBits - k] = Word * Power[WordBits - k]
<1>1. WordBits \in Nat
    BY WordIs
<1>2. k \in Nat /\ WordBits - k \in Nat /\ (WordBits - k) + k = WordBits
      /\ k + WordBits = WordBits + k /\ 2 * WordBits - k = WordBits + (WordBits - k)
    BY <1>1
<1>3. Power[(WordBits - k) + k] = Power[WordBits - k] * Power[k]
    BY <1>2, PowerSum
<1>4. Power[WordBits + k] = Word * Power[k]
    BY <1>1, <1>2, PowerSum DEF Word
<1>5. Power[WordBits + (WordBits - k)] = Word * Power[WordBits - k]
    BY <1>1, <1>2, PowerSum DEF Word
<1> QED  BY <1>2, <1>3, <1>4, <1>5, PowerPositive DEF Word

\* SHF.R with RZ below shifts the upper word, in the handler and in the macros.
LEMMA ShiftedRight ==
    ASSUME NEW x \in Int, NEW k \in 0 .. WordBits
    PROVE  /\ Shr(Shl(x, WordBits) + 0, k + WordBits) = x \div Power[k]
           /\ RotateRight(Concat(x, 0), k) \div Word = x \div Power[k]
<1> DEFINE p == Power[k]
           m == Power[WordBits - k]
<1>1. p \in Nat \ {0} /\ m \in Nat \ {0} /\ Word = m * p /\ Power[k + WordBits] = Word * p
      /\ Power[2 * WordBits - k] = Word * m /\ Word \in Nat \ {0}
      /\ WordBits \in Nat /\ k \in Nat
    BY SplitWord, WordIs
<1>2. 2 * WordBits - (2 * WordBits - k) = k
    BY <1>1
<1> HIDE DEF p, m
<1>3. Shr(Shl(x, WordBits) + 0, k + WordBits) = (x * Word) \div (Word * p)
    BY <1>1 DEF Shr, Shl, Word
<1>4. (x * Word) \div (Word * p) = x \div p
    BY <1>1, FactorCancelled
<1> DEFINE y == x * Word
<1>5. RotateRight(Concat(x, 0), k) = ((y * (Word * m)) % (Word * Word)) + (y \div p)
    <2>1. Concat(x, 0) = y
        BY <1>1 DEF Concat
    <2>2. RotateRight(y, k) = ((y * Power[2 * WordBits - k]) % (Word * Word))
                                 + (y \div Power[2 * WordBits - (2 * WordBits - k)])
        BY DEF RotateRight, RotateLeft
    <2> QED  BY <1>1, <1>2, <2>1, <2>2 DEF p
<1>6. (y * (Word * m)) % (Word * Word) = 0
    <2>1. y * (Word * m) = (x * m) * (Word * Word)
        BY <1>1
    <2>2. x * m \in Int /\ Word * Word \in Nat \ {0}
        BY <1>1
    <2> QED  BY <2>1, <2>2, WholeQuotient
<1>7. y \div p = x * m
    <2>1. y = (x * m) * p /\ x * m \in Int
        BY <1>1
    <2> QED  BY <1>1, <2>1, WholeQuotient
<1>8. (x * m) \div (m * p) = x \div p
    BY <1>1, FactorCancelled
<1>9. x * m \in Int
    BY <1>1
<1> HIDE DEF y
<1>10. RotateRight(Concat(x, 0), k) = x * m
    BY <1>5, <1>6, <1>7, <1>9
<1> QED  BY <1>1, <1>3, <1>4, <1>8, <1>10 DEF p

-----------------------------------------------------------------------------
(* Operands.                                                               *)

Typed(rs) ==
    \A r \in Registers : IF IsPredicateReg(r) THEN rs[r] \in BOOLEAN ELSE rs[r] \in Int

WordTyped(ws) ==
    \A r \in Registers : IF IsPredicateReg(r) THEN ws[r] \in BOOLEAN ELSE ws[r] \in Words

\* In the registers of known, the integers of rs stand for the words of ws, and
\* predicates are equal.
Matching(known, rs, ws) ==
    \A r \in known : IF IsPredicateReg(r) THEN rs[r] = ws[r] ELSE StandsFor(rs[r], ws[r])

\* An operand that is no register is known.
KnownOperand(o, known) == o.kind = "reg" => o.reg \in known

InputIsWord == input \in [Inputs -> Words]

LEMMA PrintedIs ==
    ASSUME NEW w \in Words
    PROVE  StandsFor(Printed(w), w) /\ (2 * w < Word => Printed(w) = w)
<1>1. w \in Int /\ Word \in Int /\ w - Word = w + (-1) * Word /\ w = w + 0 * Word
      /\ Word = 2 * (Word \div 2) /\ Word \div 2 \in Nat
    BY WordIs DEF Words
<1>2. Congruent(Printed(w), w) /\ Printed(w) \in Int
    BY <1>1 DEF Printed, Congruent
<1>3. 2 * w < Word => Printed(w) = w
    BY <1>1 DEF Printed
<1> QED  BY <1>2, <1>3 DEF StandsFor

LEMMA DataOperand ==
    ASSUME InputIsWord, NEW o, IsData(o), NEW rs, NEW ws, Typed(rs), WordTyped(ws), NEW known
    PROVE  /\ Operand(rs, o) \in Int /\ WordOperand(ws, o) \in Words
           /\ Matching(known, rs, ws) /\ KnownOperand(o, known)
                 => StandsFor(Operand(rs, o), WordOperand(ws, o))
<1>1. \A w \in Words : w \in Int /\ StandsFor(w, w)
    BY CongruentSelf, WordIs DEF Words, StandsFor
<1>2. 0 \in Words
    BY WordIs DEF Words
<1>3. CASE o.kind = "imm" /\ o.value \in Words
    <2>1. Operand(rs, o) = Printed(o.value) /\ WordOperand(ws, o) = o.value
        BY <1>3 DEF Operand, WordOperand
    <2> QED  BY <1>3, <2>1, PrintedIs DEF StandsFor
<1>4. CASE o.kind = "input" /\ o.name \in Inputs
    <2>1. Operand(rs, o) = input[o.name] /\ WordOperand(ws, o) = input[o.name]
        BY <1>4 DEF Operand, WordOperand
    <2> QED  BY <1>1, <1>4, <2>1 DEF InputIsWord
<1>5. CASE o.kind = "zero"
    <2>1. Operand(rs, o) = 0 /\ WordOperand(ws, o) = 0
        BY <1>5 DEF Operand, WordOperand
    <2> QED  BY <1>1, <1>2, <2>1
<1>6. CASE IsRegister(o) /\ ~ IsPredicateReg(o.reg)
    <2> DEFINE a == rs[o.reg]
               w == ws[o.reg]
    <2>1. o.kind = "reg" /\ o.reg \in Registers /\ o.neg \in BOOLEAN
        BY <1>6 DEF IsRegister
    <2>2. a \in Int /\ w \in Words /\ w \in Int
        BY <1>1, <1>6, <2>1 DEF Typed, WordTyped
    <2>3. Matching(known, rs, ws) /\ KnownOperand(o, known) => StandsFor(a, w)
        BY <1>6, <2>1 DEF Matching, KnownOperand
    <2>4. CASE ~ o.neg
        <3>1. Operand(rs, o) = a /\ WordOperand(ws, o) = w
            BY <2>1, <2>4 DEF Operand, WordOperand
        <3> QED  BY <2>2, <2>3, <3>1
    <2>5. CASE o.neg
        <3>1. Operand(rs, o) = - a /\ WordOperand(ws, o) = (- w) % Word
            BY <1>6, <2>1, <2>5 DEF Operand, WordOperand
        <3> HIDE DEF a, w
        <3>2. - a \in Int /\ - w \in Int
            BY <2>2
        <3>3. (- w) % Word \in Words
            BY <3>2, CongruentToWord
        <3>4. StandsFor(a, w) => StandsFor(- a, (- w) % Word)
            BY <2>2, <3>2, CongruentOpposite, WordOf DEF StandsFor
        <3> QED  BY <2>3, <3>1, <3>2, <3>3, <3>4
    <2> QED  BY <2>1, <2>4, <2>5
<1> QED  BY <1>3, <1>4, <1>5, <1>6 DEF IsData

LEMMA PredicateOperand ==
    ASSUME NEW o, IsPredicate(o), NEW rs, NEW ws, Typed(rs), WordTyped(ws), NEW known
    PROVE  /\ Operand(rs, o) \in BOOLEAN /\ WordOperand(ws, o) \in BOOLEAN
           /\ Matching(known, rs, ws) /\ KnownOperand(o, known)
                 => Operand(rs, o) = WordOperand(ws, o)
<1>1. CASE o.kind = "true"
    BY <1>1 DEF Operand, WordOperand
<1>2. CASE IsRegister(o) /\ IsPredicateReg(o.reg)
    <2>1. o.kind = "reg" /\ o.reg \in Registers /\ o.neg \in BOOLEAN
        BY <1>2 DEF IsRegister
    <2>2. /\ Operand(rs, o) = IF ~ o.neg THEN rs[o.reg] ELSE ~ rs[o.reg]
          /\ WordOperand(ws, o) = IF ~ o.neg THEN ws[o.reg] ELSE ~ ws[o.reg]
        BY <1>2, <2>1 DEF Operand, WordOperand
    <2>3. rs[o.reg] \in BOOLEAN /\ ws[o.reg] \in BOOLEAN
        BY <1>2, <2>1 DEF Typed, WordTyped
    <2>4. Matching(known, rs, ws) /\ KnownOperand(o, known) => rs[o.reg] = ws[o.reg]
        BY <1>2, <2>1 DEF Matching, KnownOperand
    <2> QED  BY <2>1, <2>2, <2>3, <2>4
<1> QED  BY <1>1, <1>2 DEF IsPredicate

LEMMA CountOperand ==
    ASSUME NEW o, Fits(o, "K"), NEW rs, NEW ws
    PROVE  Operand(rs, o) \in 0 .. WordBits /\ WordOperand(ws, o) = Operand(rs, o)
<1>1. o.kind = "imm" /\ o.value \in 0 .. WordBits /\ 2 * o.value < Word
    BY DEF Fits
<1>2. o.value \in Words
    BY <1>1, WordIs DEF Words
<1>3. Operand(rs, o) = Printed(o.value) /\ WordOperand(ws, o) = o.value
    BY <1>1 DEF Operand, WordOperand
<1> QED  BY <1>1, <1>2, <1>3, PrintedIs

LEMMA TableOperand ==
    ASSUME NEW o, NEW rs, NEW ws
    PROVE  /\ Fits(o, "L") => Operand(rs, o) \in Nat
           /\ Fits(o, "C") => Operand(rs, o) = 128 /\ WordOperand(ws, o) = 128
           /\ Fits(o, "Z") => Operand(rs, o) = 0 /\ WordOperand(ws, o) = 0
           /\ Fits(o, "T") => Operand(rs, o) = TRUE /\ WordOperand(ws, o) = TRUE
<1>1. Fits(o, "L") => Operand(rs, o) \in Nat
    BY DEF Fits, Operand
<1>2. Fits(o, "C") => Operand(rs, o) = 128 /\ WordOperand(ws, o) = 128
    BY DEF Fits, Operand, WordOperand
<1>3. Fits(o, "Z") => Operand(rs, o) = 0 /\ WordOperand(ws, o) = 0
    BY DEF Fits, Operand, WordOperand
<1>4. Fits(o, "T") => Operand(rs, o) = TRUE /\ WordOperand(ws, o) = TRUE
    BY DEF Fits, Operand, WordOperand
<1> QED  BY <1>1, <1>2, <1>3, <1>4

-----------------------------------------------------------------------------
(* Values, one mnemonic after the other: s holds the operands of the       *)
(* handler, w those of the macro; m says whether those that are read match. *)

Alike(form, a, w, m) ==
    /\ form \in {"D", "A", "N"} => a \in Int /\ w \in Words
    /\ form \in {"A", "N"} => (m => StandsFor(a, w))
    /\ form \in {"B", "Q"} => a \in BOOLEAN /\ w \in BOOLEAN
    /\ form = "Q" => (m => a = w)
    /\ form = "K" => a \in 0 .. WordBits /\ w = a
    /\ form = "L" => a \in Nat
    /\ form = "C" => a = 128 /\ w = 128
    /\ form = "Z" => a = 0 /\ w = 0
    /\ form = "T" => a = TRUE /\ w = TRUE

AllAlike(op, s, w, m) ==
    \A k \in DOMAIN Operands(op) : Alike(Operands(op)[k], s[k], w[k], m)

WithinRange(op, s) ==
    /\ \A k \in ReadAsSigned(op)   : s[k] \in SignedWords
    /\ \A k \in ReadAsUnsigned(op) : s[k] \in Words

Value(op, ops, s) == DestinationValues(op, ops, s)[1]

\* The handler's value, and the macro's.  SHF.L.U32 keeps the wrong half.
RightData(op, ops, s, w, m) ==
    /\ Value(op, ops, s) \in Int
    /\ op \in WithMacro => Macro(op, w) \in Words
    /\ op \in WithMacro \ {"SHF.L.U32"} /\ m /\ WithinRange(op, s)
          => StandsFor(Value(op, ops, s), Macro(op, w))

RightPredicate(op, ops, s, w, m) ==
    /\ Value(op, ops, s) \in BOOLEAN
    /\ op \in WithMacro => Macro(op, w) \in BOOLEAN
    /\ op \in WithMacro /\ m /\ WithinRange(op, s) => Value(op, ops, s) = Macro(op, w)

LEMMA MovesAreRight ==
    ASSUME NEW op \in {"MOV", "ULDC", "P2R", "MUFU.RCP"}, NEW ops, NEW s, NEW w, NEW m \in BOOLEAN,
           AllAlike(op, s, w, m)
    PROVE  RightData(op, ops, s, w, m)
<1>1. Alike("N", s[2], w[2], m)
    BY DEF AllAlike, Operands, Isetp
<1>2. Value(op, ops, s) = s[2]
    BY DEF Value, DestinationValues, Handler, Isetp
<1>3. op \in WithMacro => Macro(op, w) = w[2]
    BY DEF Macro, WithMacro, Isetp
<1> QED  BY <1>1, <1>2, <1>3 DEF Alike, RightData

LEMMA AbsoluteIsRight ==
    ASSUME NEW ops, NEW s, NEW w, NEW m \in BOOLEAN, AllAlike("IABS", s, w, m)
    PROVE  RightData("IABS", ops, s, w, m)
<1>1. Alike("N", s[2], w[2], m)
    BY DEF AllAlike, Operands, Isetp
<1> DEFINE a == s[2]
           z == Signed(w[2])
           abs(x) == IF x < 0 THEN - x ELSE x
<1>2. Value("IABS", ops, s) = abs(a)
    BY DEF Value, DestinationValues, Handler, Isetp, h_iabs
<1>3. Macro("IABS", w) = (IF z < 0 THEN - w[2] ELSE w[2]) % Word
    BY DEF Macro, Isetp
<1>4. a \in Int /\ w[2] \in Words /\ w[2] \in Int /\ z \in Int
    BY <1>1, SignedIs, WordIs DEF Alike, Words
<1>5. Macro("IABS", w) \in Words
    BY <1>3, <1>4, CongruentToWord
<1>6. ASSUME m, WithinRange("IABS", s) PROVE StandsFor(abs(a), Macro("IABS", w))
    <2>1. StandsFor(a, w[2]) /\ a \in SignedWords
        BY <1>1, <1>6 DEF WithinRange, ReadAsSigned, Alike
    <2>2. a = z
        BY <2>1, InRangeIs
    <2>3. Congruent(a, w[2])
        BY <2>1 DEF StandsFor
    <2> HIDE DEF a, z
    <2>4. CASE a < 0
        <3>1. Congruent(- a, - w[2]) /\ - a \in Int /\ - w[2] \in Int
            BY <1>4, <2>3, CongruentOpposite
        <3>2. StandsFor(- a, (- w[2]) % Word)
            BY <3>1, WordOf
        <3> QED  BY <1>3, <2>2, <2>4, <3>2
    <2>5. CASE ~ (a < 0)
        <3>1. StandsFor(a, w[2] % Word)
            BY <1>4, <2>3, WordOf
        <3> QED  BY <1>3, <2>2, <2>5, <3>1
    <2> QED  BY <2>4, <2>5
<1> QED  BY <1>2, <1>4, <1>5, <1>6 DEF RightData

LEMMA SumsAreRight ==
    ASSUME NEW ops, NEW s, NEW w, NEW m \in BOOLEAN
    PROVE  /\ AllAlike("IADD3", s, w, m) => RightData("IADD3", ops, s, w, m)
           /\ AllAlike("IMAD", s, w, m) => RightData("IMAD", ops, s, w, m)
<1> SUFFICES ASSUME Alike("N", s[2], w[2], m), Alike("N", s[3], w[3], m), Alike("N", s[4], w[4], m)
             PROVE  RightData("IADD3", ops, s, w, m) /\ RightData("IMAD", ops, s, w, m)
    BY DEF AllAlike, Operands, Isetp
<1>1. /\ Value("IADD3", ops, s) = s[2] + s[3] + s[4]
      /\ Value("IMAD", ops, s) = s[2] * s[3] + s[4]
    BY DEF Value, DestinationValues, Handler, Isetp, h_iadd3, h_imad
<1>2. /\ Macro("IADD3", w) = (w[2] + w[3] + w[4]) % Word
      /\ Macro("IMAD", w) = (w[2] * w[3] + w[4]) % Word
    BY DEF Macro, Isetp, WordSum
<1>3. /\ s[2] \in Int /\ s[3] \in Int /\ s[4] \in Int
      /\ w[2] \in Int /\ w[3] \in Int /\ w[4] \in Int
    BY WordIs DEF Alike, Words
<1>4. Macro("IADD3", w) \in Words /\ Macro("IMAD", w) \in Words
    BY <1>2, <1>3, CongruentToWord
<1>5. ASSUME m
      PROVE  /\ StandsFor(s[2] + s[3] + s[4], (w[2] + w[3] + w[4]) % Word)
             /\ StandsFor(s[2] * s[3] + s[4], (w[2] * w[3] + w[4]) % Word)
    <2>1. Congruent(s[2], w[2]) /\ Congruent(s[3], w[3]) /\ Congruent(s[4], w[4])
        BY <1>5 DEF Alike, StandsFor
    <2>2. Congruent(s[2] + s[3], w[2] + w[3]) /\ Congruent(s[2] * s[3], w[2] * w[3])
        BY <1>3, <2>1, CongruentSum, CongruentProduct
    <2>3. /\ Congruent((s[2] + s[3]) + s[4], (w[2] + w[3]) + w[4])
          /\ Congruent(s[2] * s[3] + s[4], w[2] * w[3] + w[4])
        <3>1. s[2] + s[3] \in Int /\ w[2] + w[3] \in Int /\ s[2] * s[3] \in Int /\ w[2] * w[3] \in Int
            BY <1>3
        <3> QED  BY <1>3, <2>1, <2>2, <3>1, CongruentSum
    <2> QED  BY <1>3, <2>3, WordOf
<1> QED  BY <1>1, <1>2, <1>3, <1>4, <1>5 DEF RightData

LEMMA HighProductIsRight ==
    ASSUME NEW ops, NEW s, NEW w, NEW m \in BOOLEAN, AllAlike("IMAD.HI.U32", s, w, m)
    PROVE  RightData("IMAD.HI.U32", ops, s, w, m)
<1>1. Alike("A", s[1], w[1], m) /\ Alike("N", s[2], w[2], m)
      /\ Alike("N", s[3], w[3], m) /\ Alike("N", s[4], w[4], m)
    BY DEF AllAlike, Operands, Isetp
<1>2. Value("IMAD.HI.U32", ops, s) = (s[2] * s[3] + (s[1] * Word + s[4])) \div Word
    BY DEF Value, DestinationValues, Handler, Isetp, h_imad_hi_u32, Shr, Shl, Word
<1>3. Macro("IMAD.HI.U32", w) = ((w[2] * w[3] + (w[1] * Word + w[4])) \div Word) % Word
    BY DEF Macro, Isetp, Concat
<1>4. /\ s[1] \in Int /\ s[2] \in Int /\ s[3] \in Int /\ s[4] \in Int
      /\ w[1] \in Int /\ w[2] \in Int /\ w[3] \in Int /\ w[4] \in Int
      /\ Word \in Nat \ {0}
    BY <1>1, WordIs DEF Alike, Words
<1> DEFINE x == w[2] * w[3] + (w[1] * Word + w[4])
           y == s[2] * s[3] + (s[1] * Word + s[4])
<1>5. x \in Int /\ y \in Int
    BY <1>4
<1>6. x \div Word \in Int /\ y \div Word \in Int
    BY <1>4, <1>5, Division
<1>7. ASSUME m, WithinRange("IMAD.HI.U32", s) PROVE StandsFor(y \div Word, (x \div Word) % Word)
    <2>1. s[2] = w[2] /\ s[3] = w[3] /\ s[4] = w[4]
        <3>1. s[2] \in Words /\ s[3] \in Words /\ s[4] \in Words
            BY <1>7 DEF WithinRange, ReadAsUnsigned
        <3> QED  BY <1>1, <1>7, <3>1, InRangeIs DEF Alike
    <2>2. PICK q \in Int : s[1] = w[1] + q * Word
        BY <1>1, <1>7 DEF Alike, StandsFor, Congruent
    <2>3. y = x + (q * Word) * Word /\ q * Word \in Int
        BY <1>4, <2>1, <2>2
    <2> HIDE DEF x, y
    <2>4. y \div Word = (x \div Word) + q * Word
        BY <1>5, <2>3, AddedMultiple
    <2>5. Congruent(y \div Word, x \div Word)
        BY <1>6, <2>4, CongruentBy
    <2> QED  BY <1>6, <2>5, WordOf
<1>8. Macro("IMAD.HI.U32", w) \in Words
    BY <1>3, <1>6, CongruentToWord
<1> QED  BY <1>2, <1>3, <1>6, <1>7, <1>8 DEF RightData

LEMMA ChoicesAreRight ==
    ASSUME NEW op \in {"IMNMX.U32", "SEL"}, NEW ops, NEW s, NEW w, NEW m \in BOOLEAN,
           AllAlike(op, s, w, m)
    PROVE  RightData(op, ops, s, w, m)
<1>1. Alike("N", s[2], w[2], m) /\ Alike("N", s[3], w[3], m) /\ Alike("Q", s[4], w[4], m)
    BY DEF AllAlike, Operands, Isetp
<1>2. /\ op = "IMNMX.U32" => Value(op, ops, s) = Select(s[4], s[2], s[3])
      /\ op = "SEL" => Value(op, ops, s) = IF s[4] THEN s[2] ELSE s[3]
    BY DEF Value, DestinationValues, Handler, Isetp, h_imnmx_u32, h_sel
<1>3. /\ op = "IMNMX.U32" => Macro(op, w) = Select(w[4], w[2], w[3])
      /\ op = "SEL" => Macro(op, w) = IF w[4] THEN w[2] ELSE w[3]
    BY DEF Macro, Isetp
<1>4. \A c \in BOOLEAN : \A x, y : Select(c, x, y) = x \/ Select(c, x, y) = y
    BY DEF Select, Least, Greatest
<1>5. s[2] \in Int /\ s[3] \in Int /\ w[2] \in Words /\ w[3] \in Words
      /\ s[4] \in BOOLEAN /\ w[4] \in BOOLEAN
    BY <1>1 DEF Alike
<1>6. Value(op, ops, s) \in Int /\ Macro(op, w) \in Words
    BY <1>2, <1>3, <1>4, <1>5
<1>7. ASSUME m, WithinRange(op, s) PROVE StandsFor(Value(op, ops, s), Macro(op, w))
    <2>1. StandsFor(s[2], w[2]) /\ StandsFor(s[3], w[3]) /\ s[4] = w[4]
        BY <1>1, <1>7 DEF Alike
    <2>2. CASE op = "SEL"
        BY <1>2, <1>3, <1>5, <2>1, <2>2
    <2>3. CASE op = "IMNMX.U32"
        <3>1. s[2] \in Words /\ s[3] \in Words
            BY <1>7, <2>3 DEF WithinRange, ReadAsUnsigned
        <3>2. s[2] = w[2] /\ s[3] = w[3]
            BY <2>1, <3>1, InRangeIs
        <3>3. Value(op, ops, s) = Macro(op, w)
            BY <1>2, <1>3, <2>1, <2>3, <3>2
        <3> QED  BY <1>2, <1>4, <1>5, <2>1, <2>3, <3>2, <3>3
    <2> QED  BY <2>2, <2>3
<1> QED  BY <1>6, <1>7 DEF RightData

LEMMA MinimumIsRight ==
    ASSUME NEW ops, NEW s, NEW w, NEW m \in BOOLEAN, AllAlike("VIMNMX", s, w, m)
    PROVE  RightData("VIMNMX", ops, s, w, m)
<1>1. Alike("N", s[4], w[4], m) /\ Alike("N", s[5], w[5], m) /\ Alike("Q", s[6], w[6], m)
    BY DEF AllAlike, Operands, Isetp
<1> DEFINE x == Select(s[6], s[4], s[5])
           y == Select(w[6], Signed(w[4]), Signed(w[5]))
<1>2. Value("VIMNMX", ops, s) = x
    BY DEF Value, DestinationValues, Isetp, h_vimnmx
<1>3. Macro("VIMNMX", w) = y % Word
    BY DEF Macro, Isetp
<1>4. s[4] \in Int /\ s[5] \in Int /\ w[4] \in Words /\ w[5] \in Words
      /\ s[6] \in BOOLEAN /\ w[6] \in BOOLEAN
    BY <1>1 DEF Alike
<1>5. Signed(w[4]) \in Int /\ Signed(w[5]) \in Int
    BY <1>4, SignedIs
<1>6. x \in Int /\ y \in Int
    BY <1>4, <1>5 DEF Select, Least, Greatest
<1>7. ASSUME m, WithinRange("VIMNMX", s) PROVE x = y
    <2>1. s[4] \in SignedWords /\ s[5] \in SignedWords
        BY <1>7 DEF WithinRange, ReadAsSigned
    <2>2. StandsFor(s[4], w[4]) /\ StandsFor(s[5], w[5]) /\ s[6] = w[6]
        BY <1>1, <1>7 DEF Alike
    <2>3. s[4] = Signed(w[4]) /\ s[5] = Signed(w[5])
        BY <2>1, <2>2, InRangeIs
    <2> QED  BY <2>2, <2>3
<1> HIDE DEF x, y
<1>8. StandsFor(y, y % Word) /\ y % Word \in Words
    BY <1>6, CongruentSelf, WordOf, CongruentToWord
<1> QED  BY <1>2, <1>3, <1>6, <1>7, <1>8 DEF RightData

LEMMA QuotientOfWord ==
    ASSUME NEW w \in Words, NEW p \in Nat \ {0}
    PROVE  w \div p \in Words /\ w \div p \in Int /\ StandsFor(w \div p, w \div p)
<1>1. w \in Nat /\ Word \in Nat /\ w < Word
    BY WordIs DEF Words
<1> DEFINE d == w \div p
           r == w % p
<1>2. d \in Int /\ r \in 0 .. p - 1 /\ w = d * p + r
    BY <1>1, Division
<1> HIDE DEF d, r
<1>3. d >= 0
    <2> SUFFICES ASSUME d <= -1 PROVE FALSE
        BY <1>2
    <2>1. d * p <= - p
        BY <1>2
    <2> QED  BY <1>1, <1>2, <2>1
<1>4. d <= w
    <2>1. d <= d * p
        BY <1>2, <1>3
    <2> QED  BY <1>1, <1>2, <2>1
<1>5. d \in Words
    BY <1>1, <1>2, <1>3, <1>4 DEF Words
<1> QED  BY <1>2, <1>5, CongruentSelf DEF StandsFor, d

LEMMA RightShiftsAreRight ==
    ASSUME NEW op \in {"SHF.R.U32.HI", "SHF.R.S32.HI"}, NEW ops, NEW s, NEW w, NEW m \in BOOLEAN,
           AllAlike(op, s, w, m)
    PROVE  RightData(op, ops, s, w, m)
<1>1. Alike("Z", s[2], w[2], m) /\ Alike("K", s[3], w[3], m) /\ Alike("N", s[4], w[4], m)
    BY DEF AllAlike, Operands, Isetp
<1> DEFINE k == s[3]
           p == Power[k]
           h == Power[WordBits - k]
           x == w[4] \div p
<1>2. s[2] = 0 /\ w[2] = 0 /\ k \in 0 .. WordBits /\ w[3] = k
      /\ s[4] \in Int /\ w[4] \in Words /\ w[4] \in Int
    BY <1>1, WordIs DEF Alike, Words
<1>3. p \in Nat \ {0} /\ h \in Nat \ {0} /\ Word = h * p /\ Word \in Nat \ {0}
    BY <1>2, SplitWord, WordIs
<1>4. Value(op, ops, s) = s[4] \div p
    <2>1. Value(op, ops, s) = Shr(Shl(s[4], WordBits) + s[2], k + WordBits)
        BY DEF Value, DestinationValues, Handler, Isetp, h_shf_r_u32_hi
    <2> QED  BY <1>2, <2>1, ShiftedRight
<1>5. RotateRight(Concat(w[4], w[2]), w[3]) \div Word = x
    BY <1>2, ShiftedRight
<1>6. x \in Words /\ x \in Int /\ StandsFor(x, x)
    BY <1>2, <1>3, QuotientOfWord
<1>7. s[4] \div p \in Int
    BY <1>2, <1>3, Division
<1> HIDE DEF k, p, h, x
<1>8. CASE op = "SHF.R.U32.HI"
    <2>1. Macro(op, w) = x
        BY <1>5, <1>8 DEF Macro, Isetp
    <2>2. ASSUME m, WithinRange(op, s) PROVE s[4] \div p = x
        <3>1. StandsFor(s[4], w[4]) /\ s[4] \in Words
            BY <1>1, <1>8, <2>2 DEF Alike, WithinRange, ReadAsUnsigned
        <3> QED  BY <3>1, InRangeIs DEF x
    <2> QED  BY <1>4, <1>6, <1>7, <2>1, <2>2 DEF RightData
<1>9. CASE op = "SHF.R.S32.HI"
    <2>1. Macro(op, w) = IF w[4] < Word \div 2 THEN x ELSE (x + Word - h) % Word
        BY <1>2, <1>5, <1>9 DEF Macro, Isetp, SignedHigh, x, p, h
    <2>2. x + Word - h \in Int
        BY <1>3, <1>6
    <2>3. Macro(op, w) \in Words
        BY <1>6, <2>1, <2>2, CongruentToWord
    <2>4. ASSUME m, WithinRange(op, s) PROVE StandsFor(s[4] \div p, Macro(op, w))
        <3>1. StandsFor(s[4], w[4]) /\ s[4] \in SignedWords
            BY <1>1, <1>9, <2>4 DEF Alike, WithinRange, ReadAsSigned
        <3>2. s[4] = Signed(w[4])
            BY <3>1, InRangeIs
        <3>3. CASE w[4] < Word \div 2
            <4>1. s[4] = w[4]
                BY <1>2, <3>2, <3>3, WordIs DEF Signed
            <4> QED  BY <1>6, <2>1, <3>3, <4>1 DEF x
        <3>4. CASE ~ (w[4] < Word \div 2)
            <4>1. s[4] = w[4] - Word
                BY <1>2, <3>2, <3>4, WordIs DEF Signed
            <4> DEFINE r == w[4] % p
            <4>2. r \in 0 .. p - 1 /\ w[4] = x * p + r
                BY <1>2, <1>3, Division DEF x
            <4> HIDE DEF r
            <4>3. s[4] = (x - h) * p + r /\ x - h \in Int
                BY <1>2, <1>3, <1>6, <4>1, <4>2
            <4>4. s[4] \div p = x - h
                BY <1>2, <1>3, <4>2, <4>3, DivisionUnique
            <4>5. x - h = (x + Word - h) + (-1) * Word
                BY <1>3, <1>6
            <4>6. StandsFor(x - h, (x + Word - h) % Word)
                BY <2>2, <4>3, <4>5, CongruentBy, WordOf
            <4> QED  BY <2>1, <3>4, <4>4, <4>6
        <3> QED  BY <3>3, <3>4
    <2> QED  BY <1>4, <1>7, <2>3, <2>4 DEF RightData
<1> QED  BY <1>8, <1>9

LEMMA ScaledSumIsRight ==
    ASSUME NEW ops, NEW s, NEW w, NEW m \in BOOLEAN, AllAlike("LEA", s, w, m)
    PROVE  RightData("LEA", ops, s, w, m)
<1>1. Alike("N", s[2], w[2], m) /\ Alike("N", s[3], w[3], m) /\ Alike("K", s[4], w[4], m)
    BY DEF AllAlike, Operands, Isetp
<1> DEFINE p == Power[s[4]]
<1>2. /\ s[2] \in Int /\ s[3] \in Int /\ w[2] \in Int /\ w[3] \in Int
      /\ w[4] = s[4] /\ p \in Int
    BY <1>1, WordIs, SplitWord DEF Alike, Words
<1>3. Value("LEA", ops, s) = s[2] * p + s[3] /\ Macro("LEA", w) = (w[2] * p + w[3]) % Word
    BY <1>2 DEF Value, DestinationValues, Handler, Macro, Isetp, h_lea, Shl
<1> HIDE DEF p
<1>4. s[2] * p \in Int /\ w[2] * p \in Int /\ s[2] * p + s[3] \in Int /\ w[2] * p + w[3] \in Int
    BY <1>2
<1>5. ASSUME m PROVE StandsFor(s[2] * p + s[3], (w[2] * p + w[3]) % Word)
    <2>1. Congruent(s[2], w[2]) /\ Congruent(s[3], w[3]) /\ Congruent(p, p)
        BY <1>1, <1>2, <1>5, CongruentSelf DEF Alike, StandsFor
    <2>2. Congruent(s[2] * p, w[2] * p)
        BY <1>2, <2>1, CongruentProduct
    <2>3. Congruent(s[2] * p + s[3], w[2] * p + w[3])
        BY <1>2, <1>4, <2>1, <2>2, CongruentSum
    <2> QED  BY <1>4, <2>3, WordOf
<1>6. (w[2] * p + w[3]) % Word \in Words
    BY <1>4, CongruentToWord
<1> QED  BY <1>3, <1>4, <1>5, <1>6 DEF RightData

\* The upper word of a scaled double word that is right but for multiples of
\* Word above, and a word added.
LEMMA ScaledHighWord ==
    ASSUME NEW x \in Int, NEW y \in Int, NEW p \in Int, NEW c \in Int,
           y = x + (c * Word) * Word,
           NEW a \in Int, NEW b \in Int, Congruent(a, b)
    PROVE  StandsFor(((y * p) \div Word) + a, (((x * p) \div Word) + b) % Word)
<1>1. Word \in Nat \ {0}
    BY WordIs
<1>2. x * p \in Int /\ y * p \in Int /\ (c * p) * Word \in Int /\ c * p \in Int
      /\ y * p = (x * p) + ((c * p) * Word) * Word
    BY <1>1
<1> DEFINE u == x * p
           v == y * p
           e == c * p
<1> HIDE DEF u, v, e
<1>3. v \div Word = (u \div Word) + e * Word
    BY <1>1, <1>2, AddedMultiple DEF u, v, e
<1>4. u \div Word \in Int /\ v \div Word \in Int /\ e \in Int
    BY <1>1, <1>2, Division DEF u, v, e
<1>5. Congruent(v \div Word, u \div Word)
    BY <1>3, <1>4, CongruentBy
<1>6. Congruent((v \div Word) + a, (u \div Word) + b)
    BY <1>4, <1>5, CongruentSum
<1>7. (v \div Word) + a \in Int /\ (u \div Word) + b \in Int
    BY <1>4
<1>8. StandsFor((v \div Word) + a, ((u \div Word) + b) % Word)
    BY <1>6, <1>7, WordOf
<1> QED  BY <1>8 DEF u, v

LEMMA HighSumIsRight ==
    ASSUME NEW ops, NEW s, NEW w, NEW m \in BOOLEAN, AllAlike("LEA.HI", s, w, m)
    PROVE  RightData("LEA.HI", ops, s, w, m)
<1>1. Alike("N", s[2], w[2], m) /\ Alike("N", s[3], w[3], m) /\ Alike("N", s[4], w[4], m)
      /\ Alike("K", s[5], w[5], m)
    BY DEF AllAlike, Operands, Isetp
<1> DEFINE p == Power[s[5]]
           x == w[4] * Word + w[2]
           y == s[4] * Word + s[2]
<1>2. /\ s[2] \in Int /\ s[3] \in Int /\ s[4] \in Int
      /\ w[2] \in Int /\ w[3] \in Int /\ w[4] \in Int
      /\ w[5] = s[5] /\ p \in Int /\ Word \in Nat \ {0}
    BY <1>1, WordIs, SplitWord DEF Alike, Words
<1>3. Value("LEA.HI", ops, s) = ((y * p) \div Word) + s[3]
    BY DEF Value, DestinationValues, Handler, Isetp, h_lea_hi, Shl, Shr, Word
<1>4. Macro("LEA.HI", w) = (((x * p) \div Word) + w[3]) % Word
    BY <1>2 DEF Macro, Isetp, Concat
<1>5. x \in Int /\ y \in Int
    BY <1>2
<1>6. ASSUME m, WithinRange("LEA.HI", s) PROVE StandsFor(Value("LEA.HI", ops, s), Macro("LEA.HI", w))
    <2>1. s[2] = w[2]
        <3>1. s[2] \in Words /\ StandsFor(s[2], w[2])
            BY <1>1, <1>6 DEF WithinRange, ReadAsUnsigned, Alike
        <3> QED  BY <3>1, InRangeIs
    <2>2. PICK q \in Int : s[4] = w[4] + q * Word
        BY <1>1, <1>6 DEF Alike, StandsFor, Congruent
    <2>3. y = x + (q * Word) * Word
        BY <1>2, <2>1, <2>2
    <2>4. Congruent(s[3], w[3])
        BY <1>1, <1>6 DEF Alike, StandsFor
    <2> HIDE DEF x, y, p
    <2>5. StandsFor(((y * p) \div Word) + s[3], (((x * p) \div Word) + w[3]) % Word)
        BY <1>2, <1>5, <2>3, <2>4, ScaledHighWord
    <2> QED  BY <1>3, <1>4, <2>5
<1> HIDE DEF x, y, p
<1>7. (y * p) \div Word \in Int /\ (x * p) \div Word \in Int
    <2>1. y * p \in Int /\ x * p \in Int
        BY <1>2, <1>5
    <2> QED  BY <1>2, <2>1, Division
<1>8. ((y * p) \div Word) + s[3] \in Int /\ ((x * p) \div Word) + w[3] \in Int
    BY <1>2, <1>7
<1> QED  BY <1>3, <1>4, <1>6, <1>8, CongruentToWord DEF RightData

LEMMA HighExtendedSumIsRight ==
    ASSUME NEW ops, NEW s, NEW w, NEW m \in BOOLEAN, AllAlike("LEA.HI.SX32", s, w, m)
    PROVE  RightData("LEA.HI.SX32", ops, s, w, m)
<1>1. Alike("N", s[2], w[2], m) /\ Alike("N", s[3], w[3], m) /\ Alike("K", s[4], w[4], m)
    BY DEF AllAlike, Operands, Isetp
<1> DEFINE p == Power[s[4]]
           x == Concat(IF w[2] >= Word \div 2 THEN Word - 1 ELSE 0, w[2])
<1>2. /\ s[2] \in Int /\ s[3] \in Int /\ w[2] \in Int /\ w[3] \in Int
      /\ w[4] = s[4] /\ p \in Int /\ Word \in Nat \ {0}
    BY <1>1, WordIs, SplitWord DEF Alike, Words
<1>3. Value("LEA.HI.SX32", ops, s) = ((s[2] * p) \div Word) + s[3]
    BY DEF Value, DestinationValues, Handler, Isetp, h_lea_hi_sx32, Shl, Shr, Word
<1>4. Macro("LEA.HI.SX32", w) = (((x * p) \div Word) + w[3]) % Word
    BY <1>2 DEF Macro, Isetp
<1>5. x \in Int
    BY <1>2 DEF Concat
<1>6. ASSUME m, WithinRange("LEA.HI.SX32", s)
      PROVE  StandsFor(Value("LEA.HI.SX32", ops, s), Macro("LEA.HI.SX32", w))
    <2>1. s[2] = Signed(w[2])
        <3>1. s[2] \in SignedWords /\ StandsFor(s[2], w[2])
            BY <1>1, <1>6 DEF WithinRange, ReadAsSigned, Alike
        <3> QED  BY <3>1, InRangeIs
    <2>2. Congruent(s[3], w[3])
        BY <1>1, <1>6 DEF Alike, StandsFor
    <2>3. \E c \in Int : s[2] = x + (c * Word) * Word
        <3>1. CASE w[2] >= Word \div 2
            <4>1. s[2] = w[2] - Word /\ x = (Word - 1) * Word + w[2]
                BY <2>1, <3>1 DEF Signed, Concat
            <4>2. s[2] = x + ((-1) * Word) * Word
                BY <1>2, <4>1
            <4> QED  BY <4>2
        <3>2. CASE ~ (w[2] >= Word \div 2)
            <4>1. s[2] = w[2] /\ x = 0 * Word + w[2]
                BY <2>1, <3>2 DEF Signed, Concat
            <4>2. s[2] = x + (0 * Word) * Word
                BY <1>2, <4>1
            <4> QED  BY <4>2
        <3> QED  BY <3>1, <3>2
    <2> HIDE DEF x, p
    <2>4. PICK c \in Int : s[2] = x + (c * Word) * Word
        BY <2>3
    <2>5. StandsFor(((s[2] * p) \div Word) + s[3], (((x * p) \div Word) + w[3]) % Word)
        BY <1>2, <1>5, <2>2, <2>4, ScaledHighWord
    <2> QED  BY <1>3, <1>4, <2>5
<1> HIDE DEF x, p
<1>7. (s[2] * p) \div Word \in Int /\ (x * p) \div Word \in Int
    <2>1. s[2] * p \in Int /\ x * p \in Int
        BY <1>2, <1>5
    <2> QED  BY <1>2, <2>1, Division
<1>8. ((s[2] * p) \div Word) + s[3] \in Int /\ ((x * p) \div Word) + w[3] \in Int
    BY <1>2, <1>7
<1> QED  BY <1>3, <1>4, <1>6, <1>8, CongruentToWord DEF RightData

LEMMA LeftShiftIsInteger ==
    ASSUME NEW ops, NEW s, NEW w, NEW m \in BOOLEAN, AllAlike("SHF.L.U32", s, w, m)
    PROVE  RightData("SHF.L.U32", ops, s, w, m)
<1>1. Alike("N", s[2], w[2], m) /\ Alike("K", s[3], w[3], m) /\ Alike("N", s[4], w[4], m)
    BY DEF AllAlike, Operands, Isetp
<1> DEFINE p == Power[s[3]]
           h == Power[2 * WordBits - s[3]]
           x == w[4] * Word + w[2]
           y == s[4] * Word + s[2]
<1>2. /\ s[2] \in Int /\ s[4] \in Int /\ w[2] \in Int /\ w[4] \in Int
      /\ w[3] = s[3] /\ s[3] \in 0 .. WordBits /\ p \in Nat /\ Word \in Nat \ {0}
    BY <1>1, WordIs, SplitWord DEF Alike, Words
<1>3. h \in Nat \ {0}
    BY <1>2, WordIs, PowerPositive
<1>4. Value("SHF.L.U32", ops, s) = (y * p) \div Word
    BY DEF Value, DestinationValues, Handler, Isetp, h_shf_l_u32, Shl, Shr, Word
<1>5. Macro("SHF.L.U32", w) = (((x * p) % (Word * Word)) + (x \div h)) % Word
    BY <1>2 DEF Macro, Isetp, Concat, RotateLeft
<1>6. x \in Int /\ y \in Int
    BY <1>2
<1> HIDE DEF x, y, p, h
<1>7. x * p \in Int /\ y * p \in Int /\ Word * Word \in Nat \ {0}
    BY <1>2, <1>6
<1>8. (y * p) \div Word \in Int /\ (x * p) % (Word * Word) \in Int /\ x \div h \in Int
    BY <1>2, <1>3, <1>6, <1>7, Division
<1>9. ((x * p) % (Word * Word)) + (x \div h) \in Int
    BY <1>8
<1> QED  BY <1>4, <1>5, <1>8, <1>9, CongruentToWord DEF RightData

\* Mnemonics without a macro write an integer all the same.
LEMMA OthersAreIntegers ==
    ASSUME NEW op \in {"UP2UR", "VIADD", "VIADDMNMX", "LOP3.LUT"},
           NEW ops, NEW s, NEW w, NEW m \in BOOLEAN, AllAlike(op, s, w, m)
    PROVE  RightData(op, ops, s, w, m)
<1>1. op \notin WithMacro
    BY DEF WithMacro, Isetp
<1>2. CASE op = "UP2UR"
    <2>1. Alike("N", s[4], w[4], m)
        BY <1>2 DEF AllAlike, Operands, Isetp
    <2>2. Value(op, ops, s) = s[4]
        BY <1>2 DEF Value, DestinationValues, Handler, Isetp
    <2> QED  BY <1>1, <2>1, <2>2 DEF Alike, RightData
<1>3. CASE op = "VIADD"
    <2>1. Alike("N", s[2], w[2], m) /\ Alike("N", s[3], w[3], m)
        BY <1>3 DEF AllAlike, Operands, Isetp
    <2>2. Value(op, ops, s) = s[2] + s[3]
        BY <1>3 DEF Value, DestinationValues, Handler, Isetp, h_viadd
    <2> QED  BY <1>1, <2>1, <2>2 DEF Alike, RightData
<1>4. CASE op = "VIADDMNMX"
    <2>1. Alike("N", s[2], w[2], m) /\ Alike("N", s[3], w[3], m) /\ Alike("N", s[4], w[4], m)
        BY <1>4 DEF AllAlike, Operands, Isetp
    <2>2. Value(op, ops, s) = s[2] + s[4] \/ Value(op, ops, s) = s[3]
        BY <1>4 DEF Value, DestinationValues, Handler, Isetp, h_viaddmnmx, Select, Least, Greatest
    <2> QED  BY <1>1, <2>1, <2>2 DEF Alike, RightData
<1>5. CASE op = "LOP3.LUT"
    <2>1. Alike("N", s[4], w[4], m) /\ Alike("L", s[5], w[5], m)
        BY <1>5 DEF AllAlike, Operands, Isetp
    <2>2. Value(op, ops, s) = h_lop3_lut(ops, s)
        BY <1>5 DEF Value, DestinationValues, Handler, Isetp
    <2>3. h_lop3_lut(ops, s) = s[4] \/ h_lop3_lut(ops, s) = s[5]
        BY DEF h_lop3_lut, LogicalOp
    <2> QED  BY <1>1, <2>1, <2>2, <2>3 DEF Alike, RightData
<1> QED  BY <1>2, <1>3, <1>4, <1>5

LEMMA ComparisonsAreRight ==
    ASSUME NEW op \in Isetp, NEW ops, NEW s, NEW w, NEW m \in BOOLEAN, AllAlike(op, s, w, m)
    PROVE  RightPredicate(op, ops, s, w, m)
<1>1. Alike("N", s[3], w[3], m) /\ Alike("N", s[4], w[4], m) /\ Alike("Q", s[5], w[5], m)
    BY DEF AllAlike, Operands, Isetp
<1>2. Value(op, ops, s) = h_isetp(op, s)
    BY DEF Value, DestinationValues, Isetp
<1>3. Macro(op, w) = IF op = "ISETP.GE.OR" THEN WordComparison(op, w[3], w[4]) \/ w[5]
                     ELSE WordComparison(op, w[3], w[4]) /\ w[5]
    BY DEF Macro, Isetp
<1>4. s[3] \in Int /\ s[4] \in Int /\ s[5] \in BOOLEAN /\ w[5] \in BOOLEAN
      /\ w[3] \in Words /\ w[4] \in Words
    BY <1>1 DEF Alike
<1>5. \A x, y \in Int : Comparison(op, x, y) \in BOOLEAN
    <2> SUFFICES ASSUME NEW x \in Int, NEW y \in Int PROVE Comparison(op, x, y) \in BOOLEAN
        OBVIOUS
    <2>1. (x < y) \in BOOLEAN /\ (x >= y) \in BOOLEAN /\ (x # y) \in BOOLEAN
        OBVIOUS
    <2> QED  BY <2>1 DEF Isetp, Comparison
<1>6. ASSUME m, WithinRange(op, s) PROVE Value(op, ops, s) = Macro(op, w)
    <2>1. StandsFor(s[3], w[3]) /\ StandsFor(s[4], w[4]) /\ s[5] = w[5]
        BY <1>1, <1>6 DEF Alike
    <2>2. Comparison(op, s[3], s[4]) = WordComparison(op, w[3], w[4])
        <3>1. CASE op \in {"ISETP.LT.U32.AND", "ISETP.GE.U32.AND"}
            <4>1. s[3] \in Words /\ s[4] \in Words
                BY <1>6, <3>1 DEF WithinRange, ReadAsUnsigned
            <4>2. s[3] = w[3] /\ s[4] = w[4]
                BY <2>1, <4>1, InRangeIs
            <4> QED  BY <3>1, <4>2 DEF WordComparison
        <3>2. CASE op \notin {"ISETP.LT.U32.AND", "ISETP.GE.U32.AND"}
            <4>1. s[3] \in SignedWords /\ s[4] \in SignedWords
                BY <1>6, <3>2 DEF WithinRange, ReadAsSigned, Isetp
            <4>2. s[3] = Signed(w[3]) /\ s[4] = Signed(w[4])
                BY <2>1, <4>1, InRangeIs
            <4> QED  BY <3>2, <4>2 DEF WordComparison
        <3> QED  BY <3>1, <3>2
    <2> QED  BY <1>2, <1>3, <2>1, <2>2 DEF h_isetp
<1>7. Value(op, ops, s) \in BOOLEAN
    BY <1>2, <1>4, <1>5 DEF h_isetp
<1>8. Macro(op, w) \in BOOLEAN
    <2>1. w[3] \in Int /\ w[4] \in Int /\ Signed(w[3]) \in Int /\ Signed(w[4]) \in Int
        BY <1>4, SignedIs, WordIs DEF Words
    <2>2. WordComparison(op, w[3], w[4]) \in BOOLEAN
        BY <1>5, <2>1 DEF WordComparison
    <2> QED  BY <1>3, <1>4, <2>2
<1> QED  BY <1>6, <1>7, <1>8 DEF RightPredicate

LEMMA LogicIsRight ==
    ASSUME NEW ops, NEW s, NEW w, NEW m \in BOOLEAN, AllAlike("PLOP3.LUT", s, w, m)
    PROVE  RightPredicate("PLOP3.LUT", ops, s, w, m)
<1>1. /\ Alike("T", s[3], w[3], m) /\ Alike("T", s[4], w[4], m)
      /\ Alike("Q", s[5], w[5], m) /\ Alike("C", s[6], w[6], m)
    BY DEF AllAlike, Operands, Isetp
<1>2. Value("PLOP3.LUT", ops, s) = s[5]
    BY <1>1 DEF Value, DestinationValues, Isetp, h_plop3_lut, LogicalOp, Alike
<1>3. Power[6] = 64 /\ Power[7] = 128
    <2>1. Power[0 + 1] = 2 * Power[0] /\ Power[1 + 1] = 2 * Power[1] /\ Power[2 + 1] = 2 * Power[2]
          /\ Power[3 + 1] = 2 * Power[3] /\ Power[4 + 1] = 2 * Power[4]
          /\ Power[5 + 1] = 2 * Power[5] /\ Power[6 + 1] = 2 * Power[6] /\ Power[0] = 1
        BY PowerIs
    <2> QED  BY <2>1
<1>4. Macro("PLOP3.LUT", w) = ((128 \div Power[IF w[5] THEN 7 ELSE 6]) % 2 = 1)
    <2>1. Macro("PLOP3.LUT", w) = LutBit(128, TRUE, TRUE, w[5])
        <3>1. w[3] = TRUE /\ w[4] = TRUE /\ w[6] = 128
            BY <1>1 DEF Alike
        <3>2. Macro("PLOP3.LUT", w) = LutBit(w[6], w[3], w[4], w[5])
            BY DEF Macro, Isetp
        <3> QED  BY <3>1, <3>2
    <2> QED  BY <2>1 DEF LutBit
<1>5. Macro("PLOP3.LUT", w) = w[5]
    <2>1. w[5] \in BOOLEAN /\ 128 \div 128 = 1 /\ 128 \div 64 = 2 /\ 1 % 2 = 1 /\ 2 % 2 = 0
        BY <1>1 DEF Alike
    <2> QED  BY <1>3, <1>4, <2>1
<1> QED  BY <1>1, <1>2, <1>5 DEF Alike, RightPredicate

LEMMA PhaseCheckIsPredicate ==
    ASSUME NEW ops, NEW s, NEW w, NEW m
    PROVE  RightPredicate("SYNCS.PHASECHK", ops, s, w, m)
    BY DEF RightPredicate, WithMacro, Isetp, Value, DestinationValues, Handler

-----------------------------------------------------------------------------
(* Instructions.                                                           *)

DataOps ==
    {"MOV", "ULDC", "P2R", "MUFU.RCP", "IABS", "UP2UR", "VIADD", "IADD3", "IMAD", "IMAD.HI.U32",
     "IMNMX.U32", "SEL", "VIADDMNMX", "VIMNMX", "SHF.R.U32.HI", "SHF.R.S32.HI", "SHF.L.U32",
     "LEA", "LEA.HI.SX32", "LEA.HI", "LOP3.LUT"}

PredicateOps == Isetp \cup {"SYNCS.PHASECHK", "PLOP3.LUT"}

\* The operands as the handler and the macro see them.
Values(rs, i)     == [k \in DOMAIN i.ops |-> Operand(rs, i.ops[k])]
WordValues(ws, i) == [k \in DOMAIN i.ops |-> WordOperand(ws, i.ops[k])]

LEMMA InstructionIs ==
    ASSUME NEW i, IsInstruction(i)
    PROVE  /\ \/ i.op \in DataOps /\ Fits(i.ops[1], "D")
              \/ i.op \in PredicateOps /\ Fits(i.ops[1], "B")
           /\ i.op \in Isetp \cup {"PLOP3.LUT"} => Fits(i.ops[2], "T")
           /\ i.op = "VIMNMX" => Fits(i.ops[2], "T") /\ Fits(i.ops[3], "T")
<1>1. 1 \in DOMAIN Operands(i.op) /\ \A k \in DOMAIN Operands(i.op) : Fits(i.ops[k], Operands(i.op)[k])
    BY DEF IsInstruction
<1>2. i.op \in DataOps \cup PredicateOps
    BY <1>1 DEF Operands, DataOps, PredicateOps, Isetp
<1>3. i.op \in DataOps => Operands(i.op)[1] \in {"D", "A"}
    BY DEF Operands, DataOps, Isetp
<1>4. i.op \in PredicateOps => Operands(i.op)[1] = "B"
    BY DEF Operands, PredicateOps, Isetp
<1>5. i.op \in Isetp \cup {"PLOP3.LUT"} => 2 \in DOMAIN Operands(i.op) /\ Operands(i.op)[2] = "T"
    <2>1. i.op \in Isetp => Operands(i.op) = <<"B", "T", "N", "N", "Q">>
        BY DEF Operands, Isetp
    <2>2. i.op = "PLOP3.LUT" => Operands(i.op) = <<"B", "T", "T", "T", "Q", "C", "L">>
        BY DEF Operands, Isetp
    <2> QED  BY <2>1, <2>2
<1>6. i.op = "VIMNMX" => /\ 2 \in DOMAIN Operands(i.op) /\ Operands(i.op)[2] = "T"
                         /\ 3 \in DOMAIN Operands(i.op) /\ Operands(i.op)[3] = "T"
    BY DEF Operands, Isetp
<1>7. i.op \in DataOps => Fits(i.ops[1], "D")
    <2>1. Fits(i.ops[1], "A") => Fits(i.ops[1], "D")
        BY DEF Fits
    <2> QED  BY <1>1, <1>3, <2>1
<1>8. i.op \in PredicateOps => Fits(i.ops[1], "B")
    BY <1>1, <1>4
<1>9. i.op \in Isetp \cup {"PLOP3.LUT"} => Fits(i.ops[2], "T")
    BY <1>1, <1>5
<1>10. i.op = "VIMNMX" => Fits(i.ops[2], "T") /\ Fits(i.ops[3], "T")
    BY <1>1, <1>6
<1> QED  BY <1>2, <1>7, <1>8, <1>9, <1>10

-----------------------------------------------------------------------------
(* What the tables of cfg.py say of an instruction.                        *)

Destination(i) == {r \in {i.ops[1].reg} : i.ops[1].kind = "reg"}

Forms == {"D", "A", "B", "N", "Q", "K", "L", "C", "Z", "T"}

LEMMA OperandsFit ==
    ASSUME NEW i, IsInstruction(i), NEW k \in DOMAIN i.ops
    PROVE  /\ i.ops[k].kind = "reg" => i.ops[k].reg \in Registers /\ i.ops[k].reg # RZ
           /\ i.regs[k] = IF i.ops[k].kind = "reg" THEN i.ops[k].reg ELSE RZ
           /\ DOMAIN i.regs = DOMAIN i.ops
<1>1. \A op : \A j \in DOMAIN Operands(op) : Operands(op)[j] \in Forms
    BY DEF Operands, Isetp, Forms
<1>2. Fits(i.ops[k], Operands(i.op)[k]) /\ Operands(i.op)[k] \in Forms
    BY <1>1 DEF IsInstruction
<1>3. i.ops[k].kind = "reg" => i.ops[k].reg \in Registers
    BY <1>2 DEF Fits, Forms, IsData, IsPredicate, IsRegister
<1>4. RZ \notin Registers
    BY HandlersAssumption
<1>5. i.regs = OperandRegs(i.ops)
    BY DEF IsInstruction
<1>6. i.regs[k] = IF i.ops[k].kind = "reg" THEN i.ops[k].reg ELSE RZ
    BY <1>5 DEF OperandRegs
<1>7. DOMAIN i.regs = DOMAIN i.ops
    BY <1>5 DEF OperandRegs
<1> QED  BY <1>3, <1>4, <1>6, <1>7

\* An instruction is said to write its first operand and nothing else.
LEMMA DefsAre ==
    ASSUME NEW i, IsInstruction(i)
    PROVE  DefsOf(i) = Destination(i) /\ Written(i) = {1}
<1>1. i.op \in DataOps \cup PredicateOps
    BY InstructionIs
<1>2. 1 \in DOMAIN i.ops /\ DOMAIN i.ops = DOMAIN Operands(i.op)
    BY DEF IsInstruction
<1>3. /\ i.ops[1].kind = "reg" => i.ops[1].reg \in Registers /\ i.ops[1].reg # RZ
      /\ i.regs[1] = IF i.ops[1].kind = "reg" THEN i.ops[1].reg ELSE RZ
      /\ DOMAIN i.regs = DOMAIN i.ops
    BY <1>2, OperandsFit
<1>4. WriteCount(i) = 1
    <2>1. CASE i.op = "IADD3"
        <3>1. DOMAIN i.regs = 1 .. 4
            BY <1>2, <1>3, <2>1 DEF Operands, Isetp
        <3>2. Len(i.regs) = 4
            <4>1. i.regs = OperandRegs(i.ops)
                BY DEF IsInstruction
            <4>2. i.regs = [k \in 1 .. 4 |-> i.regs[k]]
                BY <3>1, <4>1 DEF OperandRegs
            <4> QED  BY <4>2, FunctionIsSequence
        <3> QED  BY <2>1, <3>2 DEF WriteCount
    <2>2. CASE i.op # "IADD3"
        BY <1>1, <2>2 DEF WriteCount, DataOps, PredicateOps, Isetp
    <2> QED  BY <2>1, <2>2
<1>5. Written(i) = {1}
    <2>1. DOMAIN Operands(i.op) \subseteq Nat \ {0}
        BY <1>1 DEF Operands, Isetp, DataOps, PredicateOps
    <2> QED  BY <1>2, <1>3, <1>4, <2>1 DEF Written
<1>6. MultiWriter(i, 1) = 1
    BY <1>1 DEF MultiWriter, DataOps, PredicateOps, Isetp
<1>7. i.ops[1].kind = "reg" => AdjacentRegs(i.ops[1].reg, 1) = {i.ops[1].reg}
    <2> SUFFICES ASSUME NEW r \in Registers PROVE AdjacentRegs(r, 1) = {r}
        BY <1>3
    <2>1. r = <<r[1], r[2] + 0>> /\ 0 .. 0 = {0}
        BY HandlersAssumption
    <2> QED  BY <2>1 DEF AdjacentRegs
<1>8. DefsOf(i) = UNION {AdjacentRegs(i.regs[k], MultiWriter(i, k)) : k \in {j \in {1} : i.regs[j] \notin {RZ}}}
    BY <1>5 DEF DefsOf, ConstantRegs
<1>9. CASE i.ops[1].kind = "reg"
    <2>1. {j \in {1} : i.regs[j] \notin {RZ}} = {1} /\ i.regs[1] = i.ops[1].reg
        BY <1>3, <1>9
    <2>2. DefsOf(i) = AdjacentRegs(i.ops[1].reg, 1)
        BY <1>6, <1>8, <2>1
    <2> QED  BY <1>5, <1>7, <1>9, <2>2 DEF Destination
<1>10. CASE i.ops[1].kind # "reg"
    <2>1. {j \in {1} : i.regs[j] \notin {RZ}} = {}
        BY <1>3, <1>10
    <2>2. DefsOf(i) = {}
        BY <1>8, <2>1
    <2> QED  BY <1>5, <1>10, <2>2 DEF Destination
<1> QED  BY <1>9, <1>10

\* The positions of the operands that a handler reads.
Read(i) == {k \in DOMAIN i.ops : k # 1 \/ i.op = "IMAD.HI.U32"}

LEMMA UsesAre ==
    ASSUME NEW i, IsInstruction(i)
    PROVE  /\ UsesOf(i) \subseteq Registers /\ GuardRegs(i) \subseteq UsesOf(i)
           /\ \A k \in Read(i) : i.ops[k].kind = "reg" => i.ops[k].reg \in UsesOf(i)
<1>1. 1 \in DOMAIN i.ops /\ DOMAIN i.regs = DOMAIN i.ops
    <2>1. 1 \in DOMAIN i.ops
        BY DEF IsInstruction
    <2> QED  BY <2>1, OperandsFit
<1>2. Written(i) = {1}
    BY DefsAre
<1>3. (DOMAIN i.regs \ Written(i)) \cup (ReadWrite(i) \cap DOMAIN i.regs) = Read(i)
    BY <1>1, <1>2 DEF ReadWrite, Read
<1>4. UsesOf(i) = (GuardRegs(i) \cup {i.regs[k] : k \in Read(i)}) \ {RZ}
    BY <1>3 DEF UsesOf, ConstantRegs
<1>5. GuardRegs(i) \subseteq Registers /\ RZ \notin Registers
    BY HandlersAssumption DEF IsInstruction
<1>6. \A k \in Read(i) :
         /\ i.ops[k].kind = "reg" => i.regs[k] = i.ops[k].reg /\ i.regs[k] \in Registers
         /\ i.ops[k].kind # "reg" => i.regs[k] = RZ
    BY OperandsFit DEF Read
<1> QED  BY <1>4, <1>5, <1>6

-----------------------------------------------------------------------------
(* What the handlers and the macros compute.                              *)

LEMMA OperandsAreAlike ==
    ASSUME InputIsWord, NEW i, IsInstruction(i), NEW rs, NEW ws, Typed(rs), WordTyped(ws)
    PROVE  AllAlike(i.op, Values(rs, i), WordValues(ws, i), Matching(UsesOf(i), rs, ws))
<1> DEFINE m == Matching(UsesOf(i), rs, ws)
<1> SUFFICES ASSUME NEW k \in DOMAIN Operands(i.op)
             PROVE  Alike(Operands(i.op)[k], Values(rs, i)[k], WordValues(ws, i)[k], m)
    BY DEF AllAlike
<1> DEFINE form == Operands(i.op)[k]
           o == i.ops[k]
           a == Operand(rs, o)
           w == WordOperand(ws, o)
<1>1. k \in DOMAIN i.ops /\ Fits(o, form)
    BY DEF IsInstruction
<1>2. Values(rs, i)[k] = a /\ WordValues(ws, i)[k] = w
    BY <1>1 DEF Values, WordValues
<1>13. form \in {"A", "N", "Q"} => KnownOperand(o, UsesOf(i))
    <2>1. form \in {"A", "N", "Q"} => k \in Read(i)
        BY <1>1 DEF Read, Operands, Isetp
    <2> QED  BY <2>1, UsesAre DEF KnownOperand
<1> HIDE DEF form, o
<1>3. form \in {"D", "A", "N"} => IsData(o)
    BY <1>1 DEF Fits
<1>4. form \in {"B", "Q"} => IsPredicate(o)
    BY <1>1 DEF Fits
<1>5. /\ form \in {"D", "A", "N"} => a \in Int /\ w \in Words
      /\ form \in {"A", "N"} => (m => StandsFor(a, w))
    BY <1>3, <1>13, DataOperand
<1>6. /\ form \in {"B", "Q"} => a \in BOOLEAN /\ w \in BOOLEAN
      /\ form = "Q" => (m => a = w)
    BY <1>4, <1>13, PredicateOperand
<1>7. form = "K" => a \in 0 .. WordBits /\ w = a
    BY <1>1, CountOperand
<1>8. form = "L" => a \in Nat
    BY <1>1, TableOperand
<1>9. form = "C" => a = 128 /\ w = 128
    BY <1>1, TableOperand
<1>10. form = "Z" => a = 0 /\ w = 0
    BY <1>1, TableOperand
<1>11. form = "T" => a = TRUE /\ w = TRUE
    BY <1>1, TableOperand
<1> HIDE DEF a, w
<1>12. Alike(form, a, w, m)
    BY <1>5, <1>6, <1>7, <1>8, <1>9, <1>10, <1>11 DEF Alike
<1> QED  BY <1>2, <1>12 DEF form, a, w

\* Every mnemonic.
LEMMA ValuesAreRight ==
    ASSUME NEW op, NEW ops, NEW s, NEW w, NEW m \in BOOLEAN, AllAlike(op, s, w, m)
    PROVE  /\ op \in DataOps => RightData(op, ops, s, w, m)
           /\ op \in PredicateOps => RightPredicate(op, ops, s, w, m)
<1>1. op \in {"MOV", "ULDC", "P2R", "MUFU.RCP"} => RightData(op, ops, s, w, m)
    BY MovesAreRight
<1>2. op = "IABS" => RightData(op, ops, s, w, m)
    BY AbsoluteIsRight
<1>3. op \in {"IADD3", "IMAD"} => RightData(op, ops, s, w, m)
    BY SumsAreRight
<1>4. op = "IMAD.HI.U32" => RightData(op, ops, s, w, m)
    BY HighProductIsRight
<1>5. op \in {"IMNMX.U32", "SEL"} => RightData(op, ops, s, w, m)
    BY ChoicesAreRight
<1>6. op = "VIMNMX" => RightData(op, ops, s, w, m)
    BY MinimumIsRight
<1>7. op \in {"SHF.R.U32.HI", "SHF.R.S32.HI"} => RightData(op, ops, s, w, m)
    BY RightShiftsAreRight
<1>8. op = "LEA" => RightData(op, ops, s, w, m)
    BY ScaledSumIsRight
<1>9. op = "LEA.HI" => RightData(op, ops, s, w, m)
    BY HighSumIsRight
<1>10. op = "LEA.HI.SX32" => RightData(op, ops, s, w, m)
    BY HighExtendedSumIsRight
<1>11. op = "SHF.L.U32" => RightData(op, ops, s, w, m)
    BY LeftShiftIsInteger
<1>12. op \in {"UP2UR", "VIADD", "VIADDMNMX", "LOP3.LUT"} => RightData(op, ops, s, w, m)
    BY OthersAreIntegers
<1>13. op \in Isetp => RightPredicate(op, ops, s, w, m)
    BY ComparisonsAreRight
<1>14. op = "PLOP3.LUT" => RightPredicate(op, ops, s, w, m)
    BY LogicIsRight
<1>15. op = "SYNCS.PHASECHK" => RightPredicate(op, ops, s, w, m)
    BY PhaseCheckIsPredicate
<1>16. op \in DataOps => RightData(op, ops, s, w, m)
    BY <1>1, <1>2, <1>3, <1>4, <1>5, <1>6, <1>7, <1>8, <1>9, <1>10, <1>11, <1>12 DEF DataOps
<1>17. op \in PredicateOps => RightPredicate(op, ops, s, w, m)
    BY <1>13, <1>14, <1>15 DEF PredicateOps
<1> QED  BY <1>16, <1>17

-----------------------------------------------------------------------------
(* What an instruction changes.                                            *)

LEMMA EmittedIs ==
    ASSUME NEW i, IsInstruction(i), NEW rs
    PROVE  /\ DOMAIN Emitted(rs, i) = Destination(i)
           /\ \A r \in Destination(i) :
                 Emitted(rs, i)[r] = IF Pred(rs, i) THEN Value(i.op, i.ops, Values(rs, i)) ELSE rs[r]
<1> DEFINE s == Values(rs, i)
           v == DestinationValues(i.op, i.ops, s)
           dsts == {k \in DOMAIN v : i.ops[k].kind = "reg"}
           Kept(k) == i.op \notin Multiple /\ ~ Pred(rs, i)
           LastWriter(r) == CHOOSE j \in dsts :
                         i.ops[j].reg = r /\ \A m \in dsts : i.ops[m].reg = r => m <= j
<1>1. Emitted(rs, i) = [r \in {i.ops[k].reg : k \in dsts} |-> IF Kept(LastWriter(r)) THEN rs[r] ELSE v[LastWriter(r)]]
    BY DEF Emitted, Values
<1>2. 1 \in DOMAIN v /\ \A k \in DOMAIN v : k = 1 \/ i.ops[k].kind # "reg"
    <2>1. \A o : Fits(o, "T") => o.kind # "reg"
        BY DEF Fits
    <2>2. CASE i.op \in Isetp \cup {"PLOP3.LUT"}
        <3>1. DOMAIN v = 1 .. 2
            BY <2>2 DEF DestinationValues, Isetp
        <3>2. Fits(i.ops[2], "T")
            BY <2>2, InstructionIs
        <3> HIDE DEF v
        <3> QED  BY <2>1, <3>1, <3>2
    <2>3. CASE i.op = "VIMNMX"
        <3>1. DOMAIN v = 1 .. 3
            BY <2>3 DEF DestinationValues, Isetp
        <3>2. Fits(i.ops[2], "T") /\ Fits(i.ops[3], "T")
            BY <2>3, InstructionIs
        <3> HIDE DEF v
        <3> QED  BY <2>1, <3>1, <3>2
    <2>4. CASE i.op \notin Isetp \cup {"PLOP3.LUT", "VIMNMX"}
        <3>1. DOMAIN v = 1 .. 1
            BY <2>4 DEF DestinationValues, Isetp
        <3> HIDE DEF v
        <3> QED  BY <3>1
    <2> QED  BY <2>2, <2>3, <2>4
<1>3. (i.op \in Multiple) => Pred(rs, i)
    BY DEF IsInstruction, Pred, IsPredicated
<1>4. v[1] = Value(i.op, i.ops, s)
    BY DEF Value
<1> HIDE DEF v, s
<1>5. dsts = {k \in {1} : i.ops[1].kind = "reg"}
    BY <1>2
<1>6. {i.ops[k].reg : k \in dsts} = Destination(i)
    BY <1>5 DEF Destination
<1>7. ASSUME NEW r \in Destination(i) PROVE LastWriter(r) = 1
    <2>1. r = i.ops[1].reg /\ dsts = {1}
        BY <1>5, <1>7 DEF Destination
    <2> HIDE DEF dsts
    <2> QED  BY <2>1
<1> HIDE DEF LastWriter, dsts
<1>8. \A r \in Destination(i) : Emitted(rs, i)[r] = IF Kept(1) THEN rs[r] ELSE v[1]
    BY <1>1, <1>6, <1>7
<1> QED  BY <1>1, <1>3, <1>4, <1>6, <1>8 DEF s

LEMMA ExecutedIs ==
    ASSUME NEW i, NEW ws
    PROVE  /\ DOMAIN Executed(ws, i) = {r \in Destination(i) : Pred(ws, i)}
           /\ \A r \in DOMAIN Executed(ws, i) :
                 Executed(ws, i)[r] = IF i.op \in Compared THEN Macro(i.op, WordValues(ws, i)) ELSE ws[r]
<1>1. CASE i.ops[1].kind # "reg" \/ ~ Pred(ws, i)
    <2>1. Executed(ws, i) = <<>>
        BY <1>1 DEF Executed
    <2> QED  BY <1>1, <2>1 DEF Destination
<1>2. CASE ~ (i.ops[1].kind # "reg" \/ ~ Pred(ws, i))
    <2>1. Executed(ws, i) = [r \in {i.ops[1].reg} |->
                                IF i.op \in Compared THEN Macro(i.op, WordValues(ws, i)) ELSE ws[r]]
        BY <1>2 DEF Executed, WordValues
    <2> QED  BY <1>2, <2>1 DEF Destination
<1> QED  BY <1>1, <1>2

LEMMA GuardIs ==
    ASSUME NEW i, IsInstruction(i), NEW rs, NEW ws, NEW known, Matching(known, rs, ws),
           GuardRegs(i) \subseteq known
    PROVE  Pred(rs, i) <=> Pred(ws, i)
<1>1. \A r \in GuardRegs(i) : r \in known /\ IsPredicateReg(r)
    BY DEF GuardRegs, IsPredicateReg
<1>2. \A r \in GuardRegs(i) : rs[r] = ws[r]
    BY <1>1 DEF Matching
<1> QED  BY <1>2 DEF Pred

LEMMA DestinationIs ==
    ASSUME NEW i, IsInstruction(i), NEW r \in Destination(i)
    PROVE  /\ r \in Registers
           /\ i.op \in DataOps => ~ IsPredicateReg(r)
           /\ i.op \in PredicateOps => IsPredicateReg(r)
           /\ i.op \in DataOps \cup PredicateOps
<1>1. i.ops[1].kind = "reg" /\ r = i.ops[1].reg
    BY DEF Destination
<1>2. Fits(i.ops[1], "D") => r \in Registers /\ ~ IsPredicateReg(r)
    BY <1>1 DEF Fits, IsData, IsRegister
<1>3. Fits(i.ops[1], "B") => r \in Registers /\ IsPredicateReg(r)
    BY <1>1 DEF Fits, IsPredicate, IsRegister
<1>4. DataOps \cap PredicateOps = {}
    BY DEF DataOps, PredicateOps, Isetp
<1> QED  BY <1>2, <1>3, <1>4, InstructionIs

LEMMA UpdatedIs ==
    ASSUME NEW rs, NEW changes
    PROVE  /\ DOMAIN Updated(rs, changes) = Registers
           /\ \A r \in Registers :
                 Updated(rs, changes)[r] = IF r \in DOMAIN changes THEN changes[r] ELSE rs[r]
    BY DEF Updated

LEMMA RegisterAfter ==
    ASSUME NEW i, IsInstruction(i), NEW rs, NEW ws, NEW r \in Registers
    PROVE  /\ Updated(rs, Emitted(rs, i))[r] =
                 IF r \in Destination(i) /\ Pred(rs, i) THEN Value(i.op, i.ops, Values(rs, i)) ELSE rs[r]
           /\ Updated(ws, Executed(ws, i))[r] =
                 IF r \in Destination(i) /\ Pred(ws, i) /\ i.op \in Compared
                 THEN Macro(i.op, WordValues(ws, i)) ELSE ws[r]
<1>1. /\ DOMAIN Emitted(rs, i) = Destination(i)
      /\ \A q \in Destination(i) :
            Emitted(rs, i)[q] = IF Pred(rs, i) THEN Value(i.op, i.ops, Values(rs, i)) ELSE rs[q]
    BY EmittedIs
<1>2. /\ DOMAIN Executed(ws, i) = {q \in Destination(i) : Pred(ws, i)}
      /\ \A q \in DOMAIN Executed(ws, i) :
            Executed(ws, i)[q] = IF i.op \in Compared THEN Macro(i.op, WordValues(ws, i)) ELSE ws[q]
    BY ExecutedIs
<1> QED  BY <1>1, <1>2, UpdatedIs

\* A step of the emitted thread leaves integers and Booleans, one of the machine
\* words and Booleans.
LEMMA TypesKept ==
    ASSUME InputIsWord, NEW i, IsInstruction(i), NEW rs, NEW ws, Typed(rs), WordTyped(ws)
    PROVE  Typed(Updated(rs, Emitted(rs, i))) /\ WordTyped(Updated(ws, Executed(ws, i)))
<1> DEFINE s == Values(rs, i)
           w == WordValues(ws, i)
           m == Matching(UsesOf(i), rs, ws)
<1>1. /\ i.op \in DataOps => RightData(i.op, i.ops, s, w, m)
      /\ i.op \in PredicateOps => RightPredicate(i.op, i.ops, s, w, m)
    <2>1. AllAlike(i.op, s, w, m) /\ m \in BOOLEAN
        BY OperandsAreAlike DEF Matching
    <2> HIDE DEF s, w, m
    <2> QED  BY <2>1, ValuesAreRight
<1> HIDE DEF s, w, m
<1>2. /\ i.op \in DataOps => Value(i.op, i.ops, s) \in Int
      /\ i.op \in PredicateOps => Value(i.op, i.ops, s) \in BOOLEAN
      /\ i.op \in Compared /\ i.op \in DataOps => Macro(i.op, w) \in Words
      /\ i.op \in Compared /\ i.op \in PredicateOps => Macro(i.op, w) \in BOOLEAN
    BY <1>1, HandlersAssumption DEF RightData, RightPredicate
<1>3. Typed(Updated(rs, Emitted(rs, i)))
    <2> SUFFICES ASSUME NEW r \in Registers
                 PROVE  IF IsPredicateReg(r) THEN Updated(rs, Emitted(rs, i))[r] \in BOOLEAN
                        ELSE Updated(rs, Emitted(rs, i))[r] \in Int
        BY DEF Typed
    <2>1. IF IsPredicateReg(r) THEN rs[r] \in BOOLEAN ELSE rs[r] \in Int
        BY DEF Typed
    <2>2. \/ Updated(rs, Emitted(rs, i))[r] = rs[r]
          \/ r \in Destination(i) /\ Updated(rs, Emitted(rs, i))[r] = Value(i.op, i.ops, s)
        BY RegisterAfter DEF s
    <2> QED  BY <1>2, <2>1, <2>2, DestinationIs
<1>4. WordTyped(Updated(ws, Executed(ws, i)))
    <2> SUFFICES ASSUME NEW r \in Registers
                 PROVE  IF IsPredicateReg(r) THEN Updated(ws, Executed(ws, i))[r] \in BOOLEAN
                        ELSE Updated(ws, Executed(ws, i))[r] \in Words
        BY DEF WordTyped
    <2>1. IF IsPredicateReg(r) THEN ws[r] \in BOOLEAN ELSE ws[r] \in Words
        BY DEF WordTyped
    <2>2. \/ Updated(ws, Executed(ws, i))[r] = ws[r]
          \/ /\ r \in Destination(i) /\ i.op \in Compared
             /\ Updated(ws, Executed(ws, i))[r] = Macro(i.op, w)
        BY RegisterAfter DEF w
    <2> QED  BY <1>2, <2>1, <2>2, DestinationIs
<1> QED  BY <1>3, <1>4

\* A step leaves the integers standing for the words in the registers that it
\* leaves exact.
LEMMA MatchKept ==
    ASSUME InputIsWord, NEW i, IsInstruction(i), NEW rs, NEW ws, Typed(rs), WordTyped(ws),
           NEW known, known \subseteq Registers, Matching(known, rs, ws),
           "SHF.L.U32" \notin Compared
    PROVE  Matching(StillExact(known, rs, i),
                    Updated(rs, Emitted(rs, i)), Updated(ws, Executed(ws, i)))
<1> DEFINE s == Values(rs, i)
           w == WordValues(ws, i)
           m == Matching(UsesOf(i), rs, ws)
           x == Updated(rs, Emitted(rs, i))
           y == Updated(ws, Executed(ws, i))
<1>1. /\ i.op \in DataOps => RightData(i.op, i.ops, s, w, m)
      /\ i.op \in PredicateOps => RightPredicate(i.op, i.ops, s, w, m)
    <2>1. AllAlike(i.op, s, w, m) /\ m \in BOOLEAN
        BY OperandsAreAlike DEF Matching
    <2> HIDE DEF s, w, m
    <2> QED  BY <2>1, ValuesAreRight
<1> SUFFICES ASSUME NEW r \in StillExact(known, rs, i)
             PROVE  IF IsPredicateReg(r) THEN x[r] = y[r] ELSE StandsFor(x[r], y[r])
    BY DEF Matching
<1>5. /\ DefsOf(i) = Destination(i) /\ Destination(i) \subseteq Registers
      /\ GuardRegs(i) \subseteq UsesOf(i)
    BY DefsAre, DestinationIs, UsesAre
<1>6. r \in Registers
    BY <1>5 DEF StillExact
<1>2. GuardRegs(i) \subseteq known => (Pred(rs, i) <=> Pred(ws, i))
    BY GuardIs
<1>3. CASE r \notin Destination(i) \/ (GuardRegs(i) \subseteq known /\ ~ Pred(rs, i))
    <2>1. x[r] = rs[r] /\ y[r] = ws[r]
        BY <1>2, <1>3, <1>6, RegisterAfter
    <2>2. r \in known
        BY <1>3, <1>5 DEF StillExact
    <2> QED  BY <2>1, <2>2 DEF Matching
<1>4. CASE r \in Destination(i) /\ ~ (GuardRegs(i) \subseteq known /\ ~ Pred(rs, i))
    <2>7. UsesOf(i) \subseteq known /\ InRange(rs, i)
        BY <1>4, <1>5 DEF StillExact
    <2>1. i.op \in Compared /\ Pred(rs, i) /\ Pred(ws, i) /\ m
        BY <1>2, <1>4, <1>5, <2>7 DEF InRange, Matching
    <2>2. x[r] = Value(i.op, i.ops, s) /\ y[r] = Macro(i.op, w)
        BY <1>4, <1>6, <2>1, RegisterAfter
    <2>3. WithinRange(i.op, s)
        <3>1. ReadAsSigned(i.op) \cup ReadAsUnsigned(i.op) \subseteq DOMAIN Operands(i.op)
            <4>1. i.op \in DataOps \cup PredicateOps
                BY InstructionIs
            <4> QED  BY <4>1 DEF ReadAsSigned, ReadAsUnsigned, Operands, Isetp, DataOps, PredicateOps
        <3>2. \A k \in DOMAIN Operands(i.op) : s[k] = Operand(rs, i.ops[k])
            BY DEF Values, IsInstruction
        <3> HIDE DEF s
        <3> QED  BY <2>7, <3>1, <3>2 DEF InRange, WithinRange
    <2> HIDE DEF s, w, m, x, y
    <2>4. i.op \in WithMacro \ {"SHF.L.U32"}
        BY <2>1, HandlersAssumption
    <2>5. i.op \in DataOps => StandsFor(x[r], y[r])
        BY <1>1, <2>1, <2>2, <2>3, <2>4 DEF RightData
    <2>6. i.op \in PredicateOps => x[r] = y[r]
        BY <1>1, <2>1, <2>2, <2>3, <2>4 DEF RightPredicate
    <2> QED  BY <1>4, <2>5, <2>6, DestinationIs
<1> QED  BY <1>3, <1>4

-----------------------------------------------------------------------------
(* The two executions.                                                     *)

LEMMA InstructionChosen ==
    ASSUME TypeOK, [Next]_vars
    PROVE  \/ UNCHANGED vars
           \/ \E i \in Instructions : IsInstruction(i) /\ Execute(i)
    BY HandlersAssumption DEF Next

LEMMA TypesOf ==
    ASSUME TypeOK
    PROVE  Typed(regs) /\ WordTyped(words) /\ InputIsWord
    BY DEF TypeOK, Typed, WordTyped, InputIsWord

LEMMA StartIs ==
    /\ DOMAIN Start = Registers
    /\ \A r \in Registers : Start[r] = IF IsPredicateReg(r) THEN FALSE ELSE 0
    /\ Typed(Start) /\ WordTyped(Start) /\ Matching(Registers, Start, Start)
<1>1. 0 \in Words /\ StandsFor(0, 0)
    BY CongruentSelf, WordIs DEF Words, StandsFor
<1> QED  BY <1>1 DEF Start, Typed, WordTyped, Matching

\* Every register of the emitted thread holds an integer or, a predicate, a
\* Boolean; a register of the machine holds a word or a Boolean.
THEOREM HandlersTypeOK == Spec => []TypeOK
<1>1. Init => TypeOK
    <2> SUFFICES ASSUME Init PROVE TypeOK
        OBVIOUS
    <2>1. <<>> \in Seq(Instructions)
        OBVIOUS
    <2> QED  BY <2>1, StartIs DEF Init, TypeOK, Typed, WordTyped
<1>2. TypeOK /\ [Next]_vars => TypeOK'
    <2> SUFFICES ASSUME TypeOK, [Next]_vars PROVE TypeOK'
        OBVIOUS
    <2>1. CASE UNCHANGED vars
        BY <2>1 DEF TypeOK, vars
    <2>2. ASSUME NEW i \in Instructions, IsInstruction(i), Execute(i) PROVE TypeOK'
        <3>1. Typed(regs') /\ WordTyped(words')
            BY <2>2, TypesOf, TypesKept DEF Execute
        <3>2. DOMAIN regs' = Registers /\ DOMAIN words' = Registers
            BY <2>2, UpdatedIs DEF Execute
        <3>3. prog' \in Seq(Instructions) /\ input' = input
            BY <2>2 DEF Execute, TypeOK
        <3>4. exact' \subseteq Registers
            <4>1. DefsOf(i) \subseteq Registers
                BY <2>2, DefsAre, DestinationIs
            <4> QED  BY <2>2, <4>1 DEF Execute, TypeOK, StillExact
        <3> QED  BY <3>1, <3>2, <3>3, <3>4 DEF TypeOK, Typed, WordTyped
    <2> QED  BY <2>1, <2>2, InstructionChosen
<1> QED  BY <1>1, <1>2, PTL DEF Spec

\* In the exact registers, the integers of the emitted thread stand for the words
\* of the machine.
Matched == Matching(exact, regs, words)

\* For every width of a word and all code: the emitted steps leave in a register
\* the machine's value modulo 2^32, and in a predicate the machine's, if that value
\* was computed, guards included, by compared instructions alone, each of which
\* read registers within the range that its handler is right in.  Any mnemonics of
\* WithMacro may be compared but SHF.L.U32, whose handler keeps the upper word;
\* code may contain other instructions, among them LOP3.LUT, and nothing is said of
\* what depends on their results.
THEOREM EmittedAgrees ==
    ASSUME "SHF.L.U32" \notin Compared
    PROVE  Spec => []Agreement
<1>1. Init => Matched
    BY StartIs DEF Init, Matched
<1>2. TypeOK /\ Matched /\ [Next]_vars => Matched'
    <2> SUFFICES ASSUME TypeOK, Matched, [Next]_vars PROVE Matched'
        OBVIOUS
    <2>1. CASE UNCHANGED vars
        BY <2>1 DEF Matched, Matching, vars
    <2>2. ASSUME NEW i \in Instructions, IsInstruction(i), Execute(i) PROVE Matched'
        <3>1. exact \subseteq Registers /\ Matching(exact, regs, words)
            BY DEF Matched, TypeOK
        <3>2. Matching(StillExact(exact, regs, i),
                       Updated(regs, Emitted(regs, i)), Updated(words, Executed(words, i)))
            BY <2>2, <3>1, TypesOf, MatchKept
        <3>3. Matching(exact', regs', words')
            BY <2>2, <3>2 DEF Execute
        <3> QED  BY <3>3 DEF Matched, Matching
    <2> QED  BY <2>1, <2>2, InstructionChosen
<1>3. TypeOK /\ Matched => Agreement
    <2> SUFFICES ASSUME TypeOK, Matched, NEW r \in exact
                 PROVE  IF IsPredicateReg(r) THEN regs[r] = words[r] ELSE regs[r] % Word = words[r]
        BY DEF Agreement
    <2>1. IF IsPredicateReg(r) THEN regs[r] = words[r] ELSE StandsFor(regs[r], words[r])
        BY DEF Matched, Matching
    <2>2. r \in Registers
        BY DEF TypeOK
    <2>3. ~ IsPredicateReg(r) => regs[r] \in Int /\ words[r] \in Words
        BY <2>2 DEF TypeOK
    <2> QED  BY <2>1, <2>3, AgreesIff
<1> QED  BY <1>1, <1>2, <1>3, HandlersTypeOK, PTL DEF Spec

-----------------------------------------------------------------------------
(* What the handlers read.                                                 *)

\* A handler's value depends on the operands that the tables call read.
LEMMA ValueDepends ==
    ASSUME NEW i, IsInstruction(i), NEW s, NEW t, \A k \in Read(i) : s[k] = t[k]
    PROVE  Value(i.op, i.ops, s) = Value(i.op, i.ops, t)
<1>1. i.op \in DataOps \cup PredicateOps
    BY InstructionIs
<1>2. \A k \in DOMAIN Operands(i.op) : k # 1 \/ i.op = "IMAD.HI.U32" => s[k] = t[k]
    BY DEF Read, IsInstruction
<1>3. CASE i.op \in Isetp
    <2>1. DOMAIN Operands(i.op) = 1 .. 5
        BY <1>3 DEF Operands, Isetp
    <2>2. s[3] = t[3] /\ s[4] = t[4] /\ s[5] = t[5]
        BY <1>2, <2>1
    <2> QED  BY <1>3, <2>2 DEF Value, DestinationValues, Isetp, h_isetp
<1>4. CASE i.op = "PLOP3.LUT"
    <2>1. s[3] = t[3] /\ s[4] = t[4] /\ s[5] = t[5] /\ s[6] = t[6] /\ s[7] = t[7]
        BY <1>2, <1>4 DEF Operands, Isetp
    <2> QED  BY <1>4, <2>1 DEF Value, DestinationValues, Isetp, h_plop3_lut
<1>5. CASE i.op = "VIMNMX"
    <2>1. s[4] = t[4] /\ s[5] = t[5] /\ s[6] = t[6]
        BY <1>2, <1>5 DEF Operands, Isetp
    <2> QED  BY <1>5, <2>1 DEF Value, DestinationValues, Isetp, h_vimnmx
<1>6. CASE i.op \notin Isetp \cup {"PLOP3.LUT", "VIMNMX"}
    <2>1. Value(i.op, i.ops, s) = Handler(i.op, i.ops, s) /\ Value(i.op, i.ops, t) = Handler(i.op, i.ops, t)
        BY <1>6 DEF Value, DestinationValues, Isetp
    <2>2. CASE i.op \in {"MOV", "ULDC", "P2R", "MUFU.RCP", "IABS"}
        <3>1. s[2] = t[2]
            BY <1>2, <2>2 DEF Operands, Isetp
        <3> QED  BY <2>1, <2>2, <3>1 DEF Handler, h_iabs
    <2>3. CASE i.op \in {"UP2UR", "VIADD"}
        <3>1. s[2] = t[2] /\ s[3] = t[3] /\ (i.op = "UP2UR" => s[4] = t[4])
            BY <1>2, <2>3 DEF Operands, Isetp
        <3> QED  BY <2>1, <2>3, <3>1 DEF Handler, h_viadd
    <2>4. CASE i.op \in {"IADD3", "IMAD", "IMNMX.U32", "SEL", "SHF.R.U32.HI", "SHF.R.S32.HI",
                         "SHF.L.U32", "LEA", "LEA.HI.SX32"}
        <3>1. s[2] = t[2] /\ s[3] = t[3] /\ s[4] = t[4]
            BY <1>2, <2>4 DEF Operands, Isetp
        <3> QED  BY <2>1, <2>4, <3>1 DEF Handler, h_iadd3, h_imad, h_imnmx_u32, h_sel,
                        h_shf_r_u32_hi, h_shf_l_u32, h_lea, h_lea_hi_sx32
    <2>5. CASE i.op \in {"VIADDMNMX", "LEA.HI", "LOP3.LUT"}
        <3>1. s[2] = t[2] /\ s[3] = t[3] /\ s[4] = t[4] /\ s[5] = t[5]
            BY <1>2, <2>5 DEF Operands, Isetp
        <3> QED  BY <2>1, <2>5, <3>1 DEF Handler, h_viaddmnmx, h_lea_hi, h_lop3_lut
    <2>6. CASE i.op = "IMAD.HI.U32"
        <3>1. s[1] = t[1] /\ s[2] = t[2] /\ s[3] = t[3] /\ s[4] = t[4]
            BY <1>2, <2>6 DEF Operands, Isetp
        <3> QED  BY <2>1, <2>6, <3>1 DEF Handler, h_imad_hi_u32
    <2>7. CASE i.op = "SYNCS.PHASECHK"
        BY <2>1, <2>7 DEF Handler
    <2> QED  BY <1>1, <1>6, <2>2, <2>3, <2>4, <2>5, <2>6, <2>7 DEF DataOps, PredicateOps
<1> QED  BY <1>3, <1>4, <1>5, <1>6

\* Two threads in which an instruction reads the same do the same at it.
LEMMA SameReadSameWritten ==
    ASSUME NEW i, IsInstruction(i), NEW a, NEW b, \A r \in UsesOf(i) : a[r] = b[r],
           NEW r \in Registers, IsPredicated(i) \/ r \notin DefsOf(i) => a[r] = b[r]
    PROVE  Updated(a, Emitted(a, i))[r] = Updated(b, Emitted(b, i))[r]
<1>1. /\ Updated(a, Emitted(a, i))[r] =
            IF r \in Destination(i) /\ Pred(a, i) THEN Value(i.op, i.ops, Values(a, i)) ELSE a[r]
      /\ Updated(b, Emitted(b, i))[r] =
            IF r \in Destination(i) /\ Pred(b, i) THEN Value(i.op, i.ops, Values(b, i)) ELSE b[r]
    BY RegisterAfter
<1>2. Pred(a, i) <=> Pred(b, i)
    BY UsesAre DEF Pred
<1>3. ~ IsPredicated(i) => Pred(a, i)
    BY DEF Pred
<1>4. Value(i.op, i.ops, Values(a, i)) = Value(i.op, i.ops, Values(b, i))
    <2>1. \A k \in Read(i) : Operand(a, i.ops[k]) = Operand(b, i.ops[k])
        <3> SUFFICES ASSUME NEW k \in Read(i) PROVE Operand(a, i.ops[k]) = Operand(b, i.ops[k])
            OBVIOUS
        <3>1. i.ops[k].kind = "reg" => a[i.ops[k].reg] = b[i.ops[k].reg]
            BY UsesAre
        <3> QED  BY <3>1 DEF Operand
    <2>2. \A k \in Read(i) : Values(a, i)[k] = Values(b, i)[k]
        BY <2>1 DEF Values, Read
    <2> QED  BY <2>2, ValueDepends
<1>5. DefsOf(i) = Destination(i)
    BY DefsAre
<1> QED  BY <1>1, <1>2, <1>3, <1>4, <1>5

-----------------------------------------------------------------------------
(* Slices of the code, and what running them leaves.                       *)

\* The equations of the positions kept for the last, down to lo.
KeptDownTo(g, last, lo) ==
    \A p \in lo .. last : g[p] = (p = last \/ \E q \in p + 1 .. last : g[q] /\ Reaches(p, q))

LEMMA KeptExist ==
    ASSUME NEW last \in Nat, NEW n \in Nat
    PROVE  \E g : KeptDownTo(g, last, last - n)
<1> DEFINE T == {m \in Nat : ~ \E g : KeptDownTo(g, last, last - m)}
<1> SUFFICES ASSUME T # {} PROVE FALSE
    OBVIOUS
<1>1. PICK m \in T : \A y \in T : m <= y
    <2>1. T \subseteq Nat
        OBVIOUS
    <2> HIDE DEF T
    <2> QED  BY <2>1, LeastNat
<1>2. m # 0
    <2>1. KeptDownTo([p \in {last} |-> TRUE], last, last - 0)
        <3>1. (last - 0) .. last = {last}
            OBVIOUS
        <3> QED  BY <3>1 DEF KeptDownTo
    <2> QED  BY <2>1
<1>3. m \in Nat /\ m - 1 \in Nat /\ m - 1 \notin T
    BY <1>1, <1>2
<1> DEFINE lo == last - m
<1>4. lo \in Int /\ last - (m - 1) = lo + 1 /\ lo < last
    BY <1>2, <1>3
<1>5. PICK g : KeptDownTo(g, last, lo + 1)
    BY <1>3, <1>4
<1> DEFINE h == [p \in lo .. last |->
                    IF p = lo THEN \E q \in lo + 1 .. last : g[q] /\ Reaches(lo, q) ELSE g[p]]
<1>6. KeptDownTo(h, last, lo)
    <2> SUFFICES ASSUME NEW p \in lo .. last
                 PROVE  h[p] = (p = last \/ \E q \in p + 1 .. last : h[q] /\ Reaches(p, q))
        BY DEF KeptDownTo
    <2>1. \A q \in p + 1 .. last : h[q] = g[q]
        <3>1. \A q \in p + 1 .. last : q \in lo .. last /\ q # lo
            BY <1>4
        <3> HIDE DEF lo
        <3> QED  BY <3>1
    <2>2. CASE p = lo
        <3>1. h[p] = \E q \in p + 1 .. last : g[q] /\ Reaches(p, q)
            BY <2>2
        <3>2. p # last
            BY <1>4, <2>2
        <3> HIDE DEF h, lo
        <3>3. h[p] = \E q \in p + 1 .. last : h[q] /\ Reaches(p, q)
            BY <2>1, <3>1
        <3> QED  BY <3>2, <3>3
    <2>3. CASE p # lo
        <3>1. h[p] = g[p] /\ p \in lo + 1 .. last
            BY <1>4, <2>3
        <3>2. g[p] = (p = last \/ \E q \in p + 1 .. last : g[q] /\ Reaches(p, q))
            BY <1>5, <3>1 DEF KeptDownTo
        <3> HIDE DEF h, lo
        <3> QED  BY <2>1, <3>1, <3>2
    <2> QED  BY <2>2, <2>3
<1> QED  BY <1>3, <1>6

LEMMA KeptForIs ==
    ASSUME NEW last \in Nat \ {0}
    PROVE  /\ KeptFor(last) \subseteq 1 .. last /\ last \in KeptFor(last)
           /\ \A p \in 1 .. last : \A q \in KeptFor(last) :
                 p < q /\ Reaches(p, q) => p \in KeptFor(last)
<1> DEFINE Eq(g) == g = [p \in 1 .. last |->
                            p = last \/ \E q \in p + 1 .. last : g[q] /\ Reaches(p, q)]
           kept == CHOOSE g : Eq(g)
<1>1. PICK g : KeptDownTo(g, last, 1)
    <2>1. last - 1 \in Nat /\ last - (last - 1) = 1
        OBVIOUS
    <2>2. \E g : KeptDownTo(g, last, last - (last - 1))
        BY <2>1, KeptExist
    <2> QED  BY <2>1, <2>2
<1> DEFINE h == [p \in 1 .. last |-> g[p]]
<1>2. Eq(h)
    <2>1. ASSUME NEW p \in 1 .. last
          PROVE  h[p] = (p = last \/ \E q \in p + 1 .. last : h[q] /\ Reaches(p, q))
        <3>1. \A q \in p + 1 .. last : h[q] = g[q]
            OBVIOUS
        <3>2. h[p] = g[p]
            OBVIOUS
        <3> HIDE DEF h
        <3> QED  BY <1>1, <3>1, <3>2 DEF KeptDownTo
    <2>2. h = [p \in 1 .. last |-> p = last \/ \E q \in p + 1 .. last : h[q] /\ Reaches(p, q)]
        BY <2>1
    <2> QED  BY <2>2
<1>3. KeptFor(last) = {p \in 1 .. last : kept[p]}
    BY DEF KeptFor
<1> HIDE DEF h
<1>4. Eq(kept)
    BY <1>2
<1> HIDE DEF kept
<1>5. \A p \in 1 .. last : kept[p] = (p = last \/ \E q \in p + 1 .. last : kept[q] /\ Reaches(p, q))
    BY <1>4
<1> HIDE DEF Eq
<1>6. ASSUME NEW p \in 1 .. last, NEW q \in KeptFor(last), p < q, Reaches(p, q)
      PROVE  p \in KeptFor(last)
    <2>1. q \in p + 1 .. last /\ kept[q]
        BY <1>3, <1>6
    <2>2. kept[p]
        BY <1>5, <1>6, <2>1
    <2> QED  BY <1>3, <2>2
<1>7. last \in KeptFor(last)
    <2>1. last \in 1 .. last
        OBVIOUS
    <2> QED  BY <1>3, <1>5, <2>1
<1> QED  BY <1>3, <1>6, <1>7

\* The equations of the registers after each position up to n.
RunUpTo(g, positions, n) ==
    \A p \in 0 .. n :
        g[p] = IF p = 0 THEN Start
               ELSE IF p \in positions THEN Updated(g[p - 1], Emitted(g[p - 1], prog[p]))
               ELSE g[p - 1]

LEMMA RunExist ==
    ASSUME NEW positions, NEW n \in Nat
    PROVE  \E g : RunUpTo(g, positions, n)
<1> DEFINE T == {m \in Nat : ~ \E g : RunUpTo(g, positions, m)}
<1> SUFFICES ASSUME T # {} PROVE FALSE
    OBVIOUS
<1>1. PICK m \in T : \A y \in T : m <= y
    <2>1. T \subseteq Nat
        OBVIOUS
    <2> HIDE DEF T
    <2> QED  BY <2>1, LeastNat
<1>2. m # 0
    <2>1. RunUpTo([p \in 0 .. 0 |-> Start], positions, 0)
        BY DEF RunUpTo
    <2> QED  BY <2>1
<1>3. m \in Nat /\ m - 1 \in Nat /\ m - 1 \notin T
    BY <1>1, <1>2
<1>4. PICK g : RunUpTo(g, positions, m - 1)
    BY <1>3
<1> DEFINE rs == g[m - 1]
           h == [p \in 0 .. m |->
                    IF p # m THEN g[p]
                    ELSE IF m \in positions THEN Updated(rs, Emitted(rs, prog[m])) ELSE rs]
<1>5. RunUpTo(h, positions, m)
    <2> SUFFICES ASSUME NEW p \in 0 .. m
                 PROVE  h[p] = IF p = 0 THEN Start
                               ELSE IF p \in positions THEN Updated(h[p - 1], Emitted(h[p - 1], prog[p]))
                               ELSE h[p - 1]
        BY DEF RunUpTo
    <2>1. p # 0 => p - 1 \in 0 .. m - 1 /\ h[p - 1] = g[p - 1]
        BY <1>3
    <2>2. CASE p = m
        <3>1. h[p] = IF m \in positions THEN Updated(rs, Emitted(rs, prog[m])) ELSE rs
            BY <2>2
        <3> HIDE DEF h
        <3> QED  BY <1>2, <2>1, <2>2, <3>1
    <2>3. CASE p # m
        <3>1. h[p] = g[p] /\ p \in 0 .. m - 1
            BY <1>3, <2>3
        <3> HIDE DEF h
        <3> QED  BY <1>4, <2>1, <3>1 DEF RunUpTo
    <2> QED  BY <2>2, <2>3
<1> QED  BY <1>3, <1>5

LEMMA RunOfIs ==
    ASSUME NEW positions, Len(prog) \in Nat
    PROVE  \E g : RunUpTo(g, positions, Len(prog)) /\ RunOf(positions) = g[Len(prog)]
<1> DEFINE n == Len(prog)
           Eq(g) == g = [p \in 0 .. n |->
                            IF p = 0 THEN Start
                            ELSE IF p \in positions THEN Updated(g[p - 1], Emitted(g[p - 1], prog[p]))
                            ELSE g[p - 1]]
           run == CHOOSE g : Eq(g)
<1>1. PICK g : RunUpTo(g, positions, n)
    BY RunExist
<1> DEFINE h == [p \in 0 .. n |-> g[p]]
<1>2. Eq(h)
    <2>1. ASSUME NEW p \in 0 .. n
          PROVE  h[p] = IF p = 0 THEN Start
                        ELSE IF p \in positions THEN Updated(h[p - 1], Emitted(h[p - 1], prog[p]))
                        ELSE h[p - 1]
        <3>1. h[p] = g[p] /\ (p # 0 => h[p - 1] = g[p - 1])
            OBVIOUS
        <3> HIDE DEF h
        <3> QED  BY <1>1, <3>1 DEF RunUpTo
    <2>2. h = [p \in 0 .. n |->
                  IF p = 0 THEN Start
                  ELSE IF p \in positions THEN Updated(h[p - 1], Emitted(h[p - 1], prog[p]))
                  ELSE h[p - 1]]
        BY <2>1
    <2> QED  BY <2>2
<1>3. RunOf(positions) = run[n]
    BY DEF RunOf
<1> HIDE DEF h
<1>4. Eq(run)
    BY <1>2
<1> HIDE DEF run
<1>5. RunUpTo(run, positions, n)
    BY <1>4 DEF RunUpTo
<1> QED  BY <1>3, <1>5

\* The value that r has after position p reaches an instruction that is kept.
Live(r, p, kept) ==
    \E q \in kept :
        /\ p < q /\ r \in UsesOf(prog[q])
        /\ \A m \in p + 1 .. q - 1 : r \in DefsOf(prog[m]) => IsPredicated(prog[m])

AllInstructions(last) == \A p \in 1 .. last : IsInstruction(prog[p])

\* What is kept keeps what reaches it.
ClosedSlice(kept, last) ==
    /\ kept \subseteq 1 .. last
    /\ \A p \in 1 .. last : \A q \in kept : p < q /\ Reaches(p, q) => p \in kept

AgreeOnLive(a, b, kept, last) ==
    \A n \in 0 .. last - 1 : \A r : Live(r, n, kept) => a[n][r] = b[n][r]

\* Both runs agree on the registers that are live.
LEMMA LiveAgree ==
    ASSUME NEW last \in Nat, AllInstructions(last), NEW kept, ClosedSlice(kept, last),
           NEW slice, slice = kept \ {last}, NEW all, all = 1 .. last - 1,
           NEW a, RunUpTo(a, slice, last), NEW b, RunUpTo(b, all, last)
    PROVE  AgreeOnLive(a, b, kept, last)
<1> DEFINE Wrong(x, p) == Live(x, p, kept) /\ a[p][x] # b[p][x]
           T == {p \in 0 .. last - 1 : \E x : Wrong(x, p)}
<1> SUFFICES ASSUME T # {} PROVE FALSE
    BY DEF AgreeOnLive
<1>2. PICK p \in T : \A y \in T : p <= y
    <2>1. T \subseteq Nat
        OBVIOUS
    <2> HIDE DEF T
    <2> QED  BY <2>1, LeastNat
<1>3. PICK x : Wrong(x, p)
    BY <1>2
<1>4. p \in 0 .. last - 1 /\ p # 0 /\ last \in Nat \ {0}
    <2>1. p = 0 => a[p] = Start /\ b[p] = Start
        BY DEF RunUpTo
    <2> QED  BY <1>2, <1>3, <2>1
<1>6. \A y : Live(y, p - 1, kept) => a[p - 1][y] = b[p - 1][y]
    <2>1. p - 1 \in 0 .. last - 1 /\ p - 1 \notin T
        BY <1>2, <1>4
    <2> QED  BY <2>1
<1> DEFINE i == prog[p]
<1>7. /\ IsInstruction(i) /\ p \in 1 .. last - 1 /\ p \in 1 .. last
      /\ a[p] = IF p \in kept THEN Updated(a[p - 1], Emitted(a[p - 1], i)) ELSE a[p - 1]
      /\ b[p] = Updated(b[p - 1], Emitted(b[p - 1], i))
    <2>1. p \in 1 .. last - 1 /\ p \in 1 .. last /\ p \in 0 .. last /\ p # last
        BY <1>4
    <2> QED  BY <1>4, <2>1 DEF RunUpTo, AllInstructions
<1>8. PICK q \in kept : /\ p < q /\ x \in UsesOf(prog[q])
                        /\ \A m \in p + 1 .. q - 1 : x \in DefsOf(prog[m]) => IsPredicated(prog[m])
    BY <1>3 DEF Live
<1>9. q \in 1 .. last /\ x \in Registers
    BY <1>8, UsesAre DEF ClosedSlice, AllInstructions
<1> HIDE DEF i, T
<1>10. x \notin DefsOf(i) \/ IsPredicated(i) => a[p - 1][x] = b[p - 1][x]
    <2> SUFFICES ASSUME x \notin DefsOf(i) \/ IsPredicated(i) PROVE Live(x, p - 1, kept)
        BY <1>6
    <2>1. \A m \in (p - 1) + 1 .. q - 1 : x \in DefsOf(prog[m]) => IsPredicated(prog[m])
        <3>1. \A m \in (p - 1) + 1 .. q - 1 : m = p \/ m \in p + 1 .. q - 1
            BY <1>4, <1>9
        <3> QED  BY <1>8, <3>1 DEF i
    <2>2. p - 1 < q
        BY <1>4, <1>8, <1>9
    <2> QED  BY <1>8, <2>1, <2>2 DEF Live
<1>11. CASE x \in DefsOf(i)
    <2>1. p \in kept
        <3>1. Reaches(p, q)
            BY <1>8, <1>11 DEF Reaches, i
        <3> QED  BY <1>7, <1>8, <3>1 DEF ClosedSlice
    <2>2. ASSUME NEW y \in UsesOf(i) PROVE a[p - 1][y] = b[p - 1][y]
        <3>1. (p - 1) + 1 .. p - 1 = {} /\ p - 1 < p
            BY <1>4
        <3>2. Live(y, p - 1, kept)
            BY <2>1, <3>1 DEF Live, i
        <3> QED  BY <1>6, <3>2
    <2>3. a[p][x] = b[p][x]
        BY <1>7, <1>9, <1>10, <2>1, <2>2, SameReadSameWritten
    <2> QED  BY <1>3, <2>3
<1>12. CASE x \notin DefsOf(i)
    <2>1. x \notin Destination(i)
        BY <1>7, <1>12, DefsAre
    <2>2. \A rs : Updated(rs, Emitted(rs, i))[x] = rs[x]
        <3> SUFFICES ASSUME NEW rs PROVE Updated(rs, Emitted(rs, i))[x] = rs[x]
            OBVIOUS
        <3>1. DOMAIN Emitted(rs, i) = Destination(i)
            BY <1>7, EmittedIs
        <3> QED  BY <1>9, <2>1, <3>1, UpdatedIs
    <2>3. a[p][x] = b[p][x]
        BY <1>7, <1>10, <1>12, <2>2
    <2> QED  BY <1>3, <2>3
<1> QED  BY <1>11, <1>12

\* For all code: an instruction finds the values it reads unchanged when the
\* code before it is sliced for it, by the tables of cfg.py.
THEOREM SliceKeepsWhatIsRead == Spec => []SliceKeepsValues
<1>1. TypeOK => SliceKeepsValues
    <2> SUFFICES ASSUME TypeOK, prog # <<>>, NEW r \in UsesOf(prog[Len(prog)])
                 PROVE  RunOf(KeptFor(Len(prog)) \ {Len(prog)})[r] = RunOf(1 .. Len(prog) - 1)[r]
        BY DEF SliceKeepsValues
    <2> DEFINE last == Len(prog)
               kept == KeptFor(last)
               slice == kept \ {last}
               all == 1 .. last - 1
    <2>1. prog \in Seq(Instructions) /\ last \in Nat /\ last # 0 /\ DOMAIN prog = 1 .. last
        BY LenProperties, EmptySeq DEF TypeOK
    <2>2. AllInstructions(last)
        BY <2>1, HandlersAssumption DEF AllInstructions
    <2>3. PICK a : RunUpTo(a, slice, last) /\ RunOf(slice) = a[last]
        BY <2>1, RunOfIs
    <2>4. PICK b : RunUpTo(b, all, last) /\ RunOf(all) = b[last]
        BY <2>1, RunOfIs
    <2>5. a[last] = a[last - 1] /\ b[last] = b[last - 1]
        <3>1. last \in 0 .. last /\ last # 0 /\ last \notin all /\ last \notin slice
            BY <2>1
        <3> QED  BY <2>3, <2>4, <3>1 DEF RunUpTo
    <2>6. Live(r, last - 1, kept)
        <3>1. last \in kept
            BY <2>1, KeptForIs
        <3>2. (last - 1) + 1 .. last - 1 = {} /\ last - 1 < last
            BY <2>1
        <3> QED  BY <3>1, <3>2 DEF Live
    <2>7. a[last - 1][r] = b[last - 1][r]
        <3>1. last - 1 \in 0 .. last - 1 /\ slice = kept \ {last} /\ all = 1 .. last - 1
            BY <2>1
        <3>2. ClosedSlice(kept, last)
            BY <2>1, KeptForIs DEF ClosedSlice
        <3> HIDE DEF last, kept, slice, all
        <3>3. AgreeOnLive(a, b, kept, last)
            BY <2>1, <2>2, <2>3, <2>4, <3>1, <3>2, LiveAgree
        <3> QED  BY <2>6, <3>1, <3>3 DEF AgreeOnLive
    <2> QED  BY <2>3, <2>4, <2>5, <2>7
<1> QED  BY <1>1, HandlersTypeOK, PTL
=============================================================================

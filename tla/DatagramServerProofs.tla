-------------------------- MODULE DatagramServerProofs --------------------------
(***************************************************************************)
(* Proofs about the datagram server.  The parity bit refuses a byte with a  *)
(* damaged bit and the Hamming code repairs it, so that no text is taken    *)
(* for another one; and the conversation goes through the phases of         *)
(* DatagramServerInv, in which the binary search always has an interval     *)
(* that the guesses left can search.                                        *)
(***************************************************************************)
EXTENDS DatagramServerInv, FiniteSetTheorems, NaturalsInduction, WellFoundedInduction, TLAPS

-----------------------------------------------------------------------------
(* Parities. *)

(* One more element changes the parity of a set.                            *)
LEMMA OneMoreParity ==
    ASSUME NEW S, IsFiniteSet(S), NEW p, p \notin S
    PROVE  Cardinality(S \cup {p}) % 2 = 1 - (Cardinality(S) % 2)
<1>1. Cardinality(S) \in Nat
    BY FS_CardinalityType
<1>2. Cardinality(S \cup {p}) = Cardinality(S) + 1
    BY FS_AddElement
<1> QED BY <1>1, <1>2

LEMMA XorType == ASSUME NEW D, IsFiniteSet(D), NEW b PROVE Xor(b, D) \in Bit
<1>1. IsFiniteSet({k \in D : b[k] = 1})
    BY FS_Subset
<1>2. Cardinality({k \in D : b[k] = 1}) \in Nat
    BY <1>1, FS_CardinalityType
<1> QED BY <1>2 DEF Xor, Bit

(* A check bit over D is another when one bit in D is.                      *)
LEMMA FlipInside ==
    ASSUME NEW D, IsFiniteSet(D), NEW p \in D, NEW b, NEW e,
           b[p] \in Bit, e[p] = 1 - b[p],
           \A k \in D : k # p => e[k] = b[k]
    PROVE  Xor(e, D) = 1 - Xor(b, D)
<1> DEFINE B == {k \in D : b[k] = 1}
           E == {k \in D : e[k] = 1}
<1>1. IsFiniteSet(B) /\ IsFiniteSet(E)
    BY FS_Subset
<1>2. Cardinality(B) \in Nat /\ Cardinality(E) \in Nat
    BY <1>1, FS_CardinalityType
<1>3. CASE b[p] = 1
    <2>1. e[p] = 0
        BY <1>3
    <2>2. p \notin E /\ B = E \cup {p}
        BY <1>3, <2>1
    <2>3. Cardinality(B) % 2 = 1 - (Cardinality(E) % 2)
        BY <1>1, <2>2, OneMoreParity
    <2> QED BY <1>2, <2>3 DEF Xor
<1>4. CASE b[p] = 0
    <2>1. e[p] = 1
        BY <1>4
    <2>2. p \notin B /\ E = B \cup {p}
        BY <1>4, <2>1
    <2>3. Cardinality(E) % 2 = 1 - (Cardinality(B) % 2)
        BY <1>1, <2>2, OneMoreParity
    <2> QED BY <2>3 DEF Xor
<1> QED BY <1>3, <1>4 DEF Bit

(* And the same when no bit in D is.                                        *)
LEMMA FlipOutside ==
    ASSUME NEW D, NEW b, NEW e, \A k \in D : e[k] = b[k]
    PROVE  Xor(e, D) = Xor(b, D)
<1>1. {k \in D : e[k] = 1} = {k \in D : b[k] = 1}
    OBVIOUS
<1> QED BY <1>1 DEF Xor

LEMMA SmallSets ==
    /\ IsFiniteSet(0 .. 7)
    /\ IsFiniteSet({0, 1, 3, 4, 6}) /\ IsFiniteSet({0, 2, 3, 5, 6})
    /\ IsFiniteSet({1, 2, 3, 7}) /\ IsFiniteSet({4, 5, 6, 7})
<1>1. IsFiniteSet(0 .. 7)
    BY FS_Interval, 0 \in Int, 7 \in Int
<1> QED BY <1>1, FS_Subset

(* A character's parity bit refuses it when one bit of it is damaged.       *)
LEMMA ParityChanges ==
    ASSUME NEW b \in Byte, NEW p \in 0 .. 7
    PROVE  parity(b) \in Bit /\ parity(Flip(b, p)) = 1 - parity(b)
<1>1. PICK e : e = [b EXCEPT ![p] = 1 - @]
    OBVIOUS
<1>2. /\ b[p] \in Bit /\ e[p] = 1 - b[p]
      /\ \A k \in 0 .. 7 : k # p => e[k] = b[k]
      /\ Flip(b, p) = e
    BY <1>1 DEF Byte, Flip
<1> QED BY <1>2, SmallSets, XorType, FlipInside DEF parity

-----------------------------------------------------------------------------
(* The Hamming code. *)

(* What coded_byte and data_bits read and write.                            *)
LEMMA CodedBits ==
    ASSUME NEW b \in Byte, NEW c, c = coded_byte(b)
    PROVE  /\ c \in [0 .. 15 -> Bit]
           /\ c[4] = P1(b) /\ c[5] = P2(b) /\ c[7] = P4(b) /\ c[11] = P8(b)
           /\ c[6] = b[0] /\ c[8] = b[1] /\ c[9] = b[2] /\ c[10] = b[3]
           /\ c[12] = b[4] /\ c[13] = b[5] /\ c[14] = b[6] /\ c[15] = b[7]
<1>1. P1(b) \in Bit /\ P2(b) \in Bit /\ P4(b) \in Bit /\ P8(b) \in Bit
    BY SmallSets, XorType DEF P1, P2, P4, P8
<1>2. \A k \in 0 .. 7 : b[k] \in Bit
    BY DEF Byte
<1>3. PICK p1, p2, p4, p8 : p1 = P1(b) /\ p2 = P2(b) /\ p4 = P4(b) /\ p8 = P8(b)
    OBVIOUS
<1>4. c = [k \in 0 .. 15 |->
            CASE k < 4 -> 0
              [] k = 4 -> p1
              [] k = 5 -> p2
              [] k = 6 -> b[0]
              [] k = 7 -> p4
              [] k \in 8 .. 10 -> b[k - 7]
              [] k = 11 -> p8
              [] k > 11 -> b[k - 8]]
    BY <1>3 DEF coded_byte
<1>5. /\ c[4] = p1 /\ c[5] = p2 /\ c[7] = p4 /\ c[11] = p8
      /\ c[6] = b[0] /\ c[8] = b[1] /\ c[9] = b[2] /\ c[10] = b[3]
      /\ c[12] = b[4] /\ c[13] = b[5] /\ c[14] = b[6] /\ c[15] = b[7]
      /\ c[0] = 0 /\ c[1] = 0 /\ c[2] = 0 /\ c[3] = 0
      /\ DOMAIN c = 0 .. 15
    BY <1>4
<1>6. \A k \in 0 .. 15 : c[k] \in Bit
    BY <1>1, <1>2, <1>3, <1>5 DEF Bit
<1>7. c \in [0 .. 15 -> Bit]
    BY <1>4, <1>6
<1> QED BY <1>3, <1>5, <1>7

LEMMA DataBits ==
    ASSUME NEW e
    PROVE  /\ data_bits(e) = [k \in 0 .. 7 |-> data_bits(e)[k]]
           /\ data_bits(e)[0] = e[6] /\ data_bits(e)[1] = e[8]
           /\ data_bits(e)[2] = e[9] /\ data_bits(e)[3] = e[10]
           /\ data_bits(e)[4] = e[12] /\ data_bits(e)[5] = e[13]
           /\ data_bits(e)[6] = e[14] /\ data_bits(e)[7] = e[15]
    BY DEF data_bits

(* A bit of the byte changes just the check bits over it.                   *)
LEMMA ChecksOfFlipped ==
    ASSUME NEW b \in Byte, NEW q \in 0 .. 7, NEW d, d[q] = 1 - b[q],
           \A k \in 0 .. 7 : k # q => d[k] = b[k]
    PROVE  /\ P1(d) = IF q \in {0, 1, 3, 4, 6} THEN 1 - P1(b) ELSE P1(b)
           /\ P2(d) = IF q \in {0, 2, 3, 5, 6} THEN 1 - P2(b) ELSE P2(b)
           /\ P4(d) = IF q \in {1, 2, 3, 7} THEN 1 - P4(b) ELSE P4(b)
           /\ P8(d) = IF q \in {4, 5, 6, 7} THEN 1 - P8(b) ELSE P8(b)
<1>1. b[q] \in Bit
    BY DEF Byte
<1>2. ASSUME NEW D \in SUBSET (0 .. 7), IsFiniteSet(D)
      PROVE  Xor(d, D) = IF q \in D THEN 1 - Xor(b, D) ELSE Xor(b, D)
    <2>1. CASE q \in D
        BY <1>1, <1>2, <2>1, FlipInside
    <2>2. CASE q \notin D
        BY <1>2, <2>2, FlipOutside
    <2> QED BY <2>1, <2>2
<1>3. /\ {0, 1, 3, 4, 6} \in SUBSET (0 .. 7) /\ {0, 2, 3, 5, 6} \in SUBSET (0 .. 7)
      /\ {1, 2, 3, 7} \in SUBSET (0 .. 7) /\ {4, 5, 6, 7} \in SUBSET (0 .. 7)
    OBVIOUS
<1>4. P1(d) = IF q \in {0, 1, 3, 4, 6} THEN 1 - P1(b) ELSE P1(b)
    BY <1>2, <1>3, SmallSets DEF P1
<1>5. P2(d) = IF q \in {0, 2, 3, 5, 6} THEN 1 - P2(b) ELSE P2(b)
    BY <1>2, <1>3, SmallSets DEF P2
<1>6. P4(d) = IF q \in {1, 2, 3, 7} THEN 1 - P4(b) ELSE P4(b)
    BY <1>2, <1>3, SmallSets DEF P4
<1>7. P8(d) = IF q \in {4, 5, 6, 7} THEN 1 - P8(b) ELSE P8(b)
    BY <1>2, <1>3, SmallSets DEF P8
<1> QED BY <1>4, <1>5, <1>6, <1>7

LEMMA ChecksOfSame ==
    ASSUME NEW b, NEW d, \A k \in 0 .. 7 : d[k] = b[k]
    PROVE  P1(d) = P1(b) /\ P2(d) = P2(b) /\ P4(d) = P4(b) /\ P8(d) = P8(b)
<1>1. \A D \in SUBSET (0 .. 7) : Xor(d, D) = Xor(b, D)
    BY FlipOutside
<1>2. /\ {0, 1, 3, 4, 6} \in SUBSET (0 .. 7) /\ {0, 2, 3, 5, 6} \in SUBSET (0 .. 7)
      /\ {1, 2, 3, 7} \in SUBSET (0 .. 7) /\ {4, 5, 6, 7} \in SUBSET (0 .. 7)
    OBVIOUS
<1> QED BY <1>1, <1>2 DEF P1, P2, P4, P8

(* The sum of the checks that fail names the damaged bit, if it is one of   *)
(* the twelve that are read.                                                *)
LEMMA DecodedBy ==
    ASSUME NEW e, NEW s1 \in Bit, NEW s2 \in Bit, NEW s4 \in Bit, NEW s8 \in Bit,
           NEW d, d = data_bits(e),
           s1 = (IF P1(d) # e[4] THEN 1 ELSE 0), s2 = (IF P2(d) # e[5] THEN 1 ELSE 0),
           s4 = (IF P4(d) # e[7] THEN 1 ELSE 0), s8 = (IF P8(d) # e[11] THEN 1 ELSE 0),
           NEW sum, sum = s1 + 2 * s2 + 4 * s4 + 8 * s8
    PROVE  decoded_byte(e) = data_bits(IF sum = 0 THEN e ELSE Flip(e, Place(sum)))
<1>1. (IF P1(d) # e[4] THEN 1 ELSE 0) + (IF P2(d) # e[5] THEN 2 ELSE 0)
        + (IF P4(d) # e[7] THEN 4 ELSE 0) + (IF P8(d) # e[11] THEN 8 ELSE 0) = sum
    BY DEF Bit
<1> QED BY <1>1 DEF decoded_byte

(* A code word is decoded to its byte though any one of its bits is wrong.  *)
LEMMA HammingCorrects ==
    ASSUME NEW b \in Byte, NEW p \in 0 .. 16
    PROVE  decoded_byte(Flip(coded_byte(b), p)) = b
<1>1. PICK c \in [0 .. 15 -> Bit] : c = coded_byte(b)
    BY CodedBits
<1>2. /\ c[4] = P1(b) /\ c[5] = P2(b) /\ c[7] = P4(b) /\ c[11] = P8(b)
      /\ c[6] = b[0] /\ c[8] = b[1] /\ c[9] = b[2] /\ c[10] = b[3]
      /\ c[12] = b[4] /\ c[13] = b[5] /\ c[14] = b[6] /\ c[15] = b[7]
    BY <1>1, CodedBits
<1>3. PICK e : e = Flip(c, p)
    OBVIOUS
<1>4. /\ p \in 0 .. 15 => e = [c EXCEPT ![p] = 1 - @]
      /\ p = 16 => e = c
    <2>1. DOMAIN c = 0 .. 15 /\ ~(16 \in 0 .. 15)
        BY <1>1
    <2>2. CASE p \in 0 .. 15
        BY <1>3, <2>1, <2>2 DEF Flip
    <2>3. CASE p = 16
        BY <1>3, <2>1, <2>3 DEF Flip
    <2> QED BY <2>2, <2>3
<1>5. /\ \A k \in 0 .. 15 : k # p => e[k] = c[k]
      /\ p \in 0 .. 15 => e[p] = 1 - c[p]
      /\ e \in [0 .. 15 -> Bit]
    BY <1>4 DEF Bit
<1>6. PICK d : d = data_bits(e)
    OBVIOUS
<1>7. /\ d[0] = e[6] /\ d[1] = e[8] /\ d[2] = e[9] /\ d[3] = e[10]
      /\ d[4] = e[12] /\ d[5] = e[13] /\ d[6] = e[14] /\ d[7] = e[15]
    BY <1>6, DataBits
<1>8. \A f : (/\ f[6] = c[6] /\ f[8] = c[8] /\ f[9] = c[9] /\ f[10] = c[10]
              /\ f[12] = c[12] /\ f[13] = c[13] /\ f[14] = c[14] /\ f[15] = c[15])
                => data_bits(f) = b
    <2>1. ASSUME NEW f,
                 f[6] = c[6], f[8] = c[8], f[9] = c[9], f[10] = c[10],
                 f[12] = c[12], f[13] = c[13], f[14] = c[14], f[15] = c[15]
          PROVE  data_bits(f) = b
        <3>1. \A k \in 0 .. 7 : data_bits(f)[k] = b[k]
            BY <1>2, <2>1, DataBits
        <3>2. b = [k \in 0 .. 7 |-> b[k]]
            BY DEF Byte
        <3> QED BY <3>1, <3>2, DataBits
    <2> QED BY <2>1
<1>9. p \in 0 .. 15 => Flip(e, p) = c
    <2>1. ASSUME p \in 0 .. 15 PROVE [e EXCEPT ![p] = 1 - @] = c
        BY <1>4, <1>5, <2>1 DEF Bit
    <2> QED BY <1>5, <2>1 DEF Flip
<1>10. PICK s1 \in Bit, s2 \in Bit, s4 \in Bit, s8 \in Bit :
            /\ s1 = (IF P1(d) # e[4] THEN 1 ELSE 0) /\ s2 = (IF P2(d) # e[5] THEN 1 ELSE 0)
            /\ s4 = (IF P4(d) # e[7] THEN 1 ELSE 0) /\ s8 = (IF P8(d) # e[11] THEN 1 ELSE 0)
    BY DEF Bit
<1>11. PICK sum : sum = s1 + 2 * s2 + 4 * s4 + 8 * s8
    OBVIOUS
<1>12. decoded_byte(e) = data_bits(IF sum = 0 THEN e ELSE Flip(e, Place(sum)))
    BY <1>6, <1>10, <1>11, DecodedBy
<1>13. /\ P1(b) \in Bit /\ P2(b) \in Bit /\ P4(b) \in Bit /\ P8(b) \in Bit
       /\ \A k \in 0 .. 7 : b[k] \in Bit
    BY <1>1, <1>2 DEF Byte
<1>14. CASE p \in {0, 1, 2, 3, 16}
    <2>1. \A k \in 0 .. 7 : d[k] = b[k]
        BY <1>2, <1>5, <1>7, <1>14
    <2>2. P1(d) = e[4] /\ P2(d) = e[5] /\ P4(d) = e[7] /\ P8(d) = e[11]
        BY <1>2, <1>5, <1>14, <2>1, ChecksOfSame
    <2>3. sum = 0
        BY <1>10, <1>11, <2>2
    <2>4. data_bits(e) = b
        BY <1>5, <1>8, <1>14
    <2> QED BY <1>1, <1>3, <1>12, <2>3, <2>4
<1>15. CASE p \in {4, 5, 7, 11}
    <2>1. \A k \in 0 .. 7 : d[k] = b[k]
        BY <1>2, <1>5, <1>7, <1>15
    <2>2. P1(d) = P1(b) /\ P2(d) = P2(b) /\ P4(d) = P4(b) /\ P8(d) = P8(b)
        BY <2>1, ChecksOfSame
    <2>3. /\ s1 = IF p = 4 THEN 1 ELSE 0
          /\ s2 = IF p = 5 THEN 1 ELSE 0
          /\ s4 = IF p = 7 THEN 1 ELSE 0
          /\ s8 = IF p = 11 THEN 1 ELSE 0
        BY <1>2, <1>5, <1>10, <1>13, <1>15, <2>2 DEF Bit
    <2>4. sum # 0 /\ Place(sum) = p
        BY <1>11, <1>15, <2>3 DEF Place
    <2> QED BY <1>1, <1>3, <1>8, <1>9, <1>12, <1>15, <2>4
<1>16. ASSUME NEW q \in 0 .. 7,
              p = CASE q = 0 -> 6 [] q \in 1 .. 3 -> q + 7 [] q \in 4 .. 7 -> q + 8
       PROVE  decoded_byte(Flip(coded_byte(b), p)) = b
    <2>1. d[q] = 1 - b[q] /\ \A k \in 0 .. 7 : k # q => d[k] = b[k]
        BY <1>2, <1>5, <1>7, <1>16
    <2>2. /\ P1(d) = IF q \in {0, 1, 3, 4, 6} THEN 1 - P1(b) ELSE P1(b)
          /\ P2(d) = IF q \in {0, 2, 3, 5, 6} THEN 1 - P2(b) ELSE P2(b)
          /\ P4(d) = IF q \in {1, 2, 3, 7} THEN 1 - P4(b) ELSE P4(b)
          /\ P8(d) = IF q \in {4, 5, 6, 7} THEN 1 - P8(b) ELSE P8(b)
        BY <2>1, ChecksOfFlipped
    <2>3. e[4] = P1(b) /\ e[5] = P2(b) /\ e[7] = P4(b) /\ e[11] = P8(b)
        BY <1>2, <1>5, <1>16
    <2>4. /\ s1 = IF q \in {0, 1, 3, 4, 6} THEN 1 ELSE 0
          /\ s2 = IF q \in {0, 2, 3, 5, 6} THEN 1 ELSE 0
          /\ s4 = IF q \in {1, 2, 3, 7} THEN 1 ELSE 0
          /\ s8 = IF q \in {4, 5, 6, 7} THEN 1 ELSE 0
        BY <1>10, <1>13, <2>2, <2>3 DEF Bit
    <2>5. sum # 0 /\ Place(sum) = p
        BY <1>11, <1>16, <2>4 DEF Place
    <2>6. p \in 0 .. 15
        BY <1>16
    <2> QED BY <1>1, <1>3, <1>8, <1>9, <1>12, <2>5, <2>6
<1>17. CASE p \in {6, 8, 9, 10, 12, 13, 14, 15}
    <2>1. \E q \in 0 .. 7 :
            p = CASE q = 0 -> 6 [] q \in 1 .. 3 -> q + 7 [] q \in 4 .. 7 -> q + 8
        BY <1>17
    <2> QED BY <1>16, <2>1
<1> QED BY <1>14, <1>15, <1>17

-----------------------------------------------------------------------------
(* Recursive functions.                                                     *)
(* A function that each step extends exists on every initial interval.      *)
(* A function on an initial interval that goes on as a step says.           *)
Steps(f, N, S, z, step) ==
    f \in [0 .. N -> S] /\ f[0] = z /\ \A n \in 1 .. N : f[n] = step[f[n - 1]][n]
LEMMA StepByStep ==
    ASSUME NEW N \in Nat, NEW S, NEW z \in S, NEW step \in [S -> [1 .. N -> S]]
    PROVE  \E f : Steps(f, N, S, z, step)
<1> DEFINE Upto(f, m) == f[0] = z /\ \A n \in 1 .. m : f[n] = step[f[n - 1]][n]
           Missing == {m \in 0 .. N : ~ \E f \in [0 .. N -> S] : Upto(f, m)}
           R == {ss \in Nat \X Nat : ss[1] < ss[2]}
<1>1. SUFFICES ASSUME Missing # {} PROVE FALSE
    <2>0. SUFFICES ASSUME Missing = {} PROVE \E f : Steps(f, N, S, z, step)
        OBVIOUS
    <2>1. \E f \in [0 .. N -> S] : Upto(f, N)
        <3>1. N \in 0 .. N
            OBVIOUS
        <3> QED BY <2>0, <3>1
    <2>2. PICK f \in [0 .. N -> S] : Upto(f, N)
        BY <2>1
    <2>3. Steps(f, N, S, z, step)
        BY <2>2 DEF Steps
    <2> QED BY <2>3
<1>2. PICK m \in Missing : \A k \in Missing : ~ (<<k, m>> \in R)
    <2>1. IsWellFoundedOn(R, Nat)
        BY NatLessThanWellFounded DEF OpToRel
    <2>2. Missing \subseteq Nat
        OBVIOUS
    <2> HIDE DEF R, Missing
    <2> QED BY <1>1, <2>1, <2>2, WFMin
<1>3. m \in 0 .. N /\ \A k \in 0 .. m - 1 : k \notin Missing
    <2>1. m \in 0 .. N
        OBVIOUS
    <2>2. ASSUME NEW k \in 0 .. m - 1, k \in Missing PROVE FALSE
        <3>1. ~ (<<k, m>> \in R)
            BY <1>2, <2>2
        <3>2. k \in Nat /\ m \in Nat /\ k < m
            BY <2>1
        <3> QED BY <3>1, <3>2
    <2> QED BY <2>1, <2>2
<1>4. CASE m = 0
    <2>1. [n \in 0 .. N |-> z] \in [0 .. N -> S] /\ Upto([n \in 0 .. N |-> z], 0)
        OBVIOUS
    <2> QED BY <1>4, <2>1
<1>5. CASE m # 0
    <2>1. PICK f \in [0 .. N -> S] : Upto(f, m - 1)
        <3>1. m - 1 \in 0 .. m - 1 /\ m - 1 \in 0 .. N
            BY <1>3, <1>5
        <3>2. m - 1 \notin Missing
            BY <1>3, <3>1
        <3> QED BY <3>1, <3>2
    <2>2. step[f[m - 1]][m] \in S
        BY <1>3, <1>5
    <2>3. PICK g \in [0 .. N -> S] : g = [f EXCEPT ![m] = step[f[m - 1]][m]]
        BY <2>2
    <2>4. g[m] = step[f[m - 1]][m] /\ \A n \in 0 .. N : n # m => g[n] = f[n]
        BY <1>3, <2>3
    <2>5. g[0] = z /\ g[m - 1] = f[m - 1]
        BY <1>3, <1>5, <2>1, <2>4
    <2>6. ASSUME NEW n \in 1 .. m PROVE g[n] = step[g[n - 1]][n]
        <3>1. CASE n = m
            BY <2>4, <2>5, <3>1
        <3>2. CASE n # m
            <4>1. n \in 1 .. m - 1 /\ n \in 0 .. N /\ n - 1 \in 0 .. N /\ n - 1 # m
                BY <1>3, <3>2
            <4> QED BY <2>1, <2>4, <3>2, <4>1
        <3> QED BY <3>1, <3>2
    <2>7. Upto(g, m)
        BY <2>5, <2>6
    <2> QED BY <2>7
<1> QED BY <1>4, <1>5

(* Two functions are the same when a step keeps them so.                    *)
StepTogether(f, g, N) ==
    f[0] = g[0] /\ \A n \in 1 .. N : f[n - 1] = g[n - 1] => f[n] = g[n]
Agree(f, g, N) == \A n \in 0 .. N : f[n] = g[n]
LEMMA StepsAgree ==
    ASSUME NEW N \in Nat, NEW f, NEW g, StepTogether(f, g, N)
    PROVE  Agree(f, g, N)
<1> DEFINE Apart == {m \in 0 .. N : f[m] # g[m]}
           R == {ss \in Nat \X Nat : ss[1] < ss[2]}
<1>1. SUFFICES ASSUME Apart # {} PROVE FALSE
    BY DEF Agree
<1>2. PICK m \in Apart : \A k \in Apart : ~ (<<k, m>> \in R)
    <2>1. IsWellFoundedOn(R, Nat)
        BY NatLessThanWellFounded DEF OpToRel
    <2>2. Apart \subseteq Nat
        OBVIOUS
    <2> HIDE DEF R, Apart
    <2> QED BY <1>1, <2>1, <2>2, WFMin
<1>3. m \in 1 .. N /\ f[m - 1] # g[m - 1]
    BY DEF StepTogether
<1>4. m - 1 \in Apart /\ <<m - 1, m>> \in R
    BY <1>3
<1> QED BY <1>2, <1>4

LEMMA ReachHalves ==
    /\ Reach \in [0 .. MaxTries -> Nat] /\ Reach[0] = 0
    /\ \A n \in 1 .. MaxTries : Reach[n] = 2 * Reach[n - 1] + 1
<1> DEFINE step == [s \in Nat |-> [n \in 1 .. MaxTries |-> 2 * s + 1]]
<1>1. MaxTries \in Nat
    BY DatagramAssumption
<1>2. step \in [Nat -> [1 .. MaxTries -> Nat]]
    OBVIOUS
<1>3. PICK f \in [0 .. MaxTries -> Nat] :
            f[0] = 0 /\ \A n \in 1 .. MaxTries : f[n] = step[f[n - 1]][n]
    <2>1. PICK N, S, z, st :
            /\ N = MaxTries /\ S = Nat /\ z = 0 /\ st = step
            /\ N \in Nat /\ z \in S /\ st \in [S -> [1 .. N -> S]]
        BY <1>1, <1>2
    <2>2. N \in Nat /\ z \in S /\ st \in [S -> [1 .. N -> S]]
        BY <2>1
    <2>3. \E f : Steps(f, N, S, z, st)
        BY ONLY <2>2, StepByStep
    <2> HIDE DEF step
    <2> QED BY <2>1, <2>3 DEF Steps
<1>4. \A n \in 1 .. MaxTries : f[n] = 2 * f[n - 1] + 1
    BY <1>1, <1>3
<1>5. f = [n \in 0 .. MaxTries |-> IF n = 0 THEN 0 ELSE 2 * f[n - 1] + 1]
    BY <1>1, <1>3, <1>4
<1>6. Reach = CHOOSE g : g = [n \in 0 .. MaxTries |-> IF n = 0 THEN 0 ELSE 2 * g[n - 1] + 1]
    BY DEF Reach
<1>7. Reach = [n \in 0 .. MaxTries |-> IF n = 0 THEN 0 ELSE 2 * Reach[n - 1] + 1]
    BY <1>5, <1>6
<1>8. DOMAIN Reach = 0 .. MaxTries /\ Reach[0] = 0
      /\ \A n \in 1 .. MaxTries : Reach[n] = 2 * Reach[n - 1] + 1
    BY <1>1, <1>7
<1>9. \A n \in 0 .. MaxTries : Reach[n] = f[n]
    <2>1. Reach[0] = f[0]
        BY <1>3, <1>8
    <2>2. \A n \in 1 .. MaxTries : Reach[n - 1] = f[n - 1] => Reach[n] = f[n]
        BY <1>4, <1>8
    <2> HIDE DEF step
    <2>3. PICK r, h, N : r = Reach /\ h = f /\ N = MaxTries /\ N \in Nat
        BY <1>1
    <2>4. N \in Nat /\ StepTogether(r, h, N)
        BY <2>1, <2>2, <2>3 DEF StepTogether
    <2>5. Agree(r, h, N)
        BY ONLY <2>4, StepsAgree
    <2> QED BY <2>3, <2>5 DEF Agree
<1>10. Reach = [n \in 0 .. MaxTries |-> Reach[n]]
    BY <1>7
<1> QED BY <1>3, <1>8, <1>9, <1>10

-----------------------------------------------------------------------------
(* The walk over the tokens of a text.                                      *)
LEMMA TextNames ==
    Texts = {"hello", "yey", "first", "second", "game", "smaller", "bigger", "success", "bye"}
<1>1. \A r : r \in DOMAIN Tokens <=>
        r \in {"hello", "yey", "first", "second", "game", "smaller", "bigger", "success", "bye"}
    BY DEF Tokens
<1> QED BY <1>1 DEF Texts

Walked == [i : Int, j : Int, a : Seq(Answer)]

(* One step of the walk, field by field.                                    *)
LEMMA TokenSteps ==
    ASSUME NEW s \in Walked, NEW token \in Words
    PROVE  /\ Token(s, token) \in Walked
           /\ token = "word" =>
                Token(s, token) = [i |-> s.i + 1, j |-> s.i, a |-> s.a]
           /\ token # "word" /\ s.j + 1 = s.i =>
                Token(s, token) = [i |-> s.i, j |-> s.j + 1, a |-> Append(s.a, Word(token))]
           /\ token # "word" /\ s.j + 1 # s.i =>
                Token(s, token) = [i |-> s.i, j |-> s.j + 1, a |-> s.a]
<1>1. PICK si \in Int, sj \in Int, sa \in Seq(Answer) :
        /\ s = [i |-> si, j |-> sj, a |-> sa]
        /\ s.i = si /\ s.j = sj /\ s.a = sa
    BY DEF Walked
<1>2. PICK w \in Answer : w = Word(token)
    BY DEF Word, Answer, Words
<1>3. PICK next \in Seq(Answer) : next = Append(sa, Word(token))
    <2>1. Append(sa, w) \in Seq(Answer)
        OBVIOUS
    <2> QED BY <1>2, <2>1
<1>4. CASE token = "word"
    <2>1. Token(s, token) = [i |-> si + 1, j |-> si, a |-> sa]
        BY <1>1, <1>4 DEF Token
    <2> QED BY <1>1, <1>4, <2>1 DEF Walked
<1>5. CASE token # "word" /\ s.j + 1 = s.i
    <2>1. Token(s, token) = [i |-> si, j |-> sj + 1, a |-> next]
        BY <1>1, <1>3, <1>5 DEF Token
    <2>2. [i |-> si, j |-> sj + 1, a |-> next] \in Walked
        BY DEF Walked
    <2> QED BY <1>1, <1>3, <1>5, <2>1, <2>2
<1>6. CASE token # "word" /\ s.j + 1 # s.i
    <2>1. Token(s, token) = [i |-> si, j |-> sj + 1, a |-> sa]
        BY <1>1, <1>6 DEF Token
    <2> QED BY <1>1, <1>6, <2>1 DEF Walked
<1> QED BY <1>4, <1>5, <1>6

LEMMA AtWord ==
    ASSUME NEW si \in Int, NEW sj \in Int, NEW sa \in Seq(Answer),
           NEW more \in Int, more = si + 1
    PROVE  Token([i |-> si, j |-> sj, a |-> sa], "word") = [i |-> more, j |-> si, a |-> sa]
<1>1. PICK s : s = [i |-> si, j |-> sj, a |-> sa]
    OBVIOUS
<1>2. s \in Walked /\ s.i = si /\ s.j = sj /\ s.a = sa
    BY <1>1 DEF Walked
<1>3. "word" \in Words
    BY DEF Words
<1> QED BY <1>1, <1>2, <1>3, TokenSteps

LEMMA AfterWord ==
    ASSUME NEW si \in Int, NEW sj \in Int, NEW sa \in Seq(Answer), si = sj + 1,
           NEW token \in Words, token # "word"
    PROVE  Token([i |-> si, j |-> sj, a |-> sa], token)
                = [i |-> si, j |-> si, a |-> Append(sa, Word(token))]
<1>1. PICK s : s = [i |-> si, j |-> sj, a |-> sa]
    OBVIOUS
<1>2. s \in Walked /\ s.i = si /\ s.j = sj /\ s.a = sa
    BY <1>1 DEF Walked
<1> QED BY <1>1, <1>2, TokenSteps

LEMMA Elsewhere ==
    ASSUME NEW si \in Int, NEW sj \in Int, NEW sa \in Seq(Answer),
           NEW next \in Int, next = sj + 1, next # si,
           NEW token \in Words, token # "word"
    PROVE  Token([i |-> si, j |-> sj, a |-> sa], token)
                = [i |-> si, j |-> next, a |-> sa]
<1>1. PICK s : s = [i |-> si, j |-> sj, a |-> sa]
    OBVIOUS
<1>2. s \in Walked /\ s.i = si /\ s.j = sj /\ s.a = sa
    BY <1>1 DEF Walked
<1> QED BY <1>1, <1>2, TokenSteps

LEMMA WalkSteps ==
    ASSUME NEW tokens \in Seq(Words)
    PROVE  \E f \in [0 .. Len(tokens) -> Walked] :
            /\ f[0] = [i |-> 0, j |-> 0, a |-> <<>>]
            /\ \A n \in 1 .. Len(tokens) : f[n] = Token(f[n - 1], tokens[n])
            /\ Walk(tokens) = f[Len(tokens)].a
<1> DEFINE st == [s \in Walked |-> [n \in 1 .. Len(tokens) |-> Token(s, tokens[n])]]
           zero == [i |-> 0, j |-> 0, a |-> <<>>]
<1>1. Len(tokens) \in Nat /\ zero \in Walked
    BY DEF Walked
<1>2. st \in [Walked -> [1 .. Len(tokens) -> Walked]]
    <2>1. \A s \in Walked, n \in 1 .. Len(tokens) : Token(s, tokens[n]) \in Walked
        BY TokenSteps
    <2> QED BY <2>1
<1>3. PICK f : Steps(f, Len(tokens), Walked, zero, st)
    <2>1. PICK N, S, z, step :
            /\ N = Len(tokens) /\ S = Walked /\ z = zero /\ step = st
        OBVIOUS
    <2>2. N \in Nat /\ z \in S /\ step \in [S -> [1 .. N -> S]]
        BY <1>1, <1>2, <2>1
    <2>3. \E f : Steps(f, N, S, z, step)
        BY ONLY <2>2, StepByStep
    <2> QED BY <2>1, <2>3
<1>4. /\ f \in [0 .. Len(tokens) -> Walked] /\ f[0] = zero
      /\ \A n \in 1 .. Len(tokens) : f[n] = Token(f[n - 1], tokens[n])
    <2>0. f \in [0 .. Len(tokens) -> Walked]
        BY <1>3 DEF Steps
    <2>4. \A n \in 1 .. Len(tokens) : f[n] = st[f[n - 1]][n]
        BY <1>3 DEF Steps
    <2>1. \A n \in 1 .. Len(tokens) : f[n - 1] \in Walked /\ f[n] = st[f[n - 1]][n]
        BY <1>1, <2>0, <2>4
    <2>2. \A s \in Walked, n \in 1 .. Len(tokens) : st[s][n] = Token(s, tokens[n])
        OBVIOUS
    <2> HIDE DEF st
    <2>3. \A n \in 1 .. Len(tokens) : f[n] = Token(f[n - 1], tokens[n])
        BY <2>1, <2>2
    <2> QED BY <1>3, <2>3 DEF Steps
<1>5. f = [n \in 0 .. Len(tokens) |->
            IF n = 0 THEN [i |-> 0, j |-> 0, a |-> <<>>] ELSE Token(f[n - 1], tokens[n])]
    BY <1>1, <1>4
<1>6. PICK g : /\ g = [n \in 0 .. Len(tokens) |->
                        IF n = 0 THEN [i |-> 0, j |-> 0, a |-> <<>>]
                        ELSE Token(g[n - 1], tokens[n])]
               /\ Walk(tokens) = g[Len(tokens)].a
    <2>1. Walk(tokens) =
            (CHOOSE g : g = [n \in 0 .. Len(tokens) |->
                IF n = 0 THEN [i |-> 0, j |-> 0, a |-> <<>>]
                ELSE Token(g[n - 1], tokens[n])])[Len(tokens)].a
        BY DEF Walk
    <2> QED BY <1>5, <2>1
<1>7. g[0] = f[0] /\ \A n \in 1 .. Len(tokens) : g[n - 1] = f[n - 1] => g[n] = f[n]
    <2>1. g[0] = [i |-> 0, j |-> 0, a |-> <<>>]
          /\ \A n \in 1 .. Len(tokens) : g[n] = Token(g[n - 1], tokens[n])
        BY <1>1, <1>6
    <2> QED BY <1>4, <2>1
<1>8. \A n \in 0 .. Len(tokens) : g[n] = f[n]
    <2>1. PICK r, h, N : r = g /\ h = f /\ N = Len(tokens) /\ N \in Nat
        BY <1>1
    <2>2. N \in Nat /\ StepTogether(r, h, N)
        BY <1>7, <2>1 DEF StepTogether
    <2>3. Agree(r, h, N)
        BY ONLY <2>2, StepsAgree
    <2> QED BY <2>1, <2>3 DEF Agree
<1> QED BY <1>1, <1>4, <1>6, <1>8

(* The words that come back for each text.                                  *)
LEMMA WordsBack ==
    /\ a["hello"] = <<Word("Hello")>>
    /\ a["second"] = <<Word("YEY"), Word("OK")>>
    /\ a["bye"] = <<Word("exit")>>
    /\ \A text \in Texts \ {"hello", "second", "bye"} : a[text] = <<>>
<1>1. \A text \in Texts : a[text] = Walk(Tokens[text])
    BY DEF a
<1>2. PICK none \in Seq(Answer) : none = <<>>
    <2>1. <<>> \in Seq(Answer)
        OBVIOUS
    <2> QED BY <2>1
<1>3. PICK n0 \in Int, n1 \in Int, n2 \in Int, n3 \in Int :
        /\ n0 = 0 /\ n1 = 1 /\ n2 = 2 /\ n3 = 3
        /\ n1 = n0 + 1 /\ n2 = n1 + 1 /\ n3 = n2 + 1
        /\ n0 # n1 /\ n1 # n2 /\ n2 # n3 /\ n3 # n0 /\ n2 # n0 /\ n3 # n1
    OBVIOUS
<1>4. /\ none \in Seq(Answer) /\ n0 \in Int /\ n1 \in Int /\ n2 \in Int /\ n3 \in Int
      /\ n1 = n0 + 1 /\ n2 = n1 + 1 /\ n3 = n2 + 1
      /\ n0 # n1 /\ n1 # n2 /\ n2 # n3 /\ n3 # n0 /\ n2 # n0 /\ n3 # n1
    BY <1>2, <1>3
<1>5. ASSUME NEW t \in Words, t # "word" PROVE Walk(<<t>>) = <<>>
    <2>1. PICK tok : tok = <<t>>
        OBVIOUS
    <2>2. /\ tok \in Seq(Words) /\ Len(tok) = 1
          /\ tok[1] = t
        BY <1>5, <2>1
    <2>3. PICK f \in [0 .. Len(tok) -> Walked] :
            /\ f[0] = [i |-> 0, j |-> 0, a |-> <<>>]
            /\ \A n \in 1 .. Len(tok) : f[n] = Token(f[n - 1], tok[n])
            /\ Walk(tok) = f[Len(tok)].a
        BY <2>2, WalkSteps
    <2>4. /\ f[0] = [i |-> n0, j |-> n0, a |-> none]
          /\ f[1] = Token(f[0], t)
          /\ Walk(tok) = f[1].a
        BY <1>2, <1>3, <2>2, <2>3
    <2>5. f[1] = [i |-> n0, j |-> n1, a |-> none]
        <3>1. /\ none \in Seq(Answer) /\ n0 \in Int /\ n1 \in Int
              /\ n1 = n0 + 1 /\ n1 # n0
            BY <1>4
        <3>2. \A x \in Words : x # "word" =>
                Token([i |-> n0, j |-> n0, a |-> none], x)
                    = [i |-> n0, j |-> n1, a |-> none]
            BY <3>1, Elsewhere, Zenon
        <3> QED BY <2>4, <3>2, <1>5
    <2> QED BY <1>2, <2>1, <2>4, <2>5
<1>6. Walk(Tokens["hello"]) = <<Word("Hello")>>
    <2>1. PICK tok : tok = <<"text", "word", "Hello", "text">>
        OBVIOUS
    <2>2. /\ tok \in Seq(Words) /\ Len(tok) = 4
          /\ tok[1] = "text" /\ tok[2] = "word" /\ tok[3] = "Hello" /\ tok[4] = "text"
        BY <2>1 DEF Words
    <2>3. PICK f \in [0 .. Len(tok) -> Walked] :
            /\ f[0] = [i |-> 0, j |-> 0, a |-> <<>>]
            /\ \A n \in 1 .. Len(tok) : f[n] = Token(f[n - 1], tok[n])
            /\ Walk(tok) = f[Len(tok)].a
        BY <2>2, WalkSteps
    <2>4. /\ f[0] = [i |-> n0, j |-> n0, a |-> none]
          /\ f[1] = Token(f[0], "text")
          /\ f[2] = Token(f[1], "word")
          /\ f[3] = Token(f[2], "Hello")
          /\ f[4] = Token(f[3], "text")
          /\ Walk(tok) = f[4].a
        BY <1>2, <1>3, <2>2, <2>3
    <2>5. f[1] = [i |-> n0, j |-> n1, a |-> none]
        <3>1. /\ none \in Seq(Answer) /\ n0 \in Int /\ n1 \in Int
              /\ n1 = n0 + 1 /\ n1 # n0
            BY <1>4
        <3>2. \A x \in Words : x # "word" =>
                Token([i |-> n0, j |-> n0, a |-> none], x)
                    = [i |-> n0, j |-> n1, a |-> none]
            BY <3>1, Elsewhere, Zenon
        <3>3. "text" \in Words
            BY DEF Words
        <3> QED BY <2>4, <3>2, <3>3
    <2>6. f[2] = [i |-> n1, j |-> n0, a |-> none]
        <3>1. /\ none \in Seq(Answer) /\ n0 \in Int /\ n1 \in Int
              /\ n1 = n0 + 1
            BY <1>4
        <3>2. Token([i |-> n0, j |-> n1, a |-> none], "word")
                = [i |-> n1, j |-> n0, a |-> none]
            BY <3>1, AtWord
        <3>3. "word" \in Words
            BY DEF Words
        <3> QED BY <2>4, <2>5, <3>2, <3>3
    <2>7. PICK app1 \in Seq(Answer) : app1 = Append(none, Word("Hello"))
        <3>1. PICK w \in Answer : w = Word("Hello")
            BY DEF Word, Answer, Words
        <3>2. Append(none, w) \in Seq(Answer)
            BY <1>2
        <3> QED BY <3>1, <3>2
    <2>8. f[3] = [i |-> n1, j |-> n1, a |-> app1]
        <3>1. /\ none \in Seq(Answer) /\ n0 \in Int /\ n1 \in Int
              /\ n1 = n0 + 1
            BY <1>4
        <3>2. \A x \in Words : x # "word" =>
                Token([i |-> n1, j |-> n0, a |-> none], x)
                    = [i |-> n1, j |-> n1, a |-> Append(none, Word(x))]
            BY <3>1, AfterWord, Zenon
        <3>3. "Hello" \in Words
            BY DEF Words
        <3> QED BY <2>4, <2>6, <2>7, <3>2, <3>3
    <2>9. f[4] = [i |-> n1, j |-> n2, a |-> app1]
        <3>1. /\ app1 \in Seq(Answer) /\ n1 \in Int /\ n2 \in Int
              /\ n2 = n1 + 1 /\ n2 # n1
            BY <1>4, <2>7
        <3>2. \A x \in Words : x # "word" =>
                Token([i |-> n1, j |-> n1, a |-> app1], x)
                    = [i |-> n1, j |-> n2, a |-> app1]
            BY <3>1, Elsewhere, Zenon
        <3>3. "text" \in Words
            BY DEF Words
        <3> QED BY <2>4, <2>8, <3>2, <3>3
    <2>10. Walk(tok) = app1
        BY <2>4, <2>9
    <2>11. app1 = <<Word("Hello")>>
        BY <1>2, <2>7
    <2>12. Tokens["hello"] = tok
        BY <2>1 DEF Tokens
    <2> QED BY <2>10, <2>11, <2>12
<1>7. Walk(Tokens["second"]) = <<Word("YEY"), Word("OK")>>
    <2>1. PICK tok : tok = <<"text", "word", "YEY", "text", "word", "OK", "text">>
        OBVIOUS
    <2>2. /\ tok \in Seq(Words) /\ Len(tok) = 7
          /\ tok[1] = "text" /\ tok[2] = "word" /\ tok[3] = "YEY" /\ tok[4] = "text" /\ tok[5] = "word" /\ tok[6] = "OK" /\ tok[7] = "text"
        BY <2>1 DEF Words
    <2>3. PICK f \in [0 .. Len(tok) -> Walked] :
            /\ f[0] = [i |-> 0, j |-> 0, a |-> <<>>]
            /\ \A n \in 1 .. Len(tok) : f[n] = Token(f[n - 1], tok[n])
            /\ Walk(tok) = f[Len(tok)].a
        BY <2>2, WalkSteps
    <2>4. /\ f[0] = [i |-> n0, j |-> n0, a |-> none]
          /\ f[1] = Token(f[0], "text")
          /\ f[2] = Token(f[1], "word")
          /\ f[3] = Token(f[2], "YEY")
          /\ f[4] = Token(f[3], "text")
          /\ f[5] = Token(f[4], "word")
          /\ f[6] = Token(f[5], "OK")
          /\ f[7] = Token(f[6], "text")
          /\ Walk(tok) = f[7].a
        BY <1>2, <1>3, <2>2, <2>3
    <2>5. f[1] = [i |-> n0, j |-> n1, a |-> none]
        <3>1. /\ none \in Seq(Answer) /\ n0 \in Int /\ n1 \in Int
              /\ n1 = n0 + 1 /\ n1 # n0
            BY <1>4
        <3>2. \A x \in Words : x # "word" =>
                Token([i |-> n0, j |-> n0, a |-> none], x)
                    = [i |-> n0, j |-> n1, a |-> none]
            BY <3>1, Elsewhere, Zenon
        <3>3. "text" \in Words
            BY DEF Words
        <3> QED BY <2>4, <3>2, <3>3
    <2>6. f[2] = [i |-> n1, j |-> n0, a |-> none]
        <3>1. /\ none \in Seq(Answer) /\ n0 \in Int /\ n1 \in Int
              /\ n1 = n0 + 1
            BY <1>4
        <3>2. Token([i |-> n0, j |-> n1, a |-> none], "word")
                = [i |-> n1, j |-> n0, a |-> none]
            BY <3>1, AtWord
        <3>3. "word" \in Words
            BY DEF Words
        <3> QED BY <2>4, <2>5, <3>2, <3>3
    <2>7. PICK app1 \in Seq(Answer) : app1 = Append(none, Word("YEY"))
        <3>1. PICK w \in Answer : w = Word("YEY")
            BY DEF Word, Answer, Words
        <3>2. Append(none, w) \in Seq(Answer)
            BY <1>2
        <3> QED BY <3>1, <3>2
    <2>8. f[3] = [i |-> n1, j |-> n1, a |-> app1]
        <3>1. /\ none \in Seq(Answer) /\ n0 \in Int /\ n1 \in Int
              /\ n1 = n0 + 1
            BY <1>4
        <3>2. \A x \in Words : x # "word" =>
                Token([i |-> n1, j |-> n0, a |-> none], x)
                    = [i |-> n1, j |-> n1, a |-> Append(none, Word(x))]
            BY <3>1, AfterWord, Zenon
        <3>3. "YEY" \in Words
            BY DEF Words
        <3> QED BY <2>4, <2>6, <2>7, <3>2, <3>3
    <2>9. f[4] = [i |-> n1, j |-> n2, a |-> app1]
        <3>1. /\ app1 \in Seq(Answer) /\ n1 \in Int /\ n2 \in Int
              /\ n2 = n1 + 1 /\ n2 # n1
            BY <1>4, <2>7
        <3>2. \A x \in Words : x # "word" =>
                Token([i |-> n1, j |-> n1, a |-> app1], x)
                    = [i |-> n1, j |-> n2, a |-> app1]
            BY <3>1, Elsewhere, Zenon
        <3>3. "text" \in Words
            BY DEF Words
        <3> QED BY <2>4, <2>8, <3>2, <3>3
    <2>10. f[5] = [i |-> n2, j |-> n1, a |-> app1]
        <3>1. /\ app1 \in Seq(Answer) /\ n1 \in Int /\ n2 \in Int
              /\ n2 = n1 + 1
            BY <1>4, <2>7
        <3>2. Token([i |-> n1, j |-> n2, a |-> app1], "word")
                = [i |-> n2, j |-> n1, a |-> app1]
            BY <3>1, AtWord
        <3>3. "word" \in Words
            BY DEF Words
        <3> QED BY <2>4, <2>9, <3>2, <3>3
    <2>11. PICK app2 \in Seq(Answer) : app2 = Append(app1, Word("OK"))
        <3>1. PICK w \in Answer : w = Word("OK")
            BY DEF Word, Answer, Words
        <3>2. Append(app1, w) \in Seq(Answer)
            BY <2>7
        <3> QED BY <3>1, <3>2
    <2>12. f[6] = [i |-> n2, j |-> n2, a |-> app2]
        <3>1. /\ app1 \in Seq(Answer) /\ n1 \in Int /\ n2 \in Int
              /\ n2 = n1 + 1
            BY <1>4, <2>7
        <3>2. \A x \in Words : x # "word" =>
                Token([i |-> n2, j |-> n1, a |-> app1], x)
                    = [i |-> n2, j |-> n2, a |-> Append(app1, Word(x))]
            BY <3>1, AfterWord, Zenon
        <3>3. "OK" \in Words
            BY DEF Words
        <3> QED BY <2>4, <2>10, <2>11, <3>2, <3>3
    <2>13. f[7] = [i |-> n2, j |-> n3, a |-> app2]
        <3>1. /\ app2 \in Seq(Answer) /\ n2 \in Int /\ n3 \in Int
              /\ n3 = n2 + 1 /\ n3 # n2
            BY <1>4, <2>11
        <3>2. \A x \in Words : x # "word" =>
                Token([i |-> n2, j |-> n2, a |-> app2], x)
                    = [i |-> n2, j |-> n3, a |-> app2]
            BY <3>1, Elsewhere, Zenon
        <3>3. "text" \in Words
            BY DEF Words
        <3> QED BY <2>4, <2>12, <3>2, <3>3
    <2>14. Walk(tok) = app2
        BY <2>4, <2>13
    <2>15. app2 = <<Word("YEY"), Word("OK")>>
        BY <1>2, <2>7, <2>11
    <2>16. Tokens["second"] = tok
        BY <2>1 DEF Tokens
    <2> QED BY <2>14, <2>15, <2>16
<1>8. Walk(Tokens["game"]) = <<>>
    <2>1. PICK tok : tok = <<"text", "random", "text">>
        OBVIOUS
    <2>2. /\ tok \in Seq(Words) /\ Len(tok) = 3
          /\ tok[1] = "text" /\ tok[2] = "random" /\ tok[3] = "text"
        BY <2>1 DEF Words
    <2>3. PICK f \in [0 .. Len(tok) -> Walked] :
            /\ f[0] = [i |-> 0, j |-> 0, a |-> <<>>]
            /\ \A n \in 1 .. Len(tok) : f[n] = Token(f[n - 1], tok[n])
            /\ Walk(tok) = f[Len(tok)].a
        BY <2>2, WalkSteps
    <2>4. /\ f[0] = [i |-> n0, j |-> n0, a |-> none]
          /\ f[1] = Token(f[0], "text")
          /\ f[2] = Token(f[1], "random")
          /\ f[3] = Token(f[2], "text")
          /\ Walk(tok) = f[3].a
        BY <1>2, <1>3, <2>2, <2>3
    <2>5. f[1] = [i |-> n0, j |-> n1, a |-> none]
        <3>1. /\ none \in Seq(Answer) /\ n0 \in Int /\ n1 \in Int
              /\ n1 = n0 + 1 /\ n1 # n0
            BY <1>4
        <3>2. \A x \in Words : x # "word" =>
                Token([i |-> n0, j |-> n0, a |-> none], x)
                    = [i |-> n0, j |-> n1, a |-> none]
            BY <3>1, Elsewhere, Zenon
        <3>3. "text" \in Words
            BY DEF Words
        <3> QED BY <2>4, <3>2, <3>3
    <2>6. f[2] = [i |-> n0, j |-> n2, a |-> none]
        <3>1. /\ none \in Seq(Answer) /\ n0 \in Int /\ n1 \in Int /\ n2 \in Int
              /\ n2 = n1 + 1 /\ n2 # n0
            BY <1>4
        <3>2. \A x \in Words : x # "word" =>
                Token([i |-> n0, j |-> n1, a |-> none], x)
                    = [i |-> n0, j |-> n2, a |-> none]
            BY <3>1, Elsewhere, Zenon
        <3>3. "random" \in Words
            BY DEF Words
        <3> QED BY <2>4, <2>5, <3>2, <3>3
    <2>7. f[3] = [i |-> n0, j |-> n3, a |-> none]
        <3>1. /\ none \in Seq(Answer) /\ n0 \in Int /\ n2 \in Int /\ n3 \in Int
              /\ n3 = n2 + 1 /\ n3 # n0
            BY <1>4
        <3>2. \A x \in Words : x # "word" =>
                Token([i |-> n0, j |-> n2, a |-> none], x)
                    = [i |-> n0, j |-> n3, a |-> none]
            BY <3>1, Elsewhere, Zenon
        <3>3. "text" \in Words
            BY DEF Words
        <3> QED BY <2>4, <2>6, <3>2, <3>3
    <2>8. Walk(tok) = none
        BY <2>4, <2>7
    <2>9. none = <<>>
        BY <1>2
    <2>10. Tokens["game"] = tok
        BY <2>1 DEF Tokens
    <2> QED BY <2>8, <2>9, <2>10
<1>9. Walk(Tokens["bye"]) = <<Word("exit")>>
    <2>1. PICK tok : tok = <<"text", "word", "exit">>
        OBVIOUS
    <2>2. /\ tok \in Seq(Words) /\ Len(tok) = 3
          /\ tok[1] = "text" /\ tok[2] = "word" /\ tok[3] = "exit"
        BY <2>1 DEF Words
    <2>3. PICK f \in [0 .. Len(tok) -> Walked] :
            /\ f[0] = [i |-> 0, j |-> 0, a |-> <<>>]
            /\ \A n \in 1 .. Len(tok) : f[n] = Token(f[n - 1], tok[n])
            /\ Walk(tok) = f[Len(tok)].a
        BY <2>2, WalkSteps
    <2>4. /\ f[0] = [i |-> n0, j |-> n0, a |-> none]
          /\ f[1] = Token(f[0], "text")
          /\ f[2] = Token(f[1], "word")
          /\ f[3] = Token(f[2], "exit")
          /\ Walk(tok) = f[3].a
        BY <1>2, <1>3, <2>2, <2>3
    <2>5. f[1] = [i |-> n0, j |-> n1, a |-> none]
        <3>1. /\ none \in Seq(Answer) /\ n0 \in Int /\ n1 \in Int
              /\ n1 = n0 + 1 /\ n1 # n0
            BY <1>4
        <3>2. \A x \in Words : x # "word" =>
                Token([i |-> n0, j |-> n0, a |-> none], x)
                    = [i |-> n0, j |-> n1, a |-> none]
            BY <3>1, Elsewhere, Zenon
        <3>3. "text" \in Words
            BY DEF Words
        <3> QED BY <2>4, <3>2, <3>3
    <2>6. f[2] = [i |-> n1, j |-> n0, a |-> none]
        <3>1. /\ none \in Seq(Answer) /\ n0 \in Int /\ n1 \in Int
              /\ n1 = n0 + 1
            BY <1>4
        <3>2. Token([i |-> n0, j |-> n1, a |-> none], "word")
                = [i |-> n1, j |-> n0, a |-> none]
            BY <3>1, AtWord
        <3>3. "word" \in Words
            BY DEF Words
        <3> QED BY <2>4, <2>5, <3>2, <3>3
    <2>7. PICK app1 \in Seq(Answer) : app1 = Append(none, Word("exit"))
        <3>1. PICK w \in Answer : w = Word("exit")
            BY DEF Word, Answer, Words
        <3>2. Append(none, w) \in Seq(Answer)
            BY <1>2
        <3> QED BY <3>1, <3>2
    <2>8. f[3] = [i |-> n1, j |-> n1, a |-> app1]
        <3>1. /\ none \in Seq(Answer) /\ n0 \in Int /\ n1 \in Int
              /\ n1 = n0 + 1
            BY <1>4
        <3>2. \A x \in Words : x # "word" =>
                Token([i |-> n1, j |-> n0, a |-> none], x)
                    = [i |-> n1, j |-> n1, a |-> Append(none, Word(x))]
            BY <3>1, AfterWord, Zenon
        <3>3. "exit" \in Words
            BY DEF Words
        <3> QED BY <2>4, <2>6, <2>7, <3>2, <3>3
    <2>9. Walk(tok) = app1
        BY <2>4, <2>8
    <2>10. app1 = <<Word("exit")>>
        BY <1>2, <2>7
    <2>11. Tokens["bye"] = tok
        BY <2>1 DEF Tokens
    <2> QED BY <2>9, <2>10, <2>11
<1>10. ASSUME NEW text \in {"yey", "first", "smaller", "bigger", "success"}
      PROVE  Walk(Tokens[text]) = <<>>
    <2>1. PICK t \in Words : t # "word" /\ Tokens[text] = <<t>>
        BY DEF Tokens, Words
    <2> QED BY <1>5, <2>1
<1> QED BY <1>1, <1>6, <1>7, <1>8, <1>9, <1>10, TextNames

-----------------------------------------------------------------------------
(* The locals of the test functions and what these answer.                  *)
LEMMA HalfType == ASSUME NEW n \in Int PROVE Half(n) \in Int
    BY DEF Half

(* What a guess makes of the interval, field by field.                      *)
LEMMA Intervals ==
    ASSUME NEW l \in Locals
    PROVE  /\ Narrowed("game", l) \in Locals
           /\ Narrowed("game", l).low = 0 /\ Narrowed("game", l).high = High
           /\ Narrowed("smaller", l) \in Locals
           /\ Narrowed("smaller", l).low = l.low /\ Narrowed("smaller", l).high = l.mid - 1
           /\ Narrowed("bigger", l) \in Locals
           /\ Narrowed("bigger", l).low = l.mid + 1 /\ Narrowed("bigger", l).high = l.high
           /\ \A text \in Guessing :
                /\ Narrowed(text, l).t = l.t
                /\ Narrowed(text, l).mid = Half(Narrowed(text, l).low + Narrowed(text, l).high)
           /\ \A text \in Texts \ Guessing : Narrowed(text, l) = l
<1>1. High \in Int
    BY DatagramAssumption
<1>2. \A text : /\ text = "game" => Narrowed(text, l) = Interval(l)
                /\ text = "smaller" => Narrowed(text, l) = Smaller(l)
                /\ text = "bigger" => Narrowed(text, l) = Bigger(l)
    BY DEF Narrowed
<1>3. ASSUME NEW k \in Locals
      PROVE  /\ Guess(k) \in Locals /\ Guess(k).low = k.low /\ Guess(k).high = k.high
             /\ Guess(k).t = k.t /\ Guess(k).mid = Half(k.low + k.high)
    <2>1. k.low + k.high \in Int
        BY DEF Locals
    <2>2. PICK m \in Int : m = Half(k.low + k.high)
        BY <2>1, HalfType
    <2>3. Guess(k) = [k EXCEPT !.mid = m]
        BY <2>2 DEF Guess
    <2> QED BY <2>2, <2>3 DEF Locals
<1>4. PICK g : g = [l EXCEPT !.low = 0, !.high = High]
    OBVIOUS
<1>5. g \in Locals /\ g.low = 0 /\ g.high = High /\ g.t = l.t
    <2>1. g.low = 0 /\ g.high = High /\ g.t = l.t /\ g.mid = l.mid
        BY <1>4 DEF Locals
    <2>2. g = [low |-> 0, high |-> High, mid |-> l.mid, t |-> l.t]
        BY <1>4 DEF Locals
    <2> QED BY <1>1, <2>1, <2>2 DEF Locals
<1>6. PICK m \in Int : m = l.mid - 1
    BY DEF Locals
<1>7. PICK s : s = [l EXCEPT !.high = m]
    OBVIOUS
<1>8. s \in Locals /\ s.low = l.low /\ s.high = m /\ s.t = l.t
    BY <1>6, <1>7 DEF Locals
<1>9. PICK n \in Int : n = l.mid + 1
    BY DEF Locals
<1>10. PICK b : b = [l EXCEPT !.low = n]
    OBVIOUS
<1>11. b \in Locals /\ b.low = n /\ b.high = l.high /\ b.t = l.t
    BY <1>9, <1>10 DEF Locals
<1>12. Interval(l) = Guess(g) /\ Smaller(l) = Guess(s) /\ Bigger(l) = Guess(b)
    BY <1>4, <1>6, <1>7, <1>9, <1>10 DEF Interval, Smaller, Bigger
<1>13. \A text \in Texts \ Guessing : Narrowed(text, l) = l
    BY DEF Narrowed, Guessing
<1>14. Narrowed("game", l) = Guess(g) /\ Narrowed("smaller", l) = Guess(s)
       /\ Narrowed("bigger", l) = Guess(b)
    BY <1>2, <1>12
<1>15. \A text \in Guessing :
            /\ Narrowed(text, l).t = l.t
            /\ Narrowed(text, l).mid = Half(Narrowed(text, l).low + Narrowed(text, l).high)
    BY <1>3, <1>5, <1>8, <1>11, <1>14 DEF Guessing
<1> QED BY <1>3, <1>5, <1>6, <1>8, <1>9, <1>11, <1>13, <1>14, <1>15

LEMMA NarrowedType ==
    ASSUME NEW l \in Locals, NEW text \in Texts
    PROVE  Narrowed(text, l) \in Locals /\ Narrowed(text, l).t = l.t
<1>1. CASE text \in Guessing
    BY <1>1, Intervals DEF Guessing
<1>2. CASE text \notin Guessing
    BY <1>2, Intervals
<1> QED BY <1>1, <1>2

(* What the test functions answer to a text.                                *)
LEMMA AnswersOf ==
    ASSUME NEW l \in Locals, NEW text \in Texts
    PROVE  /\ test(text, l) \in Seq(Answer)
           /\ text \in Guessing => test(text, l) = <<Guessed(Narrowed(text, l).mid)>>
           /\ text \notin Guessing => test(text, l) = a[text]
<1>1. Word("Hello") \in Answer /\ Word("YEY") \in Answer /\ Word("OK") \in Answer
      /\ Word("exit") \in Answer
    BY DEF Word, Answer, Words
<1>2. a[text] \in Seq(Answer)
    <2>1. PICK w1 \in Answer, w2 \in Answer, w3 \in Answer, w4 \in Answer :
            w1 = Word("Hello") /\ w2 = Word("YEY") /\ w3 = Word("OK") /\ w4 = Word("exit")
        BY <1>1
    <2>2. <<w1>> \in Seq(Answer) /\ <<w2, w3>> \in Seq(Answer) /\ <<w4>> \in Seq(Answer)
        OBVIOUS
    <2>3. <<>> \in Seq(Answer)
        OBVIOUS
    <2> QED BY <2>1, <2>2, <2>3, WordsBack
<1>3. CASE text \in Guessing
    <2>1. a[text] = <<>>
        BY <1>3, WordsBack DEF Guessing
    <2>2. PICK n \in Int : n = Narrowed(text, l).mid
        BY NarrowedType DEF Locals
    <2>3. PICK x \in Answer : x = Guessed(n)
        BY DEF Guessed, Answer
    <2>4. Guesses(text, l) = <<x>>
        BY <1>3, <2>2, <2>3 DEF Guesses, Guessing
    <2>5. <<x>> \o <<>> = <<x>> /\ <<x>> \in Seq(Answer)
        OBVIOUS
    <2>6. test(text, l) = <<x>>
        BY <2>1, <2>4, <2>5 DEF test
    <2> QED BY <1>3, <2>2, <2>3, <2>5, <2>6
<1>4. CASE text \notin Guessing
    <2>1. Guesses(text, l) = <<>>
        BY <1>4 DEF Guesses, Guessing
    <2>2. test(text, l) = a[text]
        BY <1>2, <2>1 DEF test
    <2> QED BY <1>2, <1>4, <2>2
<1> QED BY <1>3, <1>4

LEMMA FrameType == locals \in Locals => Frame \subseteq Locals
<1>1. Zeros \in Locals
    <2>1. PICK x \in Answer : x = Garbage
        BY DEF Garbage, Control, Answer
    <2> QED BY <2>1 DEF Zeros, Locals
<1> QED BY <1>1 DEF Frame

LEMMA AnswersTo ==
    ASSUME locals \in Locals, NEW text \in Texts, NEW before, Answers(before, text)
    PROVE  \E l \in Locals :
            /\ toClient' = toClient \o before \o test(text, l)
            /\ locals' \in Locals
            /\ locals'.low = Narrowed(text, l).low /\ locals'.high = Narrowed(text, l).high
            /\ locals'.mid = Narrowed(text, l).mid
            /\ mode # "hamming" => l = locals
            /\ test(text, l) = <<>> => locals'.t = l.t
            /\ test(text, l) # <<>> => locals'.t = Last(test(text, l))
            /\ lost' = (lost \/ (l # locals /\ text \in {"smaller", "bigger"}))
<1>1. PICK l \in Locals :
        /\ toClient' = toClient \o before \o test(text, l)
        /\ locals' = [Narrowed(text, l) EXCEPT
                        !.t = IF test(text, l) = <<>> THEN @ ELSE Last(test(text, l))]
        /\ lost' = (lost \/ (l # locals /\ text \in {"smaller", "bigger"}))
        /\ mode # "hamming" => l = locals
    BY FrameType DEF Answers, Frame
<1>2. PICK n \in Locals : n = Narrowed(text, l) /\ n.t = l.t
    BY NarrowedType
<1>3. PICK answers \in Seq(Answer) : answers = test(text, l)
    BY AnswersOf
<1>4. PICK t : t = IF answers = <<>> THEN n.t ELSE Last(answers)
    OBVIOUS
<1>5. t \in Answer
    <2>1. CASE answers = <<>>
        BY <1>4, <2>1 DEF Locals
    <2>2. CASE answers # <<>>
        <3>1. Last(answers) \in Answer
            BY <2>2 DEF Last
        <3> QED BY <1>4, <2>2, <3>1
    <2> QED BY <2>1, <2>2
<1>6. locals' = [n EXCEPT !.t = t]
    BY <1>1, <1>2, <1>3, <1>4
<1>7. locals' \in Locals /\ locals'.low = n.low /\ locals'.high = n.high
      /\ locals'.mid = n.mid /\ locals'.t = t
    BY <1>5, <1>6 DEF Locals
<1> QED BY <1>1, <1>2, <1>3, <1>4, <1>7

-----------------------------------------------------------------------------
(* Types.                                                                   *)
LEMMA AppendType == ASSUME NEW S, NEW s \in Seq(S), NEW x \in S
    PROVE  Append(s, x) \in Seq(S)
    OBVIOUS

LEMMA TailType == ASSUME NEW S, NEW s \in Seq(S), s # <<>>
    PROVE  Head(s) \in S /\ Tail(s) \in Seq(S)
<1>1. Head(s) \in S
    OBVIOUS
<1>2. Tail(s) \in Seq(S)
    OBVIOUS
<1> QED BY <1>1, <1>2

LEMMA ClientFields ==
    ASSUME NEW c \in Clients
    PROVE  /\ c = [pc |-> c.pc, saying |-> c.saying, expect |-> c.expect,
                   tries |-> c.tries, flips |-> c.flips, backflips |-> c.backflips]
           /\ c.pc \in {"say", "ack", "listen", "pass", "fail"} /\ c.saying \in Texts
           /\ c.expect \in Seq(Words \cup {"number"}) /\ c.tries \in 0 .. MaxTries
           /\ c.flips \in Nat /\ c.backflips \in Nat
    BY DEF Clients

(* What is expected back, and what is left of it when an answer has come.   *)
LEMMA Expected ==
    ASSUME NEW text \in Texts
    PROVE  /\ Expects(text) \in Expectable(text)
           /\ Expectable(text) \subseteq Seq(Words \cup {"number"})
           /\ \A e \in Expectable(text) :
                /\ text \in Guessing => e = <<"number">>
                /\ text \notin Guessing /\ e # <<>> =>
                        Head(e) \in Words /\ Tail(e) \in Expectable(text)
<1>1. PICK W : W = Words \cup {"number"}
    OBVIOUS
<1>2. "Hello" \in W /\ "YEY" \in W /\ "OK" \in W /\ "exit" \in W /\ "number" \in W
    BY <1>1 DEF Words
<1>3. /\ <<"Hello">> \in Seq(W) /\ <<"YEY", "OK">> \in Seq(W) /\ <<"OK">> \in Seq(W)
      /\ <<"exit">> \in Seq(W) /\ <<"number">> \in Seq(W) /\ <<>> \in Seq(W)
    <2>1. PICK w1 \in W, w2 \in W, w3 \in W, w4 \in W, w5 \in W :
            w1 = "Hello" /\ w2 = "YEY" /\ w3 = "OK" /\ w4 = "exit" /\ w5 = "number"
        BY <1>2
    <2>2. <<w1>> \in Seq(W) /\ <<w2, w3>> \in Seq(W) /\ <<w3>> \in Seq(W)
          /\ <<w4>> \in Seq(W) /\ <<w5>> \in Seq(W)
        OBVIOUS
    <2>3. <<>> \in Seq(W)
        OBVIOUS
    <2> QED BY <2>1, <2>2, <2>3
<1>4. /\ Head(<<"Hello">>) = "Hello" /\ Tail(<<"Hello">>) = <<>>
      /\ Head(<<"YEY", "OK">>) = "YEY" /\ Tail(<<"YEY", "OK">>) = <<"OK">>
      /\ Head(<<"OK">>) = "OK" /\ Tail(<<"OK">>) = <<>>
      /\ Head(<<"exit">>) = "exit" /\ Tail(<<"exit">>) = <<>>
    OBVIOUS
<1>5. /\ Expects("hello") = <<"Hello">> /\ Expects("second") = <<"YEY", "OK">>
      /\ Expects("bye") = <<"exit">>
      /\ \A t \in Guessing : Expects(t) = <<"number">>
      /\ \A t \in Texts \ (Guessing \cup {"hello", "second", "bye"}) : Expects(t) = <<>>
    BY DEF Expects, Guessing
<1>6. /\ Expectable("hello") = {<<"Hello">>, <<>>}
      /\ Expectable("second") = {<<"YEY", "OK">>, <<"OK">>, <<>>}
      /\ Expectable("bye") = {<<"exit">>, <<>>}
      /\ \A t \in Guessing : Expectable(t) = {<<"number">>}
      /\ \A t \in Texts \ (Guessing \cup {"hello", "second", "bye"}) : Expectable(t) = {<<>>}
    BY DEF Expectable, Guessing
<1>7. "hello" \notin Guessing /\ "second" \notin Guessing /\ "bye" \notin Guessing
      /\ {"Hello", "YEY", "OK", "exit"} \subseteq Words
    BY DEF Guessing, Words
<1>8. CASE text \in Guessing
    BY <1>1, <1>3, <1>5, <1>6, <1>8
<1>9. CASE text = "hello"
    BY <1>1, <1>3, <1>4, <1>5, <1>6, <1>7, <1>9
<1>10. CASE text = "second"
    BY <1>1, <1>3, <1>4, <1>5, <1>6, <1>7, <1>10
<1>11. CASE text = "bye"
    BY <1>1, <1>3, <1>4, <1>5, <1>6, <1>7, <1>11
<1>12. CASE text \notin Guessing \cup {"hello", "second", "bye"}
    BY <1>1, <1>3, <1>5, <1>6, <1>12
<1> QED BY <1>8, <1>9, <1>10, <1>11, <1>12

(* What the client's steps leave of its state, field by field.              *)
LEMMA SayFields ==
    ASSUME DatagramTypeOK, say
    PROVE  /\ client' \in Clients
           /\ client'.pc = IF mode = "none" THEN "listen" ELSE "ack"
           /\ client'.expect = Expects(client.saying)
           /\ client'.saying = client.saying /\ client'.tries = client.tries
           /\ client'.backflips = client.backflips
           /\ \E m \in Message(mode) : toServer' = Append(toServer, m) /\ m.text = client.saying
<1>1. PICK flip \in Flips(client.saying), letter \in Letter(client.saying) :
        /\ toServer' = Append(toServer, [text |-> client.saying, letter |-> letter,
                                         flip |-> flip])
        /\ client' = [client EXCEPT
                        !.pc = IF mode = "none" THEN "listen" ELSE "ack",
                        !.expect = Expects(client.saying),
                        !.flips = IF flip = NoFlip THEN @ ELSE @ + 1]
    BY DEF say
<1>2. /\ client.saying \in Texts /\ client.flips \in Nat
      /\ client = [pc |-> client.pc, saying |-> client.saying, expect |-> client.expect,
                   tries |-> client.tries, flips |-> client.flips,
                   backflips |-> client.backflips]
    BY ClientFields DEF DatagramTypeOK
<1>3. PICK fl \in Nat : fl = IF flip = NoFlip THEN client.flips ELSE client.flips + 1
    BY <1>2
<1>4. PICK p \in {"listen", "ack"} : p = IF mode = "none" THEN "listen" ELSE "ack"
    OBVIOUS
<1>5. PICK e \in Seq(Words \cup {"number"}) : e = Expects(client.saying)
    BY <1>2, Expected
<1>6. client' = [client EXCEPT !.pc = p, !.expect = e, !.flips = fl]
    BY <1>1, <1>2, <1>3, <1>4, <1>5
<1>7. /\ client' \in Clients /\ client'.pc = p /\ client'.expect = e
      /\ client'.saying = client.saying /\ client'.tries = client.tries
      /\ client'.backflips = client.backflips
    BY <1>6 DEF DatagramTypeOK, Clients
<1>8. letter \in Letters \cup {Plain}
    BY DEF Letter
<1>9. flip \in 0 .. NoFlip
    BY DEF Flips, NoFlip
<1>10. PICK m \in Message(mode) : m = [text |-> client.saying, letter |-> letter, flip |-> flip]
    BY <1>2, <1>8, <1>9 DEF Message
<1>11. m.text = client.saying
    BY <1>10
<1> QED BY <1>1, <1>4, <1>5, <1>7, <1>10, <1>11

LEMMA TypeSay == DatagramTypeOK /\ say => DatagramTypeOK'
<1> SUFFICES ASSUME DatagramTypeOK, say PROVE DatagramTypeOK'
    OBVIOUS
<1>1. PICK m \in Message(mode) : toServer' = Append(toServer, m)
    BY SayFields
<1>2. toServer \in Seq(Message(mode))
    BY DEF DatagramTypeOK
<1>3. toServer' \in Seq(Message(mode))
    BY <1>1, <1>2, AppendType
<1>4. client'.expect \in Expectable(client'.saying)
    BY SayFields, Expected, ClientFields
<1>5. UNCHANGED <<mode, number, toClient, locals>>
    BY DEF say
<1> QED BY <1>3, <1>4, <1>5, SayFields DEF DatagramTypeOK

LEMMA TypeHearAck == DatagramTypeOK /\ hear_ack => DatagramTypeOK'
<1> SUFFICES ASSUME DatagramTypeOK, hear_ack PROVE DatagramTypeOK'
    OBVIOUS
<1>1. PICK p \in {"say", "listen"} : client' = [client EXCEPT !.pc = p]
    BY DEF hear_ack
<1>2. client' \in Clients /\ client'.expect = client.expect /\ client'.saying = client.saying
    BY <1>1 DEF DatagramTypeOK, Clients
<1>3. client.expect \in Expectable(client.saying)
    BY DEF hear_ack, DatagramTypeOK
<1>4. toClient' \in Seq(Answer)
    BY TailType DEF hear_ack, DatagramTypeOK
<1> QED BY <1>2, <1>3, <1>4 DEF DatagramTypeOK, hear_ack

(* An answer that is expected is a number or a word; the client fails on    *)
(* another.                                                                 *)
LEMMA AnsweredFields ==
    ASSUME DatagramTypeOK, client.pc = "listen", client.expect # <<>>, NEW answer \in Answer,
           ~(client.expect = <<"number">> /\ client.tries = MaxTries)
    PROVE  /\ Answered(answer) \in Clients
           /\ Answered(answer).backflips = client.backflips
           /\ \/ /\ Answered(answer).pc = "fail"
                 /\ Answered(answer).saying = client.saying
                 /\ Answered(answer).expect = client.expect
                 /\ client.expect = <<"number">> => answer[1] # "number"
                 /\ client.saying \notin Guessing => answer # Word(Head(client.expect))
              \/ /\ client.saying \in Guessing /\ client.expect = <<"number">>
                 /\ answer \in {"number"} \X Int
                 /\ Answered(answer).pc = "say" /\ Answered(answer).expect = <<>>
                 /\ Answered(answer).tries = client.tries + 1
                 /\ answer[2] = number => Answered(answer).saying = "success"
                 /\ answer[2] < number => Answered(answer).saying = "bigger"
                 /\ answer[2] > number => Answered(answer).saying = "smaller"
              \/ /\ client.saying \notin Guessing
                 /\ answer = Word(Head(client.expect))
                 /\ Answered(answer).pc = "listen"
                 /\ Answered(answer).saying = client.saying
                 /\ Answered(answer).tries = client.tries
                 /\ Answered(answer).expect = Tail(client.expect)
                 /\ Tail(client.expect) \in Expectable(client.saying)
<1> DEFINE c == client
<1>1. /\ c \in Clients /\ c.saying \in Texts /\ c.tries \in 0 .. MaxTries
      /\ c.expect \in Expectable(c.saying) /\ number \in Int /\ MaxTries \in Nat
    BY ClientFields, DatagramAssumption DEF DatagramTypeOK
<1>2. CASE c.saying \in Guessing
    <2>1. c.expect = <<"number">> /\ Head(c.expect) = "number"
        BY <1>1, <1>2, Expected
    <2>2. CASE answer[1] # "number"
        <3>1. Answered(answer) = [client EXCEPT !.pc = "fail"]
            BY <2>1, <2>2 DEF Answered
        <3> QED BY <1>1, <1>2, <2>2, <3>1 DEF Clients
    <2>3. CASE answer[1] = "number"
        <3>1. answer \in {"number"} \X Int /\ answer[2] \in Int
            BY <2>3 DEF Answer
        <3>2. PICK s : s = CASE answer[2] = number -> "success"
                             [] answer[2] < number -> "bigger"
                             [] answer[2] > number -> "smaller"
            OBVIOUS
        <3>3. /\ answer[2] = number => s = "success"
              /\ answer[2] < number => s = "bigger"
              /\ answer[2] > number => s = "smaller"
              /\ s \in Texts
            BY <1>1, <3>1, <3>2, TextNames
        <3>4. PICK t \in 0 .. MaxTries : t = client.tries + 1
            BY <1>1, <2>1
        <3>5. Answered(answer) = [client EXCEPT !.pc = "say", !.tries = t, !.expect = <<>>,
                                                !.saying = s]
            BY <1>1, <2>1, <2>3, <3>2, <3>4 DEF Answered, Clients
        <3>6. <<>> \in Seq(Words \cup {"number"})
            OBVIOUS
        <3>7. /\ Answered(answer) \in Clients
              /\ Answered(answer).backflips = client.backflips
              /\ Answered(answer).pc = "say" /\ Answered(answer).expect = <<>>
              /\ Answered(answer).tries = t /\ Answered(answer).saying = s
            BY <1>1, <3>3, <3>4, <3>5, <3>6 DEF Clients
        <3> QED BY <1>2, <2>1, <3>1, <3>3, <3>4, <3>7
    <2> QED BY <2>2, <2>3
<1>3. CASE c.saying \notin Guessing
    <2>1. Head(c.expect) \in Words /\ Tail(c.expect) \in Expectable(c.saying)
          /\ Tail(c.expect) \in Seq(Words \cup {"number"})
        BY <1>1, <1>3, Expected
    <2>2. Head(c.expect) # "number" /\ c.expect # <<"number">>
        BY <2>1 DEF Words
    <2>3. CASE answer # Word(Head(c.expect))
        <3>1. Answered(answer) = [client EXCEPT !.pc = "fail"]
            BY <2>2, <2>3 DEF Answered
        <3> QED BY <1>1, <1>3, <2>2, <2>3, <3>1 DEF Clients
    <2>4. CASE answer = Word(Head(c.expect))
        <3>1. PICK e \in Seq(Words \cup {"number"}) : e = Tail(c.expect)
            BY <2>1
        <3>2. Answered(answer) = [client EXCEPT !.expect = e]
            BY <1>1, <2>2, <2>4, <3>1 DEF Answered, Clients
        <3>3. Answered(answer) \in Clients /\ Answered(answer).expect = e
              /\ Answered(answer).pc = client.pc /\ Answered(answer).saying = client.saying
              /\ Answered(answer).tries = client.tries
              /\ Answered(answer).backflips = client.backflips
            BY <1>1, <3>1, <3>2 DEF Clients
        <3> QED BY <1>3, <2>1, <2>4, <3>1, <3>3
    <2> QED BY <2>3, <2>4
<1> QED BY <1>2, <1>3

LEMMA ReplyType ==
    DatagramTypeOK =>
        /\ mode # "none" => Reply("ACK") \in Message(mode)
        /\ mode = "parity" => Reply("NACK") \in Message(mode)
    BY DEF Reply, Message, Replies, NoFlip, DatagramTypeOK

LEMMA TypeHear == DatagramTypeOK /\ hear => DatagramTypeOK'
<1> SUFFICES ASSUME DatagramTypeOK, hear PROVE DatagramTypeOK'
    OBVIOUS
<1>1. toClient \in Seq(Answer) /\ toServer \in Seq(Message(mode)) /\ toClient # <<>>
    BY DEF DatagramTypeOK, hear
<1>2. Head(toClient) \in Answer /\ toClient' \in Seq(Answer)
    BY <1>1, TailType DEF hear
<1>3. toServer' \in Seq(Message(mode))
    <2>1. CASE mode = "none"
        BY <1>1, <2>1 DEF hear
    <2>2. CASE mode # "none" /\ toServer' = Append(toServer, Reply("ACK"))
        BY <1>1, <2>2, ReplyType, AppendType
    <2>3. CASE mode = "parity" /\ toServer' = Append(toServer, Reply("NACK"))
        BY <1>1, <2>3, ReplyType, AppendType
    <2> QED BY <2>1, <2>2, <2>3 DEF hear
<1>4. /\ client' \in Clients
      /\ client'.pc \in {"ack", "listen"} => client'.expect \in Expectable(client'.saying)
    <2>1. CASE client' = Answered(Head(toClient))
        BY <1>2, <2>1, AnsweredFields DEF hear
    <2>2. CASE client.backflips < MaxBackFlips
               /\ client' = [client EXCEPT !.backflips = @ + 1]
        <3>1. PICK n \in Nat : n = client.backflips + 1
            BY ClientFields DEF DatagramTypeOK
        <3>2. client' = [client EXCEPT !.backflips = n]
            BY <2>2, <3>1 DEF DatagramTypeOK, Clients
        <3>3. client' \in Clients /\ client'.expect = client.expect
              /\ client'.saying = client.saying /\ client'.pc = client.pc
            BY <3>2 DEF DatagramTypeOK, Clients
        <3> QED BY <3>3 DEF DatagramTypeOK
    <2> QED BY <2>1, <2>2 DEF hear
<1> QED BY <1>2, <1>3, <1>4 DEF DatagramTypeOK, hear

LEMMA TypeGoOn == DatagramTypeOK /\ go_on => DatagramTypeOK'
<1> SUFFICES ASSUME DatagramTypeOK, go_on PROVE DatagramTypeOK'
    OBVIOUS
<1>1. client \in Clients /\ client.saying \in Texts
      /\ client.expect \in Expectable(client.saying) /\ client.pc = "listen"
    BY ClientFields DEF DatagramTypeOK, go_on
<1>2. number' \in Int
    <2>1. number \in Int /\ High \in Nat
        BY DatagramAssumption DEF DatagramTypeOK
    <2> QED BY <2>1 DEF go_on
<1>3. client' \in Clients /\ client'.pc \in {"pass", "say", "fail"}
    <2>1. CASE client.expect = <<>> /\ client.saying = "bye"
        BY <1>1, <2>1, TextNames DEF go_on, Clients
    <2>2. CASE client.expect = <<>> /\ client.saying # "bye"
        <3>1. client.saying \notin Guessing
            <4>1. <<"number">> # <<>>
                OBVIOUS
            <4> QED BY <1>1, <2>2, <4>1, Expected
        <3>2. client.saying \in DOMAIN Following /\ Following[client.saying] \in Texts
            <4>1. client.saying \in {"hello", "yey", "first", "second", "success"}
                BY <1>1, <2>2, <3>1, TextNames DEF Guessing
            <4> QED BY <4>1, TextNames DEF Following
        <3>3. PICK s \in Texts : s = Following[client.saying]
            BY <3>2
        <3>4. client' = [client EXCEPT !.pc = "say", !.saying = s]
              \/ client' = [client EXCEPT !.pc = "fail"]
            BY <2>2, <3>3 DEF go_on
        <3> QED BY <1>1, <3>3, <3>4 DEF Clients
    <2>3. CASE client.expect # <<>>
        <3>1. client' = [client EXCEPT !.pc = "fail"]
            BY <2>3 DEF go_on
        <3> QED BY <1>1, <3>1 DEF Clients
    <2> QED BY <2>1, <2>2, <2>3
<1> QED BY <1>2, <1>3 DEF DatagramTypeOK, go_on

(* A datagram received: what the server may send back.                      *)
LEMMA ServeFields ==
    ASSUME DatagramTypeOK, Serve
    PROVE  /\ Received \in Message(mode) /\ toServer # <<>> /\ toServer' = Tail(toServer)
           /\ toServer' \in Seq(Message(mode))
           /\ UNCHANGED <<mode, number, client>>
    BY TailType DEF DatagramTypeOK, Serve, Received

LEMMA ControlType ==
    Control("ACK") \in Answer /\ Control("NACK") \in Answer /\ Garbage \in Answer
    BY DEF Control, Garbage, Answer

LEMMA ConcatType == ASSUME NEW S, NEW s \in Seq(S), NEW t \in Seq(S) PROVE s \o t \in Seq(S)
    OBVIOUS

LEMMA TypeAnswers ==
    ASSUME DatagramTypeOK, NEW text \in Texts, NEW before \in Seq(Answer), Answers(before, text)
    PROVE  locals' \in Locals /\ toClient' \in Seq(Answer)
<1>1. PICK l \in Locals : toClient' = toClient \o before \o test(text, l) /\ locals' \in Locals
    BY AnswersTo DEF DatagramTypeOK
<1>2. test(text, l) \in Seq(Answer) /\ toClient \in Seq(Answer)
    BY AnswersOf DEF DatagramTypeOK
<1> QED BY <1>1, <1>2, ConcatType

LEMMA TypeSend ==
    ASSUME DatagramTypeOK, NEW answer \in Seq(Answer), Send(answer)
    PROVE  locals' \in Locals /\ toClient' \in Seq(Answer)
    BY ConcatType DEF Send, DatagramTypeOK

LEMMA Befores ==
    /\ <<>> \in Seq(Answer)
    /\ <<Control("ACK")>> \in Seq(Answer) /\ <<Control("NACK")>> \in Seq(Answer)
<1>1. PICK x \in Answer, y \in Answer : x = Control("ACK") /\ y = Control("NACK")
    BY ControlType
<1>2. <<x>> \in Seq(Answer) /\ <<y>> \in Seq(Answer)
    OBVIOUS
<1>3. <<>> \in Seq(Answer)
    OBVIOUS
<1> QED BY <1>1, <1>2, <1>3

(* What each mode does with what it receives, but for misread.              *)
LEMMA ServerSteps ==
    ASSUME DatagramTypeOK, Server
    PROVE  /\ Serve
           /\ \/ Received.text \in Texts /\ Answers(<<>>, Received.text) /\ mode = "none"
              \/ Received.text \in Texts /\ mode # "none"
                 /\ Answers(<<Control("ACK")>>, Received.text)
              \/ Received.text = "ACK" /\ Send(<<>>) /\ mode # "none"
              \/ Received.text \in Texts /\ Send(<<Control("NACK")>>) /\ mode = "parity"
              \/ /\ Received.text = "NACK" /\ mode = "parity"
                 /\ \E t \in {locals.t, Garbage} :
                        toClient' = Append(toClient, t) /\ lost' = (lost \/ t = Garbage)
                 /\ UNCHANGED locals
<1>1. Serve
    BY DEF Server, main_none, main_ack, main_parity, main_hamming
<1>2. Received.text \in Texts \cup Replies(mode)
    BY <1>1, ServeFields DEF Message
<1>3. CASE main_none
    BY <1>1, <1>2, <1>3 DEF main_none, Replies
<1>4. CASE main_ack
    BY <1>1, <1>2, <1>4 DEF main_ack, Replies
<1>5. CASE main_parity
    BY <1>1, <1>5 DEF main_parity
<1>6. CASE main_hamming
    BY <1>1, <1>6 DEF main_hamming
<1> QED BY <1>3, <1>4, <1>5, <1>6 DEF Server

LEMMA TypeServer == DatagramTypeOK /\ Server => DatagramTypeOK'
<1> SUFFICES ASSUME DatagramTypeOK, Server PROVE DatagramTypeOK'
    OBVIOUS
<1>1. locals' \in Locals /\ toClient' \in Seq(Answer)
    <2>1. ASSUME NEW t \in {locals.t, Garbage}, toClient' = Append(toClient, t)
          PROVE  toClient' \in Seq(Answer)
        <3>1. t \in Answer
            BY ControlType DEF DatagramTypeOK, Locals
        <3>2. toClient \in Seq(Answer)
            BY DEF DatagramTypeOK
        <3> QED BY <2>1, <3>1, <3>2, AppendType
    <2>2. UNCHANGED locals => locals' \in Locals
        BY DEF DatagramTypeOK
    <2> QED BY <2>1, <2>2, ServerSteps, TypeAnswers, TypeSend, Befores
<1>2. toServer' \in Seq(Message(mode)) /\ UNCHANGED <<mode, number, client>>
    BY ServerSteps, ServeFields
<1> QED BY <1>1, <1>2 DEF DatagramTypeOK

LEMMA TypeInit == Init => DatagramTypeOK
<1> SUFFICES ASSUME Init PROVE DatagramTypeOK
    OBVIOUS
<1>1. <<>> \in Seq(Words \cup {"number"}) /\ <<>> \in Seq(Message(mode)) /\ <<>> \in Seq(Answer)
    OBVIOUS
<1>2. client \in Clients /\ client.pc = "say"
    <2>1. "hello" \in Texts /\ 0 \in 0 .. MaxTries
        BY TextNames, DatagramAssumption
    <2> QED BY <1>1, <2>1 DEF Init, Clients
<1>3. locals \in Locals
    <2>1. PICK x \in Answer : x = Garbage
        BY ControlType
    <2> QED BY <2>1 DEF Init, Locals
<1>4. mode \in {"none", "ack", "parity", "hamming"} /\ number \in Int
    BY DatagramAssumption DEF Init
<1>5. toServer \in Seq(Message(mode)) /\ toClient \in Seq(Answer)
    BY <1>1 DEF Init
<1> QED BY <1>2, <1>3, <1>4, <1>5 DEF DatagramTypeOK

LEMMA TypeStep == DatagramTypeOK /\ [Next]_vars => DatagramTypeOK'
<1>1. DatagramTypeOK /\ UNCHANGED vars => DatagramTypeOK'
    BY DEF DatagramTypeOK, vars
<1> QED BY <1>1, TypeSay, TypeHearAck, TypeHear, TypeGoOn, TypeServer DEF Next, Client

-----------------------------------------------------------------------------
(* The parity refuses a damaged text, and the code repairs it.              *)
LEMMA ByteOfType == ASSUME NEW n \in Letters \cup {Plain} PROVE ByteOf(n) \in Byte
<1>1. n \in Int
    BY DatagramAssumption DEF Plain
<1>2. ASSUME NEW d \in Nat \ {0} PROVE (n \div d) % 2 \in Bit
    BY <1>1 DEF Bit
<1>3. \A k \in 0 .. 7 : <<128, 64, 32, 16, 8, 4, 2, 1>>[k + 1] \in Nat \ {0}
    OBVIOUS
<1>4. \A k \in 0 .. 7 : (n \div <<128, 64, 32, 16, 8, 4, 2, 1>>[k + 1]) % 2 \in Bit
    BY <1>2, <1>3
<1> QED BY <1>4 DEF ByteOf, Byte

LEMMA ParityRefuses ==
    ASSUME NEW sent \in Byte, NEW m, m.flip \in 0 .. NoFlip,
           InputBit(m, sent) = parity(Flip(sent, m.flip - 8))
    PROVE  Flip(sent, m.flip - 8) = sent
<1>1. m.flip \in 0 .. 16 /\ DOMAIN sent = 0 .. 7 /\ parity(sent) \in Bit
    <2>1. parity(sent) \in Bit
        BY ParityChanges
    <2> QED BY <2>1 DEF NoFlip, Byte
<1>2. CASE m.flip - 8 \in 0 .. 7
    <2>1. parity(Flip(sent, m.flip - 8)) = 1 - parity(sent)
        BY <1>2, ParityChanges
    <2>2. InputBit(m, sent) = parity(sent)
        BY <1>1, <1>2 DEF InputBit, Bit
    <2> QED BY <1>1, <2>1, <2>2 DEF Bit
<1>3. CASE m.flip - 8 \notin 0 .. 7
    BY <1>1, <1>3 DEF Flip
<1> QED BY <1>2, <1>3

LEMMA HammingRepairs ==
    ASSUME NEW n \in Letters \cup {Plain}, NEW p \in 0 .. NoFlip PROVE Decodes[n][p]
<1>1. coded[n] = coded_byte(ByteOf(n))
    BY DEF coded
<1>2. decoded_byte(Flip(coded[n], p)) = ByteOf(n)
    BY <1>1, ByteOfType, HammingCorrects DEF NoFlip
<1> QED BY <1>2 DEF Decodes

LEMMA UnderstoodStep == DatagramTypeOK /\ Understood /\ [Next]_vars => Understood'
<1> SUFFICES ASSUME DatagramTypeOK, Understood, [Next]_vars PROVE Understood'
    OBVIOUS
<1>1. CASE Serve
    <2>1. Received.letter \in Letters \cup {Plain} /\ Received.flip \in 0 .. NoFlip
        BY <1>1, ServeFields DEF Message
    <2>2. CASE main_parity
        <3>1. ByteOf(Received.letter) \in Byte
            BY <2>1, ByteOfType
        <3>2. InputBit(Received, ByteOf(Received.letter))
                    = parity(Flip(ByteOf(Received.letter), Received.flip - 8))
              => Flip(ByteOf(Received.letter), Received.flip - 8) = ByteOf(Received.letter)
            BY <2>1, <3>1, ParityRefuses
        <3> QED BY <2>2, <3>2 DEF main_parity, Understood
    <2>3. CASE main_hamming
        BY <2>1, <2>3, HammingRepairs DEF main_hamming, Understood
    <2>4. CASE main_none \/ main_ack \/ Client \/ UNCHANGED vars
        BY <2>4 DEF main_none, main_ack, Client, say, hear_ack, hear, go_on, vars, Understood
    <2> QED BY <2>2, <2>3, <2>4 DEF Next, Server
<1>2. CASE ~Serve
    BY <1>2 DEF Next, Server, main_none, main_ack, main_parity, main_hamming, Client,
                say, hear_ack, hear, go_on, vars, Understood
<1> QED BY <1>1, <1>2

-----------------------------------------------------------------------------
(* One datagram less is as silent.                                          *)
LEMMA QuietServed ==
    ASSUME DatagramTypeOK, toServer # <<>>, toServer' = Tail(toServer), mode' = mode, Quiet
    PROVE  Quiet' /\ Silent(Received)
<1>1. /\ toServer \in Seq(Message(mode)) /\ Len(toServer) \in Nat /\ Len(toServer) > 0
      /\ DOMAIN toServer = 1 .. Len(toServer) /\ Received = toServer[1]
      /\ DOMAIN toServer' = 1 .. Len(toServer) - 1
      /\ \A k \in DOMAIN toServer' : toServer'[k] = toServer[k + 1]
    BY DEF DatagramTypeOK, Received
<1>2. Silent(toServer[1])
    BY <1>1 DEF Quiet
<1>3. \A k \in DOMAIN toServer' : Silent(toServer'[k])
    BY <1>1 DEF Quiet
<1> QED BY <1>1, <1>2, <1>3 DEF Quiet, Silent

LEMMA AskedServed ==
    ASSUME DatagramTypeOK, toServer' = Tail(toServer), mode' = mode, NEW text, Asked(text)
    PROVE  \/ Silent(Received) /\ Asked(text)'
           \/ Received.text = text /\ Quiet'
<1>1. /\ toServer \in Seq(Message(mode)) /\ Len(toServer) \in Nat /\ Len(toServer) > 0
      /\ toServer[Len(toServer)].text = text
      /\ DOMAIN toServer = 1 .. Len(toServer) /\ Received = toServer[1]
      /\ toServer' \in Seq(Message(mode)) /\ Len(toServer') = Len(toServer) - 1
      /\ DOMAIN toServer' = 1 .. Len(toServer) - 1
      /\ \A k \in 1 .. Len(toServer) - 1 : toServer'[k] = toServer[k + 1]
    BY DEF DatagramTypeOK, Received, Asked
<1>2. \A k \in 1 .. Len(toServer) - 1 : Silent(toServer[k])
    BY DEF Asked
<1>3. CASE Len(toServer) = 1
    <2>1. DOMAIN toServer' = {}
        BY <1>1, <1>3
    <2> QED BY <1>1, <1>3, <2>1 DEF Quiet
<1>4. CASE Len(toServer) # 1
    <2>1. Silent(Received) /\ toServer' # <<>>
        <3>1. 1 \in 1 .. Len(toServer) - 1 /\ Len(toServer') # 0
            BY <1>1, <1>4
        <3>2. Silent(Received)
            BY <1>1, <1>2, <3>1
        <3>3. toServer' # <<>>
            BY <3>1
        <3> QED BY <3>2, <3>3
    <2>2. toServer'[Len(toServer')].text = text
        <3>1. Len(toServer) - 1 \in 1 .. Len(toServer) - 1
            BY <1>1, <1>4
        <3>2. toServer'[Len(toServer) - 1] = toServer[Len(toServer)]
            BY <1>1, <3>1
        <3> QED BY <1>1, <3>2
    <2>3. ASSUME NEW k \in 1 .. Len(toServer') - 1 PROVE Silent(toServer'[k])
        <3>1. k \in 1 .. Len(toServer) - 1 /\ k + 1 \in 1 .. Len(toServer) - 1
            BY <1>1
        <3> QED BY <1>1, <1>2, <3>1
    <2> QED BY <2>1, <2>2, <2>3 DEF Asked, Silent
<1> QED BY <1>3, <1>4

(* A silent datagram more, and a text more.                                 *)
LEMMA QuietSent ==
    ASSUME DatagramTypeOK, Quiet, mode' = mode, NEW m \in Message(mode),
           toServer' = Append(toServer, m)
    PROVE  (Silent(m) => Quiet') /\ Asked(m.text)'
<1>1. /\ toServer \in Seq(Message(mode)) /\ Len(toServer) \in Nat
      /\ DOMAIN toServer = 1 .. Len(toServer)
      /\ toServer' \in Seq(Message(mode)) /\ Len(toServer') = Len(toServer) + 1
      /\ DOMAIN toServer' = 1 .. Len(toServer) + 1
      /\ \A k \in 1 .. Len(toServer) : toServer'[k] = toServer[k]
      /\ toServer'[Len(toServer) + 1] = m
    BY DEF DatagramTypeOK
<1>2. \A k \in 1 .. Len(toServer) : Silent(toServer'[k])
    BY <1>1 DEF Quiet
<1>3. Silent(m) => \A k \in 1 .. Len(toServer) + 1 : Silent(toServer'[k])
    BY <1>1, <1>2
<1>4. Silent(m) => Quiet'
    BY <1>1, <1>3 DEF Quiet, Silent
<1>5. toServer' # <<>> /\ toServer'[Len(toServer')].text = m.text
    BY <1>1
<1>6. \A k \in 1 .. Len(toServer') - 1 : Silent(toServer'[k])
    BY <1>1, <1>2
<1>7. Asked(m.text)'
    BY <1>5, <1>6 DEF Asked, Silent
<1> QED BY <1>4, <1>7

(* The server does nothing for what is silent.                              *)
LEMMA SilentServed ==
    ASSUME DatagramTypeOK, Server, Silent(Received)
    PROVE  UNCHANGED <<mode, number, client, toClient, locals>>
<1>1. Serve /\ Received.text # "NACK" /\ (mode # "none" => Received.text = "ACK")
    BY ServerSteps, TextNames DEF Silent
<1>2. "ACK" \notin Texts
    BY TextNames
<1>3. toClient \in Seq(Answer) /\ toClient \o <<>> = toClient
    BY DEF DatagramTypeOK
<1>4. CASE mode = "none"
    <2>1. PICK text \in Texts \ (Guessing \cup {"hello", "second", "bye"}) :
                Received.text = text /\ Answers(<<>>, text)
        BY <1>4, ServerSteps, TextNames DEF Silent, Guessing
    <2>2. a[text] = <<>> /\ test(text, locals) = <<>> /\ Narrowed(text, locals) = locals
        BY <2>1, WordsBack, AnswersOf, Intervals DEF DatagramTypeOK
    <2>3. toClient' = toClient \o <<>> \o <<>>
          /\ locals' \in Locals /\ locals'.low = locals.low /\ locals'.high = locals.high
          /\ locals'.mid = locals.mid /\ locals'.t = locals.t
        <3>1. locals \in Locals /\ text \in Texts /\ text \notin {"smaller", "bigger"}
            BY <2>1 DEF DatagramTypeOK, Guessing
        <3>2. PICK l \in Locals :
                /\ toClient' = toClient \o <<>> \o test(text, l)
                /\ locals' \in Locals
                /\ locals'.low = Narrowed(text, l).low /\ locals'.high = Narrowed(text, l).high
                /\ locals'.mid = Narrowed(text, l).mid
                /\ mode # "hamming" => l = locals
                /\ test(text, l) = <<>> => locals'.t = l.t
            BY <2>1, <3>1, AnswersTo
        <3>3. l = locals
            BY <1>4, <3>2
        <3> QED BY <2>2, <3>1, <3>2, <3>3
    <2>4. locals' = locals
        BY <2>3 DEF DatagramTypeOK, Locals
    <2> QED BY <1>1, <1>3, <2>3, <2>4, ServeFields
<1>5. CASE mode # "none"
    BY <1>1, <1>2, <1>3, <1>5, ServerSteps, ServeFields DEF Send
<1> QED BY <1>4, <1>5

-----------------------------------------------------------------------------
(* The binary search.                                                       *)
LEMMA Halves ==
    ASSUME NEW low \in Int, NEW high \in Int, NEW mid, mid = Half(low + high)
    PROVE  mid \in Int /\ 2 * mid <= low + high + 1 /\ low + high - 1 <= 2 * mid
<1>1. PICK s \in Int : s = low + high
    OBVIOUS
<1>2. CASE s < 0
    <2>1. mid = -((-s) \div 2)
        BY <1>1, <1>2 DEF Half
    <2> QED BY <1>1, <1>2, <2>1
<1>3. CASE s >= 0
    <2>1. mid = s \div 2
        BY <1>1, <1>3 DEF Half
    <2> QED BY <1>1, <1>3, <2>1
<1> QED BY <1>2, <1>3

(* While the number is in the interval the client has a guess left, and      *)
(* each guess leaves an interval that one guess less can search.            *)
LEMMA GuessLeft ==
    ASSUME DatagramTypeOK, Chosen, client.saying \in Guessing, ToNarrow \/ Narrow
    PROVE  client.tries # MaxTries
<1>1. SUFFICES ASSUME client.tries = MaxTries PROVE FALSE
    OBVIOUS
<1>2. /\ MaxTries \in Nat /\ High \in Nat /\ number \in Int
      /\ locals.low \in Int /\ locals.high \in Int /\ locals.mid \in Int
    BY DatagramAssumption DEF DatagramTypeOK, Locals
<1>3. Reach[MaxTries - client.tries] = 0
    <2>1. MaxTries - client.tries = 0
        BY <1>1, <1>2
    <2> QED BY <2>1, ReachHalves
<1>4. CASE ToNarrow
    <2>1. client.saying = "game" => Reach[MaxTries] = 0
        BY <1>1, <1>2, <1>4, ReachHalves DEF ToNarrow
    <2>2. client.saying # "game"
        BY <1>2, <2>1, EnoughGuesses
    <2> QED BY <1>2, <1>3, <1>4, <2>2 DEF ToNarrow, Guessing
<1>5. CASE Narrow
    BY <1>2, <1>3, <1>5 DEF Narrow
<1> QED BY <1>4, <1>5

LEMMA OneGuessLess ==
    ASSUME DatagramTypeOK, Narrow, client.saying \in Guessing, client.tries # MaxTries
    PROVE  /\ number < locals.mid => 
                /\ locals.low <= number
                /\ locals.mid - locals.low <= Reach[MaxTries - (client.tries + 1)]
           /\ locals.mid < number =>
                /\ number <= locals.high
                /\ locals.high - locals.mid <= Reach[MaxTries - (client.tries + 1)]
<1>1. /\ MaxTries \in Nat /\ number \in Int /\ client.tries \in 0 .. MaxTries
      /\ locals.low \in Int /\ locals.high \in Int /\ locals.mid \in Int
    BY DatagramAssumption, ClientFields DEF DatagramTypeOK, Locals
<1>2. PICK n \in 1 .. MaxTries : n = MaxTries - client.tries
    BY <1>1
<1>3. n - 1 = MaxTries - (client.tries + 1)
    BY <1>1, <1>2
<1>4. Reach[n] = 2 * Reach[n - 1] + 1 /\ Reach[n - 1] \in Nat
    <2>1. n \in 1 .. MaxTries /\ n - 1 \in 0 .. MaxTries
        BY <1>1, <1>2
    <2> QED BY <2>1, ReachHalves
<1>5. /\ locals.low <= number /\ number <= locals.high
      /\ locals.mid = Half(locals.low + locals.high)
      /\ locals.high - locals.low + 1 <= 2 * Reach[n - 1] + 1
    BY <1>2, <1>4 DEF Narrow
<1>6. 2 * locals.mid <= locals.low + locals.high + 1
      /\ locals.low + locals.high - 1 <= 2 * locals.mid
    BY <1>1, <1>5, Halves
<1>7. PICK r \in Nat : r = Reach[n - 1]
    BY <1>4
<1>8. locals.mid - locals.low <= r /\ locals.high - locals.mid <= r
    BY <1>1, <1>5, <1>6, <1>7
<1> QED BY <1>3, <1>5, <1>7, <1>8

(* The text the client says is served: the interval is narrowed to the      *)
(* number, and the answers are what the client is told.                     *)
LEMMA TextServed ==
    ASSUME DatagramTypeOK, Chosen, ToNarrow, NEW before \in Seq(Answer),
           client.expect = Expects(client.saying),
           Answers(before, client.saying), UNCHANGED <<mode, number, client>>
    PROVE  \/ lost'
           \/ Narrow' /\ LastTold' /\ toClient' = toClient \o before \o Told'
<1>1. PICK l \in Locals :
            /\ toClient' = toClient \o before \o test(client.saying, l)
            /\ locals' \in Locals
            /\ locals'.low = Narrowed(client.saying, l).low
            /\ locals'.high = Narrowed(client.saying, l).high
            /\ locals'.mid = Narrowed(client.saying, l).mid
            /\ test(client.saying, l) # <<>> => locals'.t = Last(test(client.saying, l))
            /\ lost' = (lost \/ (l # locals /\ client.saying \in {"smaller", "bigger"}))
    <2>1. client.saying \in Texts /\ locals \in Locals
        BY ClientFields DEF DatagramTypeOK
    <2> QED BY <2>1, AnswersTo
<1>2. /\ client.saying \in Texts /\ High \in Nat /\ number \in Int /\ MaxTries \in Nat
      /\ client.tries \in 0 .. MaxTries
      /\ l.low \in Int /\ l.high \in Int /\ l.mid \in Int
      /\ client.expect \in Seq(Words \cup {"number"})
    BY ClientFields, DatagramAssumption DEF DatagramTypeOK, Locals
<1>3. CASE client.saying \in Guessing
    <2>1. SUFFICES ASSUME client.saying \in {"smaller", "bigger"} => l = locals
                   PROVE  Narrow' /\ LastTold' /\ toClient' = toClient \o before \o Told'
        BY <1>1
    <2>2. Narrow'
        <3>1. locals'.mid = Half(locals'.low + locals'.high)
            BY <1>1, <1>3, Intervals
        <3>2. CASE client.saying = "game"
            <4>1. locals'.low = 0 /\ locals'.high = High
                BY <1>1, <3>2, Intervals
            <4>2. number \in 0 .. High - 1 /\ client.tries = 0
                BY <1>3, <3>2 DEF Chosen, ToNarrow
            <4>3. High - 0 + 1 <= Reach[MaxTries - 0]
                BY <1>2, EnoughGuesses
            <4> QED BY <1>2, <3>1, <4>1, <4>2, <4>3 DEF Narrow
        <3>3. CASE client.saying = "smaller"
            <4>1. locals'.low = locals.low /\ locals'.high = locals.mid - 1
                BY <1>1, <2>1, <3>3, Intervals
            <4>2. locals.low <= number /\ number < locals.mid
                  /\ locals.mid - locals.low <= Reach[MaxTries - client.tries]
                BY <3>3 DEF ToNarrow
            <4>3. (locals.mid - 1) - locals.low + 1 = locals.mid - locals.low
                  /\ number <= locals.mid - 1
                BY <1>2, <2>1, <3>3, <4>2
            <4> QED BY <3>1, <4>1, <4>2, <4>3 DEF Narrow
        <3>4. CASE client.saying = "bigger"
            <4>1. locals'.low = locals.mid + 1 /\ locals'.high = locals.high
                BY <1>1, <2>1, <3>4, Intervals
            <4>2. locals.mid < number /\ number <= locals.high
                  /\ locals.high - locals.mid <= Reach[MaxTries - client.tries]
                BY <3>4 DEF ToNarrow
            <4>3. locals.high - (locals.mid + 1) + 1 = locals.high - locals.mid
                  /\ locals.mid + 1 <= number
                BY <1>2, <2>1, <3>4, <4>2
            <4> QED BY <3>1, <4>1, <4>2, <4>3 DEF Narrow
        <3> QED BY <1>3, <3>2, <3>3, <3>4 DEF Guessing
    <2>3. client.expect = <<"number">>
        BY <1>2, <1>3, Expected
    <2>4. Told' = <<Guessed(locals'.mid)>>
        BY <2>3 DEF Told
    <2>5. test(client.saying, l) = Told'
        BY <1>1, <1>2, <1>3, <2>4, AnswersOf
    <2>6. LastTold'
        <3>1. Last(<<Guessed(locals'.mid)>>) = Guessed(locals'.mid)
              /\ <<Guessed(locals'.mid)>> # <<>>
            BY DEF Last
        <3>2. locals'.t = Guessed(locals'.mid)
            BY <1>1, <2>4, <2>5, <3>1
        <3>3. Told'[Len(client'.expect)] = Guessed(locals'.mid)
            BY <2>3, <2>4
        <3> QED BY <3>2, <3>3 DEF LastTold
    <2> QED BY <1>1, <2>2, <2>5, <2>6
<1>4. CASE client.saying \notin Guessing
    <2>1. Narrow'
        BY <1>4 DEF Narrow
    <2>2. test(client.saying, l) = a[client.saying]
        BY <1>2, <1>4, AnswersOf
    <2>3. CASE client.saying \in {"hello", "bye"}
        <3>1. PICK w \in {"Hello", "exit"} : client.expect = <<w>> /\ a[client.saying] = <<Word(w)>>
            BY <2>3, WordsBack DEF Expects
        <3>2. Told' = <<Word(w)>>
            BY <3>1 DEF Told
        <3>3. Last(<<Word(w)>>) = Word(w) /\ <<Word(w)>> # <<>>
            BY DEF Last
        <3>4. locals'.t = Word(w) /\ Told'[Len(client'.expect)] = Word(w)
            BY <1>1, <2>2, <3>1, <3>2, <3>3
        <3> QED BY <1>1, <2>1, <2>2, <3>1, <3>2, <3>4 DEF LastTold
    <2>4. CASE client.saying = "second"
        <3>1. client.expect = <<"YEY", "OK">> /\ a[client.saying] = <<Word("YEY"), Word("OK")>>
            BY <2>4, WordsBack DEF Expects
        <3>2. Told' = <<Word("YEY"), Word("OK")>>
            BY <3>1 DEF Told
        <3>3. Last(<<Word("YEY"), Word("OK")>>) = Word("OK")
              /\ <<Word("YEY"), Word("OK")>> # <<>>
            BY DEF Last
        <3>4. locals'.t = Word("OK") /\ Told'[Len(client'.expect)] = Word("OK")
            BY <1>1, <2>2, <3>1, <3>2, <3>3
        <3> QED BY <1>1, <2>1, <2>2, <3>1, <3>2, <3>4 DEF LastTold
    <2>5. CASE client.saying \notin {"hello", "bye", "second"}
        <3>1. client.expect = <<>> /\ a[client.saying] = <<>>
            BY <1>2, <1>4, <2>5, WordsBack, TextNames DEF Expects, Guessing
        <3>2. Told' = <<>>
            BY <3>1 DEF Told
        <3> QED BY <1>1, <2>1, <2>2, <3>1, <3>2 DEF LastTold
    <2> QED BY <2>3, <2>4, <2>5
<1> QED BY <1>3, <1>4

Phase == Saying \/ HasAsked \/ Acknowledged \/ Refused \/ Listening \/ AskedAgain

(* The server's step in each phase.                                         *)
LEMMA ServedStep ==
    ASSUME DatagramTypeOK, Chosen, Phase, Server
    PROVE  Conversation'
<1>1. /\ Serve /\ toServer # <<>> /\ toServer' = Tail(toServer)
      /\ UNCHANGED <<mode, number, client>>
    BY ServerSteps, ServeFields
<1>2. Chosen'
    BY <1>1 DEF Chosen
<1>3. CASE Silent(Received)
    <2>1. UNCHANGED <<mode, number, client, toClient, locals>>
        BY <1>3, SilentServed
    <2>2. Quiet => Quiet'
        BY <1>1, QuietServed
    <2>3. (ToNarrow => ToNarrow') /\ (Narrow => Narrow') /\ (LastTold => LastTold')
          /\ Told' = Told
        BY <2>1 DEF ToNarrow, Narrow, LastTold, Told
    <2>4. \A text : Asked(text) => Asked(text)' \/ (Received.text = text /\ Quiet')
        BY <1>1, AskedServed
    <2>5. CASE Saying
        BY <1>2, <2>1, <2>2, <2>3, <2>5 DEF Saying, Conversation
    <2>6. CASE HasAsked
        <3>0. PICK text : text = client.saying /\ text = client'.saying
            BY <2>1
        <3>1. CASE Asked(text)'
            <4>1. Asked(client.saying)'
                BY <3>0, <3>1 DEF Asked
            <4> QED BY <1>2, <2>1, <2>3, <2>6, <4>1 DEF HasAsked, Conversation
        <3>2. CASE ~Asked(text)'
            <4>1. Received.text = client.saying /\ Quiet'
                BY <2>4, <2>6, <3>0, <3>2 DEF HasAsked
            <4>2. mode = "none" /\ client.expect # <<>>
                BY <1>3, <2>6, <4>1, TextNames, ClientFields DEF HasAsked, Silent, DatagramTypeOK
            <4>3. client.saying \in {"yey", "first", "success"}
                BY <1>3, <4>1, <4>2 DEF Silent
            <4> QED BY <2>6, <4>2, <4>3 DEF HasAsked, Expects
        <3> QED BY <3>1, <3>2
    <2>7. CASE Acknowledged
        BY <1>2, <2>1, <2>2, <2>3, <2>7 DEF Acknowledged, Conversation
    <2>8. CASE Refused
        BY <1>2, <2>1, <2>2, <2>3, <2>8 DEF Refused, Conversation
    <2>9. CASE Listening
        BY <1>2, <2>1, <2>2, <2>3, <2>9 DEF Listening, Conversation
    <2>10. CASE AskedAgain
        <3>1. Asked("NACK")'
            BY <1>3, <2>4, <2>10 DEF AskedAgain, Silent
        <3> QED BY <1>2, <2>1, <2>3, <2>10, <3>1 DEF AskedAgain, Conversation
    <2> QED BY <2>5, <2>6, <2>7, <2>8, <2>9, <2>10 DEF Phase
<1>4. CASE ~Silent(Received)
    <2>1. ~Quiet
        BY <1>1, <1>4, QuietServed
    <2>2. \A text : Asked(text) => Received.text = text /\ Quiet'
        BY <1>1, <1>4, AskedServed
    <2>3. CASE HasAsked
        <3>1. /\ Received.text = client.saying /\ Quiet' /\ client.saying \in Texts
              /\ client.expect = Expects(client.saying) /\ toClient = <<>> /\ ToNarrow
              /\ client.pc = IF mode = "none" THEN "listen" ELSE "ack"
            BY <2>2, <2>3, ClientFields DEF HasAsked, DatagramTypeOK
        <3>2. CASE mode = "none" /\ Answers(<<>>, client.saying)
            <4>1. lost' \/ (Narrow' /\ LastTold' /\ toClient' = toClient \o <<>> \o Told')
                BY <1>1, <3>1, <3>2, TextServed, Befores
            <4>2. toClient \o <<>> \o Told' = Told'
                <5>1. Told' \in Seq({Told'[k] : k \in DOMAIN Told'})
                    BY <1>1, <3>1, ClientFields DEF Told, DatagramTypeOK
                <5> QED BY <3>1, <5>1
            <4>3. client'.expect \in Expectable(client'.saying)
                BY <1>1, <3>1, Expected
            <4> QED BY <1>1, <1>2, <3>1, <3>2, <4>1, <4>2, <4>3 DEF Conversation, Listening
        <3>3. CASE mode # "none" /\ Answers(<<Control("ACK")>>, client.saying)
            <4>1. lost' \/ (Narrow' /\ LastTold'
                                /\ toClient' = toClient \o <<Control("ACK")>> \o Told')
                BY <1>1, <3>1, <3>3, TextServed, Befores
            <4>2. toClient \o <<Control("ACK")>> = <<Control("ACK")>>
                BY <3>1
            <4> QED BY <1>1, <1>2, <3>1, <3>3, <4>1, <4>2 DEF Conversation, Acknowledged
        <3>4. CASE mode = "parity" /\ Send(<<Control("NACK")>>)
            <4>1. toClient' = <<Control("NACK")>> /\ UNCHANGED locals
                BY <3>1, <3>4 DEF Send
            <4>2. ToNarrow'
                BY <1>1, <3>1, <4>1 DEF ToNarrow
            <4> QED BY <1>1, <1>2, <3>1, <3>4, <4>1, <4>2 DEF Conversation, Refused
        <3>5. client.saying # "ACK" /\ client.saying # "NACK"
            BY <3>1, TextNames
        <3> QED BY <3>1, <3>2, <3>3, <3>4, <3>5, ServerSteps
    <2>4. CASE AskedAgain
        <3>1. /\ Received.text = "NACK" /\ Quiet' /\ LastTold /\ Narrow /\ toClient = <<>>
              /\ Len(client.expect) = 1
            BY <2>2, <2>4 DEF AskedAgain
        <3>2. PICK t \in {locals.t, Garbage} :
                toClient' = Append(toClient, t) /\ lost' = (lost \/ t = Garbage)
            BY <3>1, ServerSteps, TextNames
        <3>3. UNCHANGED locals
            BY <3>1, ServerSteps, TextNames
        <3>4. CASE t = Garbage
            BY <3>2, <3>4 DEF Conversation
        <3>5. CASE t = locals.t
            <4>0. PICK e \in Seq(Words \cup {"number"}) : e = client.expect
                BY ClientFields DEF DatagramTypeOK
            <4>1. DOMAIN client.expect = 1 .. 1 /\ client.expect # <<>>
                BY <3>1, <4>0
            <4>2. t = Told[1]
                BY <3>1, <3>5, <4>1 DEF LastTold
            <4>3. toClient' = <<t>>
                BY <3>1, <3>2
            <4>4. Told = <<t>>
                BY <4>1, <4>2 DEF Told
            <4>5. Told' = Told /\ Narrow' /\ LastTold'
                BY <1>1, <3>1, <3>3 DEF Told, Narrow, LastTold
            <4> QED BY <1>1, <1>2, <2>4, <3>1, <4>3, <4>4, <4>5
                    DEF AskedAgain, Listening, Conversation
        <3> QED BY <3>2, <3>4, <3>5
    <2> QED BY <2>1, <2>3, <2>4 DEF Phase, Saying, Acknowledged, Refused, Listening
<1> QED BY <1>3, <1>4

LEMMA ExpectsNothing ==
    ASSUME NEW text \in Texts, Expects(text) = <<>>
    PROVE  text \in {"yey", "first", "success"}
<1>1. <<"Hello">> # <<>> /\ <<"YEY", "OK">> # <<>> /\ <<"number">> # <<>> /\ <<"exit">> # <<>>
    OBVIOUS
<1> QED BY <1>1, TextNames DEF Expects

LEMMA SayStep ==
    ASSUME DatagramTypeOK, Chosen, Phase, say
    PROVE  Conversation'
<1>1. client.pc = "say" /\ UNCHANGED <<mode, number, toClient, locals>>
    BY DEF say
<1>2. Quiet /\ toClient = <<>> /\ ToNarrow
    BY <1>1 DEF Phase, Saying, HasAsked, Acknowledged, Refused, Listening, AskedAgain
<1>3. PICK m \in Message(mode) : toServer' = Append(toServer, m) /\ m.text = client.saying
    BY SayFields
<1>4. (Silent(m) => Quiet') /\ Asked(m.text)'
    BY <1>1, <1>2, <1>3, QuietSent
<1>5. /\ client'.pc = IF mode = "none" THEN "listen" ELSE "ack"
      /\ client'.expect = Expects(client.saying) /\ client.saying \in Texts
      /\ client'.saying = client.saying /\ client'.tries = client.tries
    BY SayFields, ClientFields DEF DatagramTypeOK
<1>6. Chosen' /\ ToNarrow'
    BY <1>1, <1>2, <1>5 DEF Chosen, ToNarrow
<1>7. CASE mode = "none" /\ client'.expect = <<>>
    <2>1. client.saying \in {"yey", "first", "success"}
        BY <1>5, <1>7, ExpectsNothing
    <2>2. Quiet'
        BY <1>3, <1>4, <1>7, <2>1 DEF Silent
    <2>3. Told' = <<>> /\ LastTold' /\ Narrow'
        BY <1>5, <1>7, <2>1 DEF Told, LastTold, Narrow, Guessing
    <2> QED BY <1>1, <1>2, <1>5, <1>6, <1>7, <2>2, <2>3, Expected DEF Listening, Conversation
<1>8. CASE mode # "none" \/ client'.expect # <<>>
    <2>1. Asked(client.saying)'
        BY <1>3, <1>4, <1>5 DEF Asked
    <2> QED BY <1>1, <1>2, <1>5, <1>6, <1>8, <2>1 DEF HasAsked, Conversation
<1> QED BY <1>7, <1>8

LEMMA ToldSequence ==
    DatagramTypeOK =>
        /\ Len(client.expect) \in Nat
        /\ \E S : Told \in Seq(S) /\ Len(Told) = Len(client.expect)
<1> SUFFICES ASSUME DatagramTypeOK
             PROVE  /\ Len(client.expect) \in Nat
                    /\ \E S : Told \in Seq(S) /\ Len(Told) = Len(client.expect)
    OBVIOUS
<1>1. PICK e \in Seq(Words \cup {"number"}) : e = client.expect
    BY ClientFields DEF DatagramTypeOK
<1>2. PICK n \in Nat : n = Len(e) /\ DOMAIN e = 1 .. n
    BY <1>1
<1>3. PICK t, S : t = Told /\ S = {Told[k] : k \in 1 .. n}
    OBVIOUS
<1>4. t = [k \in 1 .. n |-> t[k]] /\ \A k \in 1 .. n : t[k] \in S
    BY <1>1, <1>2, <1>3 DEF Told
<1>5. t \in Seq(S) /\ Len(t) = n
    BY <1>4
<1> QED BY <1>1, <1>2, <1>3, <1>5

LEMMA HearAckStep ==
    ASSUME DatagramTypeOK, Chosen, Phase, hear_ack
    PROVE  Conversation'
<1>1. /\ client.pc = "ack" /\ toClient # <<>> /\ toClient' = Tail(toClient)
      /\ client' = [client EXCEPT
                    !.pc = IF mode = "parity" /\ Head(toClient) # Control("ACK")
                           THEN "say" ELSE "listen"]
      /\ UNCHANGED <<mode, number, toServer, locals>>
    BY DEF hear_ack
<1>2. /\ client'.expect = client.expect /\ client'.saying = client.saying
      /\ client'.tries = client.tries
      /\ client'.pc = IF mode = "parity" /\ Head(toClient) # Control("ACK")
                      THEN "say" ELSE "listen"
    BY <1>1 DEF DatagramTypeOK, Clients
<1>3. Chosen' /\ (ToNarrow => ToNarrow') /\ (Narrow => Narrow') /\ (Quiet => Quiet')
      /\ (LastTold => LastTold') /\ Told' = Told
    BY <1>1, <1>2 DEF Chosen, ToNarrow, Narrow, Quiet, Silent, LastTold, Told
<1>4. Acknowledged \/ Refused
    BY <1>1 DEF Phase, Saying, HasAsked, Acknowledged, Refused, Listening, AskedAgain
<1>5. CASE Acknowledged
    <2>1. Head(toClient) = Control("ACK") /\ toClient' = Told
        <3>1. PICK S : Told \in Seq(S)
            BY ToldSequence
        <3> QED BY <1>1, <1>5, <3>1 DEF Acknowledged
    <2>3. client.expect \in Expectable(client.saying)
        BY <1>5, Expected, ClientFields DEF Acknowledged, DatagramTypeOK
    <2> QED BY <1>1, <1>2, <1>3, <1>5, <2>1, <2>3 DEF Acknowledged, Listening, Conversation
<1>6. CASE Refused
    <2>1. Head(toClient) # Control("ACK") /\ toClient' = <<>>
        <3>1. Control("NACK") # Control("ACK")
            BY DEF Control
        <3> QED BY <1>1, <1>6, <3>1 DEF Refused
    <2> QED BY <1>1, <1>2, <1>3, <1>6, <2>1 DEF Refused, Saying, Conversation
<1> QED BY <1>4, <1>5, <1>6

LEMMA GoOnStep ==
    ASSUME DatagramTypeOK, Chosen, Phase, go_on
    PROVE  Conversation'
<1>1. client.pc = "listen" /\ UNCHANGED <<mode, toServer, toClient, locals>>
      /\ number' \in IF client.saying = "second" THEN 0 .. High - 1 ELSE {number}
    BY DEF go_on
<1>2. /\ client.expect \in Expectable(client.saying) /\ client.saying \in Texts
      /\ client \in Clients
    BY <1>1, ClientFields DEF DatagramTypeOK
<1>3. Listening \/ AskedAgain \/ HasAsked
    BY <1>1 DEF Phase, Saying, Acknowledged, Refused
<1>4. ToNarrow \/ Narrow
    BY <1>3 DEF Listening, AskedAgain, HasAsked
<1>5. client.expect = <<>>
    <2>1. SUFFICES ASSUME client.expect = <<"number">>, client.tries = MaxTries PROVE FALSE
        BY DEF go_on
    <2>2. client.saying \in Guessing
        <3>1. SUFFICES ASSUME client.saying \notin Guessing PROVE FALSE
            OBVIOUS
        <3>2. Head(<<"number">>) = "number" /\ <<"number">> # <<>>
            OBVIOUS
        <3>3. Head(client.expect) \in Words
            BY <1>2, <2>1, <3>1, <3>2, Expected
        <3> QED BY <2>1, <3>2, <3>3 DEF Words
    <2> QED BY <1>4, <2>1, <2>2, GuessLeft
<1>6. <<"number">> # <<>> /\ Len(<<>>) # 1
    OBVIOUS
<1>7. Listening /\ Quiet /\ toClient = Told
    BY <1>1, <1>3, <1>5, <1>6 DEF Listening, AskedAgain, HasAsked
<1>8. toClient = <<>> /\ Quiet'
    BY <1>1, <1>5, <1>7 DEF Told, Quiet, Silent
<1>9. CASE client.saying = "bye"
    BY <1>2, <1>5, <1>6, <1>9 DEF go_on, Conversation, Clients
<1>10. CASE client.saying # "bye"
    <2>1. client.saying \in {"hello", "yey", "first", "second", "success"}
        <3>1. client.saying \notin Guessing
            BY <1>2, <1>5, <1>6, Expected
        <3> QED BY <1>2, <1>10, <3>1, TextNames DEF Guessing
    <2>2. client' = [client EXCEPT !.pc = "say", !.saying = Following[client.saying]]
        BY <1>5, <1>6, <1>10 DEF go_on
    <2>3. client'.pc = "say" /\ client'.saying = Following[client.saying]
          /\ client'.tries = client.tries
        BY <1>2, <2>2 DEF Clients
    <2>4. /\ Following["hello"] = "yey" /\ Following["yey"] = "first"
          /\ Following["first"] = "second" /\ Following["second"] = "game"
          /\ Following["success"] = "bye"
        BY DEF Following
    <2>5. Chosen'
        BY <1>1, <2>1, <2>3, <2>4 DEF Chosen, Guessing
    <2>6. ToNarrow'
        BY <2>1, <2>3, <2>4 DEF Chosen, ToNarrow, Guessing
    <2> QED BY <1>1, <1>8, <2>3, <2>5, <2>6 DEF Saying, Conversation
<1> QED BY <1>9, <1>10

(* The client hears an answer: it goes on, or says what the guess was.      *)
LEMMA HeardStep ==
    ASSUME DatagramTypeOK, Chosen, Listening, hear, client' = Answered(Head(toClient)),
           toServer' = IF mode = "none" THEN toServer ELSE Append(toServer, Reply("ACK"))
    PROVE  Conversation'
<1>1. /\ client.pc = "listen" /\ client.expect # <<>> /\ toClient # <<>>
      /\ ~(client.expect = <<"number">> /\ client.tries = MaxTries)
      /\ toClient' = Tail(toClient) /\ UNCHANGED <<mode, number, locals>>
    BY DEF hear
<1>2. /\ toClient \in Seq(Answer) /\ Head(toClient) \in Answer /\ Head(toClient) = Told[1]
      /\ client.saying \in Texts /\ client.tries \in 0 .. MaxTries
      /\ client.expect \in Expectable(client.saying)
    BY <1>1, TailType, ClientFields DEF DatagramTypeOK, Listening
<1>3. PICK e \in Seq(Words \cup {"number"}), n \in Nat :
        e = client.expect /\ n = Len(e) /\ DOMAIN e = 1 .. n /\ n > 0 /\ Head(e) = e[1]
    <2>1. PICK e \in Seq(Words \cup {"number"}) : e = client.expect
        BY <1>1, ClientFields DEF DatagramTypeOK
    <2>2. PICK n \in Nat : n = Len(e) /\ DOMAIN e = 1 .. n
        BY <2>1
    <2>3. n > 0 /\ Head(e) = e[1]
        BY <1>1, <2>1, <2>2
    <2> QED BY <2>1, <2>2, <2>3
<1>4. Told[1] = IF Head(client.expect) = "number" THEN Guessed(locals.mid)
                ELSE Word(Head(client.expect))
    BY <1>3 DEF Told
<1>5. Quiet'
    <2>1. CASE mode = "none"
        BY <1>1, <2>1 DEF Listening, Quiet, Silent
    <2>2. CASE mode # "none"
        <3>1. PICK m \in Message(mode) : m = Reply("ACK") /\ m.text = "ACK"
            BY <2>2, ReplyType DEF Reply
        <3>2. Silent(m)
            BY <2>2, <3>1 DEF Silent
        <3> QED BY <1>1, <2>2, <3>1, <3>2, QuietSent DEF Listening
    <2> QED BY <2>1, <2>2
<1>6. CASE client.saying \in Guessing
    <2>1. client.expect = <<"number">> /\ Head(client.expect) = "number"
        BY <1>2, <1>6, Expected
    <2>2. Head(toClient) = Guessed(locals.mid)
        BY <1>2, <1>4, <2>1
    <2>3. /\ client'.pc = "say" /\ client'.tries = client.tries + 1
          /\ locals.mid = number => client'.saying = "success"
          /\ locals.mid < number => client'.saying = "bigger"
          /\ locals.mid > number => client'.saying = "smaller"
        <3>1. Head(toClient)[1] = "number" /\ Head(toClient)[2] = locals.mid
            BY <2>2 DEF Guessed
        <3> QED BY <1>1, <1>2, <1>6, <2>1, <3>1, AnsweredFields
    <2>4. locals.mid \in Int /\ number \in Int /\ locals.low \in Int /\ locals.high \in Int
        BY DEF DatagramTypeOK, Locals
    <2>5. Narrow /\ client.tries # MaxTries /\ number \in 0 .. High - 1
        BY <1>1, <1>6, <2>1 DEF Listening, Chosen
    <2>6. client'.saying \in {"success", "bigger", "smaller"}
        BY <2>3, <2>4
    <2>7. Chosen'
        BY <1>1, <2>5, <2>6 DEF Chosen, Guessing
    <2>8. ToNarrow'
        <3>1. CASE locals.mid = number
            BY <2>3, <3>1 DEF ToNarrow
        <3>2. CASE locals.mid < number
            BY <1>1, <1>6, <2>3, <2>4, <2>5, <3>2, OneGuessLess DEF ToNarrow
        <3>3. CASE locals.mid > number
            <4>1. number < locals.mid
                BY <2>4, <3>3
            <4> QED BY <1>1, <1>6, <2>3, <2>4, <2>5, <3>3, <4>1, OneGuessLess DEF ToNarrow
        <3> QED BY <2>4, <3>1, <3>2, <3>3
    <2>9. toClient' = <<>>
        <3>1. PICK S : Told \in Seq(S) /\ Len(Told) = Len(client.expect)
            BY ToldSequence
        <3>2. Len(client.expect) = 1 /\ toClient = Told
            BY <2>1 DEF Listening
        <3> QED BY <1>1, <3>1, <3>2
    <2> QED BY <1>5, <2>3, <2>7, <2>8, <2>9 DEF Saying, Conversation
<1>7. CASE client.saying \notin Guessing
    <2>1. Head(client.expect) \in Words /\ Head(client.expect) # "number"
        BY <1>1, <1>2, <1>7, Expected DEF Words
    <2>2. Head(toClient) = Word(Head(client.expect))
        BY <1>2, <1>4, <2>1
    <2>3. /\ client'.pc = "listen" /\ client'.saying = client.saying
          /\ client'.tries = client.tries /\ client'.expect = Tail(client.expect)
          /\ Tail(client.expect) \in Expectable(client.saying)
        <3>1. ~(client.expect = <<"number">>)
            BY <2>1
        <3> QED BY <1>1, <1>2, <1>7, <2>2, <3>1, AnsweredFields
    <2>4. Chosen' /\ Narrow'
        BY <1>1, <1>7, <2>3 DEF Chosen, Narrow
    <2>5. /\ DOMAIN client'.expect = 1 .. n - 1 /\ Len(client'.expect) = n - 1
          /\ \A k \in 1 .. n - 1 : client'.expect[k] = client.expect[k + 1]
        <3>1. client'.expect = Tail(e)
            BY <1>3, <2>3
        <3>2. /\ DOMAIN Tail(e) = 1 .. n - 1 /\ Len(Tail(e)) = n - 1
              /\ \A k \in 1 .. n - 1 : Tail(e)[k] = e[k + 1]
            BY <1>3
        <3> QED BY <1>3, <3>1, <3>2
    <2>6. \A k \in 1 .. n - 1 : Told'[k] = Told[k + 1]
        <3>1. ASSUME NEW k \in 1 .. n - 1 PROVE Told'[k] = Told[k + 1]
            <4>1. k + 1 \in 1 .. n
                BY <1>3
            <4> QED BY <1>1, <1>3, <2>5, <4>1 DEF Told
        <3> QED BY <3>1
    <2>7. Told' = [k \in 1 .. n - 1 |-> Told'[k]]
        BY <2>5 DEF Told
    <2>8. toClient' = Told'
        <3>1. PICK S : Told \in Seq(S) /\ Len(Told) = n
            BY <1>3, ToldSequence
        <3>2. PICK t, u : t = Told /\ u = Tail(t)
            OBVIOUS
        <3>3. t \in Seq(S) /\ Len(t) = n /\ n > 0
            BY <1>3, <3>1, <3>2
        <3>4. u \in Seq(S) /\ Len(u) = n - 1 /\ \A k \in 1 .. n - 1 : u[k] = t[k + 1]
            BY <1>3, <3>2, <3>3
        <3>5. u = [k \in 1 .. n - 1 |-> u[k]]
            BY <1>3, <3>4
        <3>6. u = Told'
            BY <2>6, <2>7, <3>2, <3>4, <3>5
        <3> QED BY <1>1, <3>2, <3>6 DEF Listening
    <2>9. LastTold'
        <3>1. SUFFICES ASSUME client'.expect # <<>> PROVE locals'.t = Told'[Len(client'.expect)]
            BY DEF LastTold
        <3>2. n - 1 \in 1 .. n - 1
            <4>1. n - 1 # 0
                <5>1. client'.expect = Tail(e) /\ Tail(e) \in Seq(Words \cup {"number"})
                    BY <1>3, <2>3
                <5>2. Len(Tail(e)) # 0
                    BY <3>1, <5>1
                <5> QED BY <2>5, <5>1, <5>2
            <4>2. n \in Nat /\ n > 0
                BY <1>3
            <4> QED BY <4>1, <4>2
        <3>3. Told'[n - 1] = Told[n]
            BY <1>3, <2>6, <3>2
        <3> QED BY <1>1, <1>3, <2>5, <3>3 DEF Listening, LastTold
    <2> QED BY <1>2, <1>5, <2>3, <2>4, <2>8, <2>9 DEF Listening, Conversation
<1> QED BY <1>6, <1>7

(* The client refuses an answer: the last one is asked for again.           *)
LEMMA NotHeardStep ==
    ASSUME DatagramTypeOK, Chosen, Listening, hear, mode = "parity",
           client' = [client EXCEPT !.backflips = @ + 1],
           toServer' = Append(toServer, Reply("NACK"))
    PROVE  Conversation'
<1>1. /\ client.pc = "listen" /\ client.expect # <<>> /\ toClient # <<>>
      /\ toClient' = Tail(toClient) /\ UNCHANGED <<mode, number, locals>>
    BY DEF hear
<1>2. /\ client'.pc = client.pc /\ client'.saying = client.saying
      /\ client'.expect = client.expect /\ client'.tries = client.tries
      /\ client'.backflips = client.backflips + 1 /\ client.backflips \in Nat
      /\ client.saying \in Texts /\ client.expect \in Expectable(client.saying)
    BY <1>1, ClientFields DEF DatagramTypeOK, Clients
<1>3. PICK m \in Message(mode) : m = Reply("NACK") /\ m.text = "NACK"
    BY ReplyType DEF Reply
<1>4. Asked("NACK")'
    BY <1>1, <1>3, QuietSent DEF Listening
<1>5. Chosen' /\ Narrow' /\ LastTold' /\ Told' = Told
    BY <1>1, <1>2 DEF Listening, Chosen, Narrow, LastTold, Told
<1>6. PICK S : Told \in Seq(S) /\ Len(Told) = Len(client.expect) /\ Len(client.expect) \in Nat
    BY ToldSequence
<1>7. CASE Len(client.expect) = 1
    <2>1. toClient' = <<>>
        BY <1>1, <1>6, <1>7 DEF Listening
    <2> QED BY <1>1, <1>2, <1>4, <1>5, <1>7, <2>1 DEF AskedAgain, Conversation
<1>8. CASE Len(client.expect) # 1
    <2>1. client.saying = "second" /\ client.expect = <<"YEY", "OK">>
        BY <1>1, <1>2, <1>8, TextNames DEF Expectable, Guessing
    <2>2. Told = <<Word("YEY"), Word("OK")>>
        BY <2>1 DEF Told
    <2>3. toClient' = <<Word("OK")>> /\ locals'.t = Word("OK")
        BY <1>1, <2>1, <2>2 DEF Listening, LastTold
    <2>5. \A k \in DOMAIN toClient' : toClient'[k] = Word("OK")
        <3>1. PICK w : w = Word("OK")
            OBVIOUS
        <3>2. DOMAIN <<w>> = 1 .. 1 /\ <<w>>[1] = w
            OBVIOUS
        <3> QED BY <2>3, <3>1, <3>2
    <2>4. \A k \in DOMAIN toServer' : toServer'[k].text \in {"ACK", "NACK"}
        <3>1. \A k \in DOMAIN toServer : toServer[k].text = "ACK"
            BY DEF Listening, Quiet, Silent
        <3>2. toServer \in Seq(Message(mode))
            BY DEF DatagramTypeOK
        <3> QED BY <1>3, <3>1, <3>2
    <2> QED BY <1>1, <1>2, <2>1, <2>3, <2>4, <2>5 DEF Astray, Conversation
<1> QED BY <1>7, <1>8

LEMMA HearStep ==
    ASSUME DatagramTypeOK, Chosen, Phase, hear
    PROVE  Conversation'
<1>1. Listening
    BY DEF hear, Phase, Saying, HasAsked, Acknowledged, Refused, AskedAgain
<1> QED BY <1>1, HeardStep, NotHeardStep DEF hear

(* The second of two answers only: the client gives up at the next it hears. *)
LEMMA AstrayStep ==
    ASSUME DatagramTypeOK, Astray, Next
    PROVE  Conversation'
<1>1. /\ mode = "parity" /\ client.saying = "second" /\ client.backflips > 0
      /\ client.pc \in {"listen", "fail"} /\ client.expect = <<"YEY", "OK">>
      /\ \A k \in DOMAIN toServer : toServer[k].text \in {"ACK", "NACK"}
      /\ \A k \in DOMAIN toClient : toClient[k] = Word("OK")
      /\ locals.t = Word("OK")
      /\ toServer \in Seq(Message(mode)) /\ toClient \in Seq(Answer)
      /\ client \in Clients /\ client.backflips \in Nat
    BY ClientFields DEF Astray, DatagramTypeOK
<1>2. CASE hear
    <2>1. /\ client.pc = "listen" /\ toClient # <<>> /\ toClient' = Tail(toClient)
          /\ UNCHANGED <<mode, locals>>
        BY <1>2 DEF hear
    <2>2. Head(toClient) = Word("OK") /\ \A k \in DOMAIN toClient' : toClient'[k] = Word("OK")
        BY <1>1, <2>1
    <2>3. /\ client'.pc \in {"listen", "fail"} /\ client'.saying = "second"
          /\ client'.expect = <<"YEY", "OK">> /\ client'.backflips > 0
        <3>1. CASE client' = Answered(Head(toClient))
            <4>1. Word("OK") # Word(Head(client.expect)) /\ client.saying \notin Guessing
                BY <1>1 DEF Word, Guessing
            <4>2. client.expect # <<>> /\ client.expect # <<"number">>
                  /\ Head(toClient) \in Answer
                BY <1>1, <2>1, TailType
            <4> QED BY <1>1, <2>1, <2>2, <3>1, <4>1, <4>2, AnsweredFields
        <3>2. CASE client' = [client EXCEPT !.backflips = @ + 1]
            BY <1>1, <2>1, <3>2 DEF Clients
        <3> QED BY <1>2, <3>1, <3>2 DEF hear
    <2>4. \A k \in DOMAIN toServer' : toServer'[k].text \in {"ACK", "NACK"}
        <3>1. PICK m \in Message(mode) : toServer' = Append(toServer, m)
                                         /\ m.text \in {"ACK", "NACK"}
            BY <1>1, <1>2, ReplyType DEF hear, Reply
        <3> QED BY <1>1, <3>1
    <2> QED BY <1>1, <2>1, <2>2, <2>3, <2>4 DEF Astray, Conversation
<1>3. CASE Server
    <2>1. /\ Serve /\ toServer # <<>> /\ toServer' = Tail(toServer)
          /\ UNCHANGED <<mode, number, client>>
        BY <1>3, ServerSteps, ServeFields
    <2>2. /\ Received.text \in {"ACK", "NACK"}
          /\ \A k \in DOMAIN toServer' : toServer'[k].text \in {"ACK", "NACK"}
        BY <1>1, <2>1 DEF Received
    <2>3. CASE Received.text = "ACK"
        <3>1. UNCHANGED <<toClient, locals>>
            BY <1>1, <1>3, <2>3, SilentServed DEF Silent
        <3> QED BY <1>1, <2>1, <2>2, <3>1 DEF Astray, Conversation
    <2>4. CASE Received.text = "NACK"
        <3>1. UNCHANGED locals /\ \E t \in {locals.t, Garbage} :
                toClient' = Append(toClient, t) /\ lost' = (lost \/ t = Garbage)
            BY <1>3, <2>4, ServerSteps, TextNames
        <3>2. PICK t \in {locals.t, Garbage} :
                toClient' = Append(toClient, t) /\ lost' = (lost \/ t = Garbage)
            BY <3>1
        <3>3. CASE t = Garbage
            BY <3>2, <3>3 DEF Conversation
        <3>4. CASE t = locals.t
            <4>1. \A k \in DOMAIN toClient' : toClient'[k] = Word("OK")
                BY <1>1, <3>2, <3>4
            <4> QED BY <1>1, <2>1, <2>2, <3>1, <4>1 DEF Astray, Conversation
        <3> QED BY <3>2, <3>3, <3>4
    <2> QED BY <2>2, <2>3, <2>4
<1>4. ~say /\ ~hear_ack
    BY <1>1 DEF say, hear_ack
<1>5. ~go_on
    <2>1. <<"YEY", "OK">> # <<>> /\ <<"YEY", "OK">> # <<"number">>
        OBVIOUS
    <2> QED BY <1>1, <2>1 DEF go_on
<1> QED BY <1>2, <1>3, <1>4, <1>5 DEF Next, Client

LEMMA ConversationInit == Init => Conversation
<1> SUFFICES ASSUME Init PROVE Conversation
    OBVIOUS
<1>1. client.pc = "say" /\ client.saying = "hello" /\ client.tries = 0
    BY DEF Init
<1>2. Chosen /\ ToNarrow /\ Quiet
    BY <1>1 DEF Init, Chosen, ToNarrow, Quiet, Guessing
<1> QED BY <1>1, <1>2 DEF Init, Saying, Conversation

LEMMA ConversationStep == DatagramTypeOK /\ Conversation /\ [Next]_vars => Conversation'
<1> SUFFICES ASSUME DatagramTypeOK, Conversation, [Next]_vars PROVE Conversation'
    OBVIOUS
<1>1. CASE UNCHANGED vars
    <2>1. UNCHANGED <<mode, number, client, toServer, toClient, locals, lost>>
        BY <1>1 DEF vars
    <2>2. (Quiet => Quiet') /\ (\A text : Asked(text) => Asked(text)')
        BY <2>1 DEF Quiet, Silent, Asked
    <2>3. (Chosen => Chosen') /\ (ToNarrow => ToNarrow') /\ (Narrow => Narrow')
          /\ (LastTold => LastTold') /\ Told' = Told /\ (Astray => Astray')
        BY <2>1 DEF Chosen, ToNarrow, Narrow, LastTold, Told, Astray
    <2>4. (Asked(client.saying) => Asked(client.saying)') /\ (Asked("NACK") => Asked("NACK")')
        BY <2>1 DEF Asked, Silent
    <2>5. /\ Saying => Saying'
          /\ HasAsked => HasAsked'
          /\ Refused => Refused'
          /\ Listening => Listening'
          /\ AskedAgain => AskedAgain'
        BY <2>1, <2>2, <2>3, <2>4 DEF Saying, HasAsked, Refused, Listening, AskedAgain
    <2>6. Acknowledged => Acknowledged'
        BY <2>1, <2>2, <2>3 DEF Acknowledged
    <2>7. (lost => lost') /\ (client.pc = "pass" => client'.pc = "pass")
        BY <2>1
    <2>8. CASE lost \/ client.pc = "pass" \/ Astray
        BY <2>3, <2>7, <2>8 DEF Conversation
    <2>9. CASE Chosen /\ Phase
        <3>1. Chosen'
            BY <2>3, <2>9
        <3> QED BY <2>5, <2>6, <2>9, <3>1 DEF Conversation, Phase
    <2> QED BY <2>8, <2>9 DEF Conversation, Phase
<1>2. CASE lost /\ Next
    BY <1>2, ServerSteps
       DEF Next, Client, say, hear_ack, hear, go_on, Answers, Send, Conversation
<1>3. CASE client.pc = "pass" /\ Next
    <2>1. UNCHANGED client
        BY <1>3, ServerSteps, ServeFields DEF Next, Client, say, hear_ack, hear, go_on
    <2> QED BY <1>3, <2>1 DEF Conversation
<1>4. CASE Astray /\ Next
    BY <1>4, AstrayStep
<1>5. CASE Chosen /\ Phase /\ Next
    BY <1>5, SayStep, HearAckStep, HearStep, GoOnStep, ServedStep DEF Next, Client
<1> QED BY <1>1, <1>2, <1>3, <1>4, <1>5 DEF Conversation, Phase

-----------------------------------------------------------------------------
LEMMA InvariantHolds == Spec => []DatagramInvariant
<1>1. Init => DatagramInvariant
    BY TypeInit, ConversationInit DEF Init, DatagramInvariant
<1>2. DatagramInvariant /\ [Next]_vars => DatagramInvariant'
    BY TypeStep, UnderstoodStep, ConversationStep DEF DatagramInvariant, Understood
<1> QED BY <1>1, <1>2, PTL DEF Spec

(* Whatever bit of a text the link damages, the parity refuses the text or  *)
(* the Hamming code repairs it: main never takes it for another one.        *)
THEOREM UnderstoodHolds == Spec => []Understood
<1>1. DatagramInvariant => Understood
    BY DEF DatagramInvariant, Understood
<1> QED BY <1>1, InvariantHolds, PTL

(* The binary search of the test functions finds every number within the    *)
(* guesses the client allows, in each mode and whatever is refused on the   *)
(* way, unless a local had lost its value or the first of two answers was   *)
(* refused.                                                                 *)
THEOREM GameWonHolds == Spec => []GameWon
<1>1. DatagramInvariant => GameWon
    BY DEF DatagramInvariant, Conversation, GameWon, Astray, Saying, HasAsked, Acknowledged,
           Refused, Listening, AskedAgain
<1> QED BY <1>1, InvariantHolds, PTL
=============================================================================

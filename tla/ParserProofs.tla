------------------------------ MODULE ParserProofs ------------------------------
(***************************************************************************)
(* Proofs about the parser of the shell's command line: its shift-reduce    *)
(* loop makes the tree that the priorities of the operators define.         *)
(***************************************************************************)
EXTENDS Parser, NaturalsInduction, WellFoundedInduction, SequenceTheorems, TLAPS

-----------------------------------------------------------------------------
(* Sets of numbers. *)

LEMMA LeastNatural ==
    ASSUME NEW S \in SUBSET Nat, S # {}
    PROVE  \E m \in S : \A k \in S : m <= k
<1> DEFINE R == {ss \in Nat \X Nat : ss[1] < ss[2]}
<1>1. IsWellFoundedOn(R, Nat)
    BY NatLessThanWellFounded DEF OpToRel
<1>2. PICK m \in S : \A k \in S : ~ (<<k, m>> \in R)
    <2> HIDE DEF R
    <2> QED BY <1>1, WFMin
<1>3. ASSUME NEW k \in S, k < m PROVE FALSE
    <2>1. k \in Nat /\ m \in Nat
        OBVIOUS
    <2>2. <<k, m>> \in R
        BY <1>3, <2>1
    <2> QED BY <1>2, <2>2
<1> QED BY <1>3

LEMMA GreatestNatural ==
    ASSUME NEW n \in Nat, NEW S \in SUBSET (0 .. n), S # {}
    PROVE  \E m \in S : \A k \in S : k <= m
<1> DEFINE T == {i \in Nat : n - i \in S}
<1>1. T # {}
    <2>1. PICK k \in S : TRUE
        OBVIOUS
    <2>2. k \in 0 .. n
        OBVIOUS
    <2>3. n - k \in Nat /\ n - (n - k) = k
        BY <2>2
    <2> QED BY <2>1, <2>3
<1>2. PICK i \in T : \A j \in T : i <= j
    <2> HIDE DEF T
    <2>1. T \in SUBSET Nat
        BY DEF T
    <2> QED BY <1>1, <2>1, LeastNatural
<1>3. n - i \in S /\ i \in Nat
    OBVIOUS
<1>4. ASSUME NEW k \in S PROVE k <= n - i
    <2>1. k \in 0 .. n
        OBVIOUS
    <2>2. n - k \in Nat /\ n - (n - k) = k
        BY <2>1
    <2>3. n - k \in T
        BY <2>2
    <2>4. i <= n - k
        BY <1>2, <2>3
    <2> QED BY <2>1, <2>4, <1>3
<1> QED BY <1>3, <1>4

(* Induction, with the set of the numbers that have the property.           *)
LEMMA Induction ==
    ASSUME NEW S, 0 \in S, \A n \in Nat : n \in S => n + 1 \in S
    PROVE  Nat \subseteq S
<1> SUFFICES ASSUME Nat \ S # {} PROVE FALSE
    OBVIOUS
<1>1. PICK m \in Nat \ S : \A k \in Nat \ S : m <= k
    BY LeastNatural
<1>2. m # 0 /\ m - 1 \in Nat /\ (m - 1) + 1 = m
    OBVIOUS
<1>3. m - 1 \in S
    BY <1>1, <1>2
<1> QED BY <1>2, <1>3

-----------------------------------------------------------------------------
(* The tree that the priorities define. *)

(* A command line is the top of the interval from a to b when k is the last *)
(* of its loosest operators.                                                *)
IsLoosest(l, a, b, k) ==
    /\ k \in a .. b - 1
    /\ \A j \in a .. k - 1 : Level[l.ops[k]] <= Level[l.ops[j]]
    /\ \A j \in k + 1 .. b - 1 : Level[l.ops[k]] < Level[l.ops[j]]

LEMMA LineFacts ==
    ASSUME NEW l, IsLine(l)
    PROVE  /\ Len(l.cmds) \in Nat \ {0} /\ DOMAIN l.cmds = 1 .. Len(l.cmds)
           /\ \A k \in 1 .. Len(l.cmds) - 1 : l.ops[k] \in Operators
           /\ \A k \in 1 .. Len(l.cmds) - 1 : Level[l.ops[k]] \in 1 .. 4
<1>1. Len(l.cmds) \in Nat \ {0} /\ DOMAIN l.cmds = 1 .. Len(l.cmds)
    BY DEF IsLine
<1>2. \A k \in 1 .. Len(l.cmds) - 1 : l.ops[k] \in Operators
    BY <1>1 DEF IsLine
<1>3. \A op \in Operators : Level[op] \in 1 .. 4
    BY DEF Operators, Level
<1> QED BY <1>1, <1>2, <1>3

LEMMA LoosestIs ==
    ASSUME NEW l, IsLine(l), NEW a \in 1 .. Len(l.cmds), NEW b \in 1 .. Len(l.cmds), a < b
    PROVE  /\ IsLoosest(l, a, b, Loosest(l, a, b))
           /\ \A k : IsLoosest(l, a, b, k) => k = Loosest(l, a, b)
<1> DEFINE lev(k) == Level[l.ops[k]]
           S == {k \in a .. b - 1 : \A j \in a .. b - 1 : lev(k) <= lev(j)}
           levels == {lev(k) : k \in a .. b - 1}
<1>0. a \in Nat /\ b \in Nat /\ \A k \in a .. b - 1 : lev(k) \in Nat
    BY LineFacts
<1>1. S # {}
    <2>1. levels \in SUBSET Nat /\ levels # {}
        BY <1>0
    <2>2. PICK v \in levels : \A w \in levels : v <= w
        <3> HIDE DEF levels
        <3> QED BY <2>1, LeastNatural
    <2> QED BY <2>2
<1>2. PICK m \in S : \A k \in S : k <= m
    <2>1. S \in SUBSET (0 .. b)
        BY <1>0
    <2> HIDE DEF S
    <2> QED BY <1>0, <1>1, <2>1, GreatestNatural
<1>3. Loosest(l, a, b) \in S /\ \A k \in S : Loosest(l, a, b) >= k
    <2>1. \E x \in S : \A y \in S : x >= y
        BY <1>0, <1>2
    <2> HIDE DEF S
    <2>2. Max(S) \in S /\ \A y \in S : Max(S) >= y
        BY <2>1 DEF Max
    <2> QED BY <2>2 DEF Loosest, S
<1> DEFINE n == Loosest(l, a, b)
<1>4. n \in a .. b - 1 /\ \A j \in a .. b - 1 : lev(n) <= lev(j)
    BY <1>3
<1>5. IsLoosest(l, a, b, n)
    <2>1. ASSUME NEW j \in n + 1 .. b - 1 PROVE lev(n) < lev(j)
        <3>1. j \in a .. b - 1 /\ j > n
            BY <1>0, <1>4
        <3>2. j \notin S
            BY <1>0, <1>3, <1>4, <3>1
        <3>3. PICK i \in a .. b - 1 : ~ (lev(j) <= lev(i))
            BY <3>1, <3>2
        <3> QED BY <1>0, <1>4, <3>1, <3>3
    <2>2. \A j \in a .. n - 1 : lev(n) <= lev(j)
        BY <1>0, <1>4
    <2> QED BY <1>4, <2>1, <2>2 DEF IsLoosest
<1>6. ASSUME NEW k, IsLoosest(l, a, b, k) PROVE k = n
    <2>1. k \in a .. b - 1 /\ n \in a .. b - 1
        BY <1>4, <1>6 DEF IsLoosest
    <2>2. ~ (k < n)
        <3>1. SUFFICES ASSUME k < n PROVE FALSE
            OBVIOUS
        <3>2. lev(k) < lev(n)
            BY <1>0, <1>6, <2>1, <3>1 DEF IsLoosest
        <3> QED BY <1>0, <1>4, <2>1, <3>2
    <2>3. ~ (n < k)
        <3>1. SUFFICES ASSUME n < k PROVE FALSE
            OBVIOUS
        <3>2. lev(n) < lev(k)
            BY <1>0, <1>5, <2>1, <3>1 DEF IsLoosest
        <3>3. lev(k) <= lev(n)
            BY <1>0, <1>6, <2>1, <3>1 DEF IsLoosest
        <3> QED BY <1>0, <2>1, <3>2, <3>3
    <2> QED BY <1>0, <2>1, <2>2, <2>3
<1> QED BY <1>5, <1>6

Intervals(l) == (DOMAIN l.cmds) \X (DOMAIN l.cmds)
Group(l, g, s) ==
    IF s[1] >= s[2] THEN <<"none", s[1]>>
    ELSE LET k == Loosest(l, s[1], s[2]) IN
         <<l.ops[k], g[<<s[1], k>>], g[<<k + 1, s[2]>>]>>
ShortGrouped(l, g, n) == \A s \in Intervals(l) : s[2] - s[1] < n => g[s] = Group(l, g, s)

LEMMA GroupsExist ==
    ASSUME NEW l, IsLine(l), NEW n \in Nat
    PROVE  \E g : g = [s \in Intervals(l) |-> g[s]] /\ ShortGrouped(l, g, n)
<1> DEFINE S == {m \in Nat : \E g : g = [s \in Intervals(l) |-> g[s]] /\ ShortGrouped(l, g, m)}
<1>0. Len(l.cmds) \in Nat \ {0} /\ DOMAIN l.cmds = 1 .. Len(l.cmds)
    BY LineFacts
<1>1. 0 \in S
    <2> DEFINE g == [s \in Intervals(l) |-> Group(l, <<>>, s)]
        D == {s \in Intervals(l) : s[2] - s[1] < 0}
    <2>1. \A s \in Intervals(l) : s[1] >= s[2] => Group(l, <<>>, s) = <<"none", s[1]>>
        BY DEF Group
    <2>2. \A s \in Intervals(l) : s[1] >= s[2] => Group(l, g, s) = <<"none", s[1]>>
        BY DEF Group
    <2>3. \A s \in Intervals(l) : s[2] - s[1] < 0 => s[1] >= s[2]
        BY <1>0 DEF Intervals
    <2>4. ShortGrouped(l, g, 0)
        BY <2>1, <2>2, <2>3 DEF ShortGrouped
    <2>5. g = [s \in Intervals(l) |-> g[s]]
        OBVIOUS
    <2> QED BY <2>4, <2>5
<1>2. ASSUME NEW m \in Nat, m \in S PROVE m + 1 \in S
    <2>1. PICK g : g = [s \in Intervals(l) |-> g[s]] /\ ShortGrouped(l, g, m)
        BY <1>2
    <2> DEFINE h == [s \in Intervals(l) |-> Group(l, g, s)]
    <2>2. ASSUME NEW s \in Intervals(l), s[2] - s[1] < m + 1
          PROVE  h[s] = Group(l, h, s)
        <3>1. CASE s[1] >= s[2]
            BY <3>1 DEF Group
        <3>2. CASE ~ (s[1] >= s[2])
            <4> DEFINE k == Loosest(l, s[1], s[2])
                       left == <<s[1], k>>
                       right == <<k + 1, s[2]>>
            <4>1. s[1] \in 1 .. Len(l.cmds) /\ s[2] \in 1 .. Len(l.cmds) /\ s[1] < s[2]
                BY <1>0, <3>2 DEF Intervals
            <4>2. k \in s[1] .. s[2] - 1
                BY <4>1, LoosestIs DEF IsLoosest
            <4>3. left \in Intervals(l) /\ right \in Intervals(l)
                BY <1>0, <4>1, <4>2 DEF Intervals
            <4>4. left[2] - left[1] < m /\ right[2] - right[1] < m
                BY <2>2, <4>1, <4>2
            <4>5. g[left] = Group(l, g, left) /\ g[right] = Group(l, g, right)
                BY <2>1, <4>3, <4>4 DEF ShortGrouped
            <4>6. h[left] = g[left] /\ h[right] = g[right]
                BY <4>3, <4>5
            <4>7. Group(l, h, s) = <<l.ops[k], h[left], h[right]>>
                BY <3>2 DEF Group
            <4>8. h[s] = <<l.ops[k], g[left], g[right]>>
                BY <3>2 DEF Group
            <4> QED BY <4>6, <4>7, <4>8
        <3> QED BY <3>1, <3>2
    <2>3. ShortGrouped(l, h, m + 1)
        BY <2>2 DEF ShortGrouped
    <2>4. h = [s \in Intervals(l) |-> h[s]]
        OBVIOUS
    <2> QED BY <2>3, <2>4
<1> HIDE DEF S
<1>3. n \in S
    BY <1>1, <1>2, Induction
<1> QED BY <1>3 DEF S

(* Grouped(l) is its own definition unfolded.                               *)
LEMMA GroupsUnfold ==
    ASSUME NEW l, IsLine(l),
           NEW a \in 1 .. Len(l.cmds), NEW b \in 1 .. Len(l.cmds)
    PROVE  /\ a = b => Groups(l)[<<a, b>>] = <<"none", a>>
           /\ \A k : IsLoosest(l, a, b, k) =>
                Groups(l)[<<a, b>>] = <<l.ops[k], Groups(l)[<<a, k>>], Groups(l)[<<k + 1, b>>]>>
<1>0. Len(l.cmds) \in Nat \ {0} /\ DOMAIN l.cmds = 1 .. Len(l.cmds)
    BY LineFacts
<1>1. PICK g : g = [s \in Intervals(l) |-> g[s]] /\ ShortGrouped(l, g, Len(l.cmds))
    BY <1>0, GroupsExist
<1>2. \A s \in Intervals(l) : g[s] = Group(l, g, s)
    <2>1. ASSUME NEW s \in Intervals(l) PROVE s[2] - s[1] < Len(l.cmds)
        <3>1. s[1] \in 1 .. Len(l.cmds) /\ s[2] \in 1 .. Len(l.cmds)
            BY <1>0 DEF Intervals
        <3> QED BY <1>0, <3>1
    <2> QED BY <1>1, <2>1 DEF ShortGrouped
<1>3. g = [s \in Intervals(l) |-> Group(l, g, s)]
    BY <1>1, <1>2
<1>4. Groups(l) = CHOOSE f : f = [s \in Intervals(l) |-> Group(l, f, s)]
    BY DEF Groups, Group, Intervals
<1>5. Groups(l) = [s \in Intervals(l) |-> Group(l, Groups(l), s)]
    <2> DEFINE P(f) == f = [s \in Intervals(l) |-> Group(l, f, s)]
    <2>1. P(g)
        BY <1>3
    <2>2. P(CHOOSE f : P(f))
        BY <2>1
    <2> QED BY <1>4, <2>2
<1>6. <<a, b>> \in Intervals(l)
    BY <1>0 DEF Intervals
<1>7. Groups(l)[<<a, b>>] = Group(l, Groups(l), <<a, b>>)
    BY <1>5, <1>6
<1>8. a = b => Groups(l)[<<a, b>>] = <<"none", a>>
    BY <1>7 DEF Group
<1>9. ASSUME NEW k, IsLoosest(l, a, b, k)
      PROVE  Groups(l)[<<a, b>>] = <<l.ops[k], Groups(l)[<<a, k>>], Groups(l)[<<k + 1, b>>]>>
    <2>1. a < b
        BY <1>9 DEF IsLoosest
    <2>2. k = Loosest(l, a, b)
        BY <1>9, <2>1, LoosestIs
    <2> QED BY <1>7, <2>1, <2>2 DEF Group
<1> QED BY <1>8, <1>9

-----------------------------------------------------------------------------
(* Sequences. *)

LEMMA Prefix ==
    ASSUME NEW S, NEW s \in Seq(S), NEW k \in 0 .. Len(s)
    PROVE  /\ SubSeq(s, 1, k) \in Seq(S) /\ Len(SubSeq(s, 1, k)) = k
           /\ \A q \in 1 .. k : SubSeq(s, 1, k)[q] = s[q]
<1>1. Len(s) \in Nat /\ k \in Int /\ 1 \in Int
    OBVIOUS
<1>2. \A q \in 1 .. k : s[q] \in S
    BY <1>1
<1>3. SubSeq(s, 1, k) = [q \in 1 .. k |-> s[q]]
    BY <1>1
<1> QED BY <1>1, <1>2, <1>3

LEMMA FrontIs ==
    ASSUME NEW S, NEW s \in Seq(S), s # <<>>
    PROVE  /\ Front(s) \in Seq(S) /\ Len(Front(s)) = Len(s) - 1
           /\ \A q \in 1 .. Len(s) - 1 : Front(s)[q] = s[q]
<1>1. Len(s) - 1 \in 0 .. Len(s)
    OBVIOUS
<1> QED BY <1>1, Prefix DEF Front

LEMMA LastTwo ==
    ASSUME NEW S, NEW s \in Seq(S), Len(s) >= 2, NEW e \in S
    PROVE  LET r == Append(SubSeq(s, 1, Len(s) - 2), e) IN
           /\ r \in Seq(S) /\ Len(r) = Len(s) - 1 /\ r[Len(s) - 1] = e
           /\ \A q \in 1 .. Len(s) - 2 : r[q] = s[q]
<1>1. Len(s) \in Nat /\ Len(s) - 2 \in 0 .. Len(s)
    OBVIOUS
<1> DEFINE f == SubSeq(s, 1, Len(s) - 2)
<1>2. f \in Seq(S) /\ Len(f) = Len(s) - 2 /\ \A q \in 1 .. Len(s) - 2 : f[q] = s[q]
    BY <1>1, Prefix
<1> HIDE DEF f
<1>3. /\ Append(f, e) \in Seq(S) /\ Len(Append(f, e)) = Len(f) + 1
      /\ \A q \in 1 .. Len(f) : Append(f, e)[q] = f[q]
      /\ Append(f, e)[Len(f) + 1] = e
    BY <1>2, AppendProperties
<1> QED BY <1>1, <1>2, <1>3 DEF f

-----------------------------------------------------------------------------
(* The states of the shift-reduce loop: its stack divides the n commands    *)
(* that are shifted into m intervals that end at b[1], ..., b[m]; each is   *)
(* grouped as it should be, the operators between them bind more and more   *)
(* tightly, and those inside an interval could be reduced before what       *)
(* follows it was read.                                                     *)

Trees(l) == {Groups(l)[s] : s \in Intervals(l)}
Lev(l, k) == Level[l.ops[k]]

Cuts(n, m, b) ==
    /\ b \in [0 .. m -> 0 .. n] /\ b[0] = 0 /\ b[m] = n
    /\ \A q \in 1 .. m : b[q - 1] < b[q]
Rises(l, m, b) == \A q \in 1 .. m - 2 : Lev(l, b[q]) < Lev(l, b[q + 1])
Looser(l, m, b) ==
    \A q \in 1 .. m - 1 : \A j \in b[q] + 1 .. b[q + 1] - 1 : Lev(l, b[q]) < Lev(l, j)
Reducible(l, m, b) ==
    \A q \in 1 .. m : \A j \in b[q - 1] + 1 .. b[q] - 1 :
        b[q] = Len(l.cmds) \/ Lev(l, b[q]) <= Lev(l, j)
Stacked(l, m, b, cmds, ops) ==
    /\ \A q \in 1 .. m : cmds[q] = Groups(l)[<<b[q - 1] + 1, b[q]>>]
    /\ \A q \in 1 .. m - 1 : ops[q] = l.ops[b[q]]

LEMMA LevFacts ==
    ASSUME NEW l, IsLine(l)
    PROVE  /\ Len(l.cmds) \in Nat \ {0}
           /\ \A k \in 1 .. Len(l.cmds) - 1 : Lev(l, k) \in Nat
<1>1. \A k \in 1 .. Len(l.cmds) - 1 : Lev(l, k) \in 1 .. 4
    BY ONLY IsLine(l), LineFacts DEF Lev
<1> QED BY <1>1, LineFacts

LEMMA CutFacts ==
    ASSUME NEW n \in Nat, NEW m \in Nat, NEW b, Cuts(n, m, b)
    PROVE  /\ \A q \in 0 .. m : b[q] \in Nat /\ b[q] <= n
           /\ \A q \in 1 .. m : b[q] > 0
           /\ \A q \in 0 .. m - 1 : b[q] < n
           /\ m = 0 <=> n = 0
<1>1. \A q \in 0 .. m : b[q] \in Nat /\ b[q] <= n
    BY DEF Cuts
<1>2. ASSUME NEW q \in 1 .. m PROVE b[q] > 0
    <2>1. q - 1 \in 0 .. m /\ q \in 0 .. m
        OBVIOUS
    <2>2. b[q - 1] < b[q]
        BY DEF Cuts
    <2> QED BY <1>1, <2>1, <2>2
<1>3. ASSUME NEW q \in 0 .. m - 1 PROVE b[q] < n
    <2>1. q + 1 \in 1 .. m /\ q + 1 \in 0 .. m /\ q \in 0 .. m /\ (q + 1) - 1 = q
        OBVIOUS
    <2>2. b[q] < b[q + 1]
        BY <2>1 DEF Cuts
    <2>3. b[q + 1] <= n /\ b[q + 1] \in Nat /\ b[q] \in Nat
        BY <1>1, <2>1
    <2> QED BY <2>2, <2>3
<1>4. m = 0 <=> n = 0
    <2>1. b[m] = n /\ b[0] = 0
        BY DEF Cuts
    <2>2. m # 0 => m \in 1 .. m
        OBVIOUS
    <2> QED BY <1>2, <2>1, <2>2
<1> QED BY <1>1, <1>2, <1>3, <1>4

(* A command is shifted: a last interval for it alone.                      *)
LEMMA NewInterval ==
    ASSUME NEW l, IsLine(l), NEW n \in Nat, n < Len(l.cmds), NEW m \in Nat, NEW b,
           Cuts(n, m, b), Rises(l, m, b), Looser(l, m, b), Reducible(l, m, b),
           m > 1 => ~ (Lev(l, b[m - 1]) >= Lev(l, n)),
           NEW d, d = [q \in 0 .. m + 1 |-> IF q = m + 1 THEN n + 1 ELSE b[q]]
    PROVE  /\ Cuts(n + 1, m + 1, d) /\ Rises(l, m + 1, d)
           /\ Looser(l, m + 1, d) /\ Reducible(l, m + 1, d)
<1>0. /\ Len(l.cmds) \in Nat \ {0}
      /\ \A k \in 1 .. Len(l.cmds) - 1 : Lev(l, k) \in Nat
    BY LevFacts
<1>1. /\ \A q \in 0 .. m : d[q] = b[q] /\ b[q] \in Nat /\ b[q] <= n
      /\ d[m + 1] = n + 1 /\ d[m] = n /\ b[m] = n /\ d[0] = 0
      /\ \A q \in 1 .. m : b[q] > 0
      /\ \A q \in 0 .. m - 1 : b[q] < n
    <2>1. /\ \A q \in 0 .. m : b[q] \in Nat /\ b[q] <= n
          /\ \A q \in 1 .. m : b[q] > 0
          /\ \A q \in 0 .. m - 1 : b[q] < n
        BY CutFacts
    <2>2. b[0] = 0 /\ b[m] = n
        BY DEF Cuts
    <2>3. \A q \in 0 .. m : q \in 0 .. m + 1 /\ q # m + 1
        OBVIOUS
    <2>4. \A q \in 0 .. m : d[q] = b[q]
        BY <2>3
    <2>5. 0 \in 0 .. m /\ m \in 0 .. m /\ m + 1 \in 0 .. m + 1
        OBVIOUS
    <2>6. d[m + 1] = n + 1 /\ d[m] = n /\ d[0] = 0
        BY <2>2, <2>4, <2>5
    <2> QED BY <2>1, <2>2, <2>4, <2>6
<1>2. Cuts(n + 1, m + 1, d)
    <2>1. ASSUME NEW q \in 1 .. m + 1 PROVE d[q - 1] < d[q]
        <3>1. CASE q = m + 1
            BY <1>1, <3>1
        <3>2. CASE q # m + 1
            <4>1. q \in 1 .. m /\ q - 1 \in 0 .. m /\ q \in 0 .. m
                BY <3>2
            <4>2. b[q - 1] < b[q]
                BY <4>1 DEF Cuts
            <4> QED BY <1>1, <4>1, <4>2
        <3> QED BY <3>1, <3>2
    <2>2. d \in [0 .. m + 1 -> 0 .. n + 1]
        <3>1. \A q \in 0 .. m + 1 : d[q] \in 0 .. n + 1
            <4>1. \A q \in 0 .. m + 1 : q = m + 1 \/ q \in 0 .. m
                OBVIOUS
            <4> QED BY <1>1, <4>1
        <3> QED BY <3>1
    <2> QED BY <1>1, <2>1, <2>2 DEF Cuts
<1>3. Rises(l, m + 1, d)
    <2>1. ASSUME NEW q \in 1 .. (m + 1) - 2 PROVE Lev(l, d[q]) < Lev(l, d[q + 1])
        <3>0. q \in 0 .. m /\ q + 1 \in 0 .. m /\ d[q] = b[q] /\ d[q + 1] = b[q + 1]
            BY <1>1
        <3>1. CASE q = m - 1
            <4>1. m > 1 /\ m - 1 \in 1 .. m /\ m - 1 \in 0 .. m - 1 /\ m - 1 \in 0 .. m /\ (m - 1) + 1 = m
                BY <3>1
            <4>2. b[m - 1] \in 1 .. Len(l.cmds) - 1 /\ n \in 1 .. Len(l.cmds) - 1
                <5>1. b[m - 1] \in Nat /\ b[m - 1] > 0 /\ b[m - 1] < n
                    BY <1>1, <4>1
                <5>2. Len(l.cmds) \in Nat
                    BY <1>0
                <5> QED BY <5>1, <5>2
            <4>3. Lev(l, b[m - 1]) \in Nat /\ Lev(l, n) \in Nat
                BY <1>0, <4>2
            <4>4. Lev(l, b[m - 1]) < Lev(l, n)
                BY <4>1, <4>3
            <4> QED BY <1>1, <3>0, <3>1, <4>1, <4>4
        <3>2. CASE q # m - 1
            <4>1. q \in 1 .. m - 2
                BY <3>2
            <4>2. Lev(l, b[q]) < Lev(l, b[q + 1])
                BY <4>1 DEF Rises
            <4> QED BY <3>0, <4>2
        <3> QED BY <3>1, <3>2
    <2> QED BY ONLY <2>1, Zenon DEF Rises
<1>4. Looser(l, m + 1, d)
    <2>1. ASSUME NEW q \in 1 .. m + 1 - 1, NEW j \in d[q] + 1 .. d[q + 1] - 1
          PROVE  Lev(l, d[q]) < Lev(l, j)
        <3>1. CASE q = m
            BY <1>1, <3>1
        <3>2. CASE q # m
            <4>1. q \in 1 .. m - 1 /\ q \in 0 .. m /\ q + 1 \in 0 .. m
                BY <3>2
            <4> QED BY <1>1, <4>1 DEF Looser
        <3> QED BY <3>1, <3>2
    <2> QED BY <2>1 DEF Looser
<1>5. Reducible(l, m + 1, d)
    <2>1. ASSUME NEW q \in 1 .. m + 1, NEW j \in d[q - 1] + 1 .. d[q] - 1
          PROVE  d[q] = Len(l.cmds) \/ Lev(l, d[q]) <= Lev(l, j)
        <3>1. CASE q = m + 1
            <4>1. q - 1 = m
                BY <3>1
            <4> QED BY <1>1, <3>1, <4>1
        <3>2. CASE q # m + 1
            <4>1. q \in 1 .. m /\ q \in 0 .. m /\ q - 1 \in 0 .. m
                BY <3>2
            <4> QED BY <1>1, <4>1 DEF Reducible
        <3> QED BY <3>1, <3>2
    <2> QED BY <2>1 DEF Reducible
<1> QED BY <1>2, <1>3, <1>4, <1>5

(* An operator is reduced: the last two intervals are one, and the operator *)
(* is the last of the loosest in it.                                        *)
LEMMA JoinIntervals ==
    ASSUME NEW l, IsLine(l), NEW n \in Nat, n <= Len(l.cmds), NEW m \in Nat, m > 1, NEW b,
           Cuts(n, m, b), Rises(l, m, b), Looser(l, m, b), Reducible(l, m, b),
           n = Len(l.cmds) \/ Lev(l, b[m - 1]) >= Lev(l, n),
           NEW d, d = [q \in 0 .. m - 1 |-> IF q = m - 1 THEN n ELSE b[q]]
    PROVE  /\ Cuts(n, m - 1, d) /\ Rises(l, m - 1, d)
           /\ Looser(l, m - 1, d) /\ Reducible(l, m - 1, d)
           /\ IsLoosest(l, b[m - 2] + 1, n, b[m - 1])
<1>0. /\ Len(l.cmds) \in Nat \ {0}
      /\ \A k \in 1 .. Len(l.cmds) - 1 : Lev(l, k) \in Nat
    BY LevFacts
<1>1. /\ \A q \in 0 .. m - 2 : d[q] = b[q]
      /\ \A q \in 0 .. m : b[q] \in Nat /\ b[q] <= n
      /\ d[m - 1] = n /\ b[m] = n /\ d[0] = 0
      /\ \A q \in 1 .. m : b[q] > 0
      /\ \A q \in 0 .. m - 1 : b[q] < n
    <2>1. /\ \A q \in 0 .. m : b[q] \in Nat /\ b[q] <= n
          /\ \A q \in 1 .. m : b[q] > 0
          /\ \A q \in 0 .. m - 1 : b[q] < n
        BY CutFacts
    <2>2. b[0] = 0 /\ b[m] = n
        BY DEF Cuts
    <2>3. \A q \in 0 .. m - 2 : q \in 0 .. m - 1 /\ q # m - 1
        OBVIOUS
    <2>4. \A q \in 0 .. m - 2 : d[q] = b[q]
        BY <2>3
    <2>5. 0 \in 0 .. m - 2 /\ m - 1 \in 0 .. m - 1
        OBVIOUS
    <2>6. d[m - 1] = n /\ d[0] = 0
        BY <2>2, <2>4, <2>5
    <2> QED BY <2>1, <2>2, <2>4, <2>6
<1>2. PICK x \in Nat, y \in Nat : b[m - 2] = x /\ b[m - 1] = y
    BY <1>1
<1>3. x < y /\ y < n /\ y > 0
    <2>1. m - 1 \in 1 .. m /\ (m - 1) - 1 = m - 2 /\ m - 1 \in 0 .. m - 1
        OBVIOUS
    <2>2. b[m - 2] < b[m - 1]
        BY <2>1 DEF Cuts
    <2> QED BY <1>1, <1>2, <2>1, <2>2
<1>4. Cuts(n, m - 1, d)
    <2>1. ASSUME NEW q \in 1 .. m - 1 PROVE d[q - 1] < d[q]
        <3>1. q - 1 \in 0 .. m - 2 /\ q - 1 \in 0 .. m - 1 /\ q \in 1 .. m
            OBVIOUS
        <3>2. CASE q = m - 1
            BY <1>1, <3>1, <3>2
        <3>3. CASE q # m - 1
            <4>1. q \in 0 .. m - 2
                BY <3>3
            <4>2. b[q - 1] < b[q]
                BY <3>1 DEF Cuts
            <4> QED BY <1>1, <3>1, <4>1, <4>2
        <3> QED BY <3>2, <3>3
    <2>2. d \in [0 .. m - 1 -> 0 .. n]
        <3>1. \A q \in 0 .. m - 1 : d[q] \in 0 .. n
            <4>1. \A q \in 0 .. m - 1 : q = m - 1 \/ (q \in 0 .. m - 2 /\ q \in 0 .. m)
                OBVIOUS
            <4> QED BY <1>1, <4>1
        <3> QED BY <3>1
    <2> QED BY <1>1, <2>1, <2>2 DEF Cuts
<1>5. Rises(l, m - 1, d)
    <2>1. ASSUME NEW q \in 1 .. m - 1 - 2 PROVE Lev(l, d[q]) < Lev(l, d[q + 1])
        <3>1. q \in 0 .. m - 2 /\ q + 1 \in 0 .. m - 2 /\ q \in 1 .. m - 2
            OBVIOUS
        <3> QED BY <1>1, <3>1 DEF Rises
    <2> QED BY <2>1 DEF Rises
(* What is inside the joined interval.                                      *)
<1>6. /\ \A j \in y + 1 .. n - 1 : Lev(l, y) < Lev(l, j)
      /\ \A j \in x + 1 .. y - 1 : Lev(l, y) <= Lev(l, j)
      /\ Lev(l, y) \in Nat
    <2>1. m - 1 \in 1 .. m - 1 /\ (m - 1) + 1 = m /\ m - 1 \in 1 .. m /\ (m - 1) - 1 = m - 2
        OBVIOUS
    <2>2. \A j \in b[m - 1] + 1 .. b[m] - 1 : Lev(l, b[m - 1]) < Lev(l, j)
        BY <2>1 DEF Looser
    <2>3. \A j \in b[m - 2] + 1 .. b[m - 1] - 1 :
              b[m - 1] = Len(l.cmds) \/ Lev(l, b[m - 1]) <= Lev(l, j)
        BY <2>1 DEF Reducible
    <2>4. y # Len(l.cmds) /\ y \in 1 .. Len(l.cmds) - 1
        BY <1>0, <1>3
    <2> QED BY <1>0, <1>1, <1>2, <2>2, <2>3, <2>4
<1>7. \A j \in x + 1 .. n - 1 : Lev(l, j) \in Nat /\ Lev(l, y) <= Lev(l, j)
    <2>1. \A j \in x + 1 .. n - 1 : j \in 1 .. Len(l.cmds) - 1
        BY <1>0
    <2>2. \A j \in x + 1 .. n - 1 : j = y \/ j \in y + 1 .. n - 1 \/ j \in x + 1 .. y - 1
        BY <1>3
    <2> QED BY <1>0, <1>6, <2>1, <2>2
<1>8. Looser(l, m - 1, d)
    <2>1. ASSUME NEW q \in 1 .. m - 1 - 1, NEW j \in d[q] + 1 .. d[q + 1] - 1
          PROVE  Lev(l, d[q]) < Lev(l, j)
        <3>1. q \in 0 .. m - 2 /\ q \in 1 .. m - 1 /\ d[q] = b[q]
            BY <1>1
        <3>2. CASE q = m - 2
            <4>1. d[q] = x /\ d[q + 1] = n
                BY <1>1, <1>2, <3>1, <3>2
            <4>2. Lev(l, x) < Lev(l, y)
                <5>1. m - 2 \in 1 .. m - 2 /\ (m - 2) + 1 = m - 1
                    BY <3>2
                <5> QED BY <1>2, <5>1 DEF Rises
            <4>3. x \in 1 .. Len(l.cmds) - 1
                <5>1. x > 0
                    BY <1>1, <1>2, <3>2
                <5> QED BY <1>0, <1>3, <5>1
            <4>4. Lev(l, x) \in Nat
                BY <1>0, <4>3
            <4>5. j \in x + 1 .. n - 1
                BY <4>1
            <4>6. Lev(l, j) \in Nat /\ Lev(l, y) <= Lev(l, j)
                BY <1>7, <4>5
            <4> QED BY <1>6, <4>1, <4>2, <4>4, <4>6
        <3>3. CASE q # m - 2
            <4>1. q + 1 \in 0 .. m - 2
                BY <3>3
            <4> QED BY <1>1, <3>1, <4>1 DEF Looser
        <3> QED BY <3>2, <3>3
    <2> QED BY <2>1 DEF Looser
<1>9. Reducible(l, m - 1, d)
    <2>1. ASSUME NEW q \in 1 .. m - 1, NEW j \in d[q - 1] + 1 .. d[q] - 1
          PROVE  d[q] = Len(l.cmds) \/ Lev(l, d[q]) <= Lev(l, j)
        <3>1. q - 1 \in 0 .. m - 2 /\ q \in 1 .. m
            OBVIOUS
        <3>2. CASE q = m - 1
            <4>1. d[q - 1] = x /\ d[q] = n
                BY <1>1, <1>2, <3>1, <3>2
            <4>2. CASE n = Len(l.cmds)
                BY <4>1, <4>2
            <4>3. CASE n # Len(l.cmds)
                <5>1. n \in 1 .. Len(l.cmds) - 1
                    BY <1>0, <1>3, <4>3
                <5>2. Lev(l, n) \in Nat /\ Lev(l, y) >= Lev(l, n)
                    BY <1>0, <1>2, <4>3, <5>1
                <5>3. Lev(l, j) \in Nat /\ Lev(l, y) <= Lev(l, j)
                    BY <1>7, <4>1
                <5> QED BY <1>6, <4>1, <5>2, <5>3
            <4> QED BY <4>2, <4>3
        <3>3. CASE q # m - 1
            <4>1. q \in 0 .. m - 2
                BY <3>3
            <4> QED BY <1>1, <3>1, <4>1 DEF Reducible
        <3> QED BY <3>2, <3>3
    <2> QED BY <2>1 DEF Reducible
<1>10. IsLoosest(l, x + 1, n, y)
    <2>1. y \in x + 1 .. n - 1
        BY <1>3
    <2> QED BY <1>6, <2>1 DEF IsLoosest, Lev
<1> QED BY <1>2, <1>4, <1>5, <1>8, <1>9, <1>10

ParserStates(l) == [shifted : Seq(Nat), cmds : Seq(Trees(l)), ops : Seq(Operators)]
Divides(l, c, n, m, b) ==
    /\ c \in ParserStates(l) /\ Len(c.shifted) = n /\ Len(c.cmds) = m
    /\ n <= Len(l.cmds) /\ Len(c.ops) = IF m = 0 THEN 0 ELSE m - 1
    /\ Cuts(n, m, b) /\ Rises(l, m, b) /\ Looser(l, m, b) /\ Reducible(l, m, b)
    /\ Stacked(l, m, b, c.cmds, c.ops)

LEMMA DividesFacts ==
    ASSUME NEW l, IsLine(l), NEW c, NEW n \in Nat, NEW m \in Nat, NEW b, Divides(l, c, n, m, b)
    PROVE  /\ c.shifted \in Seq(Nat) /\ c.cmds \in Seq(Trees(l)) /\ c.ops \in Seq(Operators)
           /\ c = [shifted |-> c.shifted, cmds |-> c.cmds, ops |-> c.ops]
           /\ c.ops # <<>> <=> m > 1
           /\ m > 1 => /\ Last(c.ops) = l.ops[b[m - 1]]
                       /\ b[m - 1] \in 1 .. n - 1
<1>1. /\ c.shifted \in Seq(Nat) /\ c.cmds \in Seq(Trees(l)) /\ c.ops \in Seq(Operators)
      /\ c = [shifted |-> c.shifted, cmds |-> c.cmds, ops |-> c.ops]
    BY DEF Divides, ParserStates
<1>2. Len(c.ops) = IF m = 0 THEN 0 ELSE m - 1
    BY DEF Divides
<1>3. c.ops # <<>> <=> m > 1
    BY <1>1, <1>2
<1>4. ASSUME m > 1 PROVE Last(c.ops) = l.ops[b[m - 1]] /\ b[m - 1] \in 1 .. n - 1
    <2>1. Last(c.ops) = c.ops[m - 1]
        BY <1>2, <1>4 DEF Last
    <2>2. m - 1 \in 1 .. m - 1 /\ m - 1 \in 1 .. m /\ m - 1 \in 0 .. m - 1 /\ m - 1 \in 0 .. m
        BY <1>4
    <2>3. c.ops[m - 1] = l.ops[b[m - 1]]
        BY <2>2 DEF Divides, Stacked
    <2>4. Cuts(n, m, b)
        BY DEF Divides
    <2>5. b[m - 1] \in Nat /\ b[m - 1] > 0 /\ b[m - 1] < n
        BY <2>2, <2>4, CutFacts
    <2> QED BY <2>1, <2>3, <2>5
<1> QED BY <1>1, <1>3, <1>4

LEMMA ShiftDivides ==
    ASSUME NEW l, IsLine(l), NEW c, NEW n \in Nat, NEW m \in Nat, NEW b, Divides(l, c, n, m, b),
           n < Len(l.cmds), c.ops # <<>> => ~ Left(Last(c.ops), l.ops[n])
    PROVE  \E d : Divides(l, Shift(c, l), n + 1, m + 1, d)
<1> DEFINE e == Shift(c, l)
           d == [q \in 0 .. m + 1 |-> IF q = m + 1 THEN n + 1 ELSE b[q]]
<1>0. /\ Len(l.cmds) \in Nat \ {0} /\ DOMAIN l.cmds = 1 .. Len(l.cmds)
      /\ \A k \in 1 .. Len(l.cmds) - 1 : l.ops[k] \in Operators
    BY LineFacts
<1>1. /\ c.shifted \in Seq(Nat) /\ c.cmds \in Seq(Trees(l)) /\ c.ops \in Seq(Operators)
      /\ c = [shifted |-> c.shifted, cmds |-> c.cmds, ops |-> c.ops]
      /\ c.ops # <<>> <=> m > 1
      /\ m > 1 => Last(c.ops) = l.ops[b[m - 1]]
    BY DividesFacts
<1>2. /\ Len(c.shifted) = n /\ Len(c.cmds) = m /\ Len(c.ops) = IF m = 0 THEN 0 ELSE m - 1
      /\ Cuts(n, m, b) /\ Rises(l, m, b) /\ Looser(l, m, b) /\ Reducible(l, m, b)
      /\ Stacked(l, m, b, c.cmds, c.ops)
    BY DEF Divides
<1>3. m = 0 <=> n = 0
    BY <1>2, CutFacts
<1>4. m > 1 => ~ (Lev(l, b[m - 1]) >= Lev(l, n))
    BY <1>1 DEF Left, Lev
<1>5. /\ Cuts(n + 1, m + 1, d) /\ Rises(l, m + 1, d)
      /\ Looser(l, m + 1, d) /\ Reducible(l, m + 1, d)
    <2> HIDE DEF d
    <2>1. d = [q \in 0 .. m + 1 |-> IF q = m + 1 THEN n + 1 ELSE b[q]]
        BY DEF d
    <2>2. IsLine(l) /\ n \in Nat /\ n < Len(l.cmds) /\ m \in Nat
        OBVIOUS
    <2> QED BY ONLY <1>2, <1>4, <2>1, <2>2, NewInterval
<1>6. /\ \A q \in 0 .. m : d[q] = b[q]
      /\ d[m + 1] = n + 1 /\ d[m] = n
    <2>1. \A q \in 0 .. m : q \in 0 .. m + 1 /\ q # m + 1
        OBVIOUS
    <2>2. b[m] = n
        BY <1>2 DEF Cuts
    <2> QED BY <2>1, <2>2
<1> HIDE DEF d
<1>7. Groups(l)[<<n + 1, n + 1>>] = <<"none", n + 1>> /\ <<"none", n + 1>> \in Trees(l)
    <2>1. n + 1 \in 1 .. Len(l.cmds)
        BY <1>0
    <2>2. Groups(l)[<<n + 1, n + 1>>] = <<"none", n + 1>>
        BY <2>1, GroupsUnfold
    <2>3. <<n + 1, n + 1>> \in Intervals(l)
        BY <1>0, <2>1 DEF Intervals
    <2> QED BY <2>2, <2>3 DEF Trees
<1>8. /\ e.shifted = Append(c.shifted, n + 1)
      /\ e.cmds = Append(c.cmds, <<"none", n + 1>>)
      /\ e.ops = IF n > 0 THEN Append(c.ops, l.ops[n]) ELSE c.ops
      /\ e = [shifted |-> e.shifted, cmds |-> e.cmds, ops |-> e.ops]
    <2>1. n + 1 > 1 <=> n > 0
        OBVIOUS
    <2>2. (n + 1) - 1 = n
        OBVIOUS
    <2>3. PICK i : i = n + 1
        OBVIOUS
    <2>4. e = [c EXCEPT !.shifted = Append(@, i), !.cmds = Append(@, new_command(i)),
                        !.ops = IF i > 1 THEN Append(@, l.ops[i - 1]) ELSE @]
        BY <1>2, <2>3 DEF Shift
    <2>5. /\ e.shifted = Append(c.shifted, i) /\ e.cmds = Append(c.cmds, new_command(i))
          /\ e.ops = IF i > 1 THEN Append(c.ops, l.ops[i - 1]) ELSE c.ops
          /\ e = [shifted |-> e.shifted, cmds |-> e.cmds, ops |-> e.ops]
        BY <1>1, <2>4
    <2> QED BY <2>1, <2>2, <2>3, <2>5 DEF new_command
<1> HIDE DEF e
<1>9. e.shifted \in Seq(Nat) /\ Len(e.shifted) = n + 1
    BY <1>1, <1>2, <1>8, AppendProperties
<1>10. /\ e.cmds \in Seq(Trees(l)) /\ Len(e.cmds) = m + 1 /\ e.cmds[m + 1] = <<"none", n + 1>>
       /\ \A q \in 1 .. m : e.cmds[q] = c.cmds[q]
    <2>1. PICK t \in Trees(l) : t = <<"none", n + 1>>
        BY <1>7
    <2>2. /\ Append(c.cmds, t) \in Seq(Trees(l)) /\ Len(Append(c.cmds, t)) = Len(c.cmds) + 1
          /\ \A q \in 1 .. Len(c.cmds) : Append(c.cmds, t)[q] = c.cmds[q]
          /\ Append(c.cmds, t)[Len(c.cmds) + 1] = t
        BY <1>1, AppendProperties
    <2> QED BY <1>2, <1>8, <2>1, <2>2
<1>11. /\ e.ops \in Seq(Operators) /\ Len(e.ops) = m
       /\ \A q \in 1 .. m - 1 : e.ops[q] = c.ops[q]
       /\ m > 0 => e.ops[m] = l.ops[n]
    <2>1. CASE n = 0
        BY <1>1, <1>2, <1>3, <1>8, <2>1
    <2>2. CASE n # 0
        <3>1. e.ops = Append(c.ops, l.ops[n]) /\ m > 0
            BY <1>3, <1>8, <2>2
        <3>2. l.ops[n] \in Operators
            BY <1>0, <2>2
        <3>3. Len(c.ops) = m - 1
            BY <1>2, <3>1
        <3>4. /\ e.ops \in Seq(Operators) /\ Len(e.ops) = Len(c.ops) + 1
              /\ \A q \in 1 .. Len(c.ops) : e.ops[q] = c.ops[q]
              /\ e.ops[Len(c.ops) + 1] = l.ops[n]
            BY <1>1, <3>1, <3>2, AppendProperties
        <3> QED BY <3>3, <3>4
    <2> QED BY <2>1, <2>2
<1>12. Stacked(l, m + 1, d, e.cmds, e.ops)
    <2>1. ASSUME NEW q \in 1 .. m + 1
          PROVE  e.cmds[q] = Groups(l)[<<d[q - 1] + 1, d[q]>>]
        <3>1. CASE q = m + 1
            <4>1. d[q - 1] = n /\ d[q] = n + 1
                BY <1>6, <3>1
            <4> QED BY <1>7, <1>10, <3>1, <4>1
        <3>2. CASE q # m + 1
            <4>1. q \in 1 .. m /\ q \in 0 .. m /\ q - 1 \in 0 .. m
                BY <3>2
            <4>2. c.cmds[q] = Groups(l)[<<b[q - 1] + 1, b[q]>>]
                BY <1>2, <4>1 DEF Stacked
            <4> QED BY <1>6, <1>10, <4>1, <4>2
        <3> QED BY <3>1, <3>2
    <2>2. ASSUME NEW q \in 1 .. (m + 1) - 1 PROVE e.ops[q] = l.ops[d[q]]
        <3>1. CASE q = m
            BY <1>6, <1>11, <3>1
        <3>2. CASE q # m
            <4>1. q \in 1 .. m - 1 /\ q \in 0 .. m
                BY <3>2
            <4>2. c.ops[q] = l.ops[b[q]]
                BY <1>2, <4>1 DEF Stacked
            <4> QED BY <1>6, <1>11, <4>1, <4>2
        <3> QED BY <3>1, <3>2
    <2> QED BY ONLY <2>1, <2>2, Zenon DEF Stacked
<1>13. e \in ParserStates(l)
    BY <1>8, <1>9, <1>10, <1>11 DEF ParserStates
<1>14. Divides(l, e, n + 1, m + 1, d)
    <2>1. n + 1 <= Len(l.cmds) /\ Len(e.ops) = IF m + 1 = 0 THEN 0 ELSE (m + 1) - 1
        BY <1>0, <1>11
    <2> QED BY <1>5, <1>9, <1>10, <1>12, <1>13, <2>1 DEF Divides
<1> QED BY <1>14 DEF e

LEMMA ReduceDivides ==
    ASSUME NEW l, IsLine(l), NEW c, NEW n \in Nat, NEW m \in Nat, NEW b, Divides(l, c, n, m, b),
           c.ops # <<>>, n = Len(l.cmds) \/ Left(Last(c.ops), l.ops[n])
    PROVE  m > 1 /\ \E d : Divides(l, Reduce(c), n, m - 1, d)
<1> DEFINE e == Reduce(c)
           d == [q \in 0 .. m - 1 |-> IF q = m - 1 THEN n ELSE b[q]]
<1>0. Len(l.cmds) \in Nat \ {0} /\ DOMAIN l.cmds = 1 .. Len(l.cmds)
    BY LineFacts
<1>1. /\ c.shifted \in Seq(Nat) /\ c.cmds \in Seq(Trees(l)) /\ c.ops \in Seq(Operators)
      /\ c = [shifted |-> c.shifted, cmds |-> c.cmds, ops |-> c.ops]
      /\ m > 1 /\ Last(c.ops) = l.ops[b[m - 1]] /\ b[m - 1] \in 1 .. n - 1
    BY DividesFacts
<1>2. /\ Len(c.shifted) = n /\ Len(c.cmds) = m /\ Len(c.ops) = m - 1 /\ n <= Len(l.cmds)
      /\ Cuts(n, m, b) /\ Rises(l, m, b) /\ Looser(l, m, b) /\ Reducible(l, m, b)
      /\ Stacked(l, m, b, c.cmds, c.ops)
    BY <1>1 DEF Divides
<1>3. n = Len(l.cmds) \/ Lev(l, b[m - 1]) >= Lev(l, n)
    BY <1>1 DEF Left, Lev
<1>4. /\ Cuts(n, m - 1, d) /\ Rises(l, m - 1, d)
      /\ Looser(l, m - 1, d) /\ Reducible(l, m - 1, d)
      /\ IsLoosest(l, b[m - 2] + 1, n, b[m - 1])
    <2> HIDE DEF d
    <2>1. d = [q \in 0 .. m - 1 |-> IF q = m - 1 THEN n ELSE b[q]]
        BY DEF d
    <2> QED BY <1>1, <1>2, <1>3, <2>1, JoinIntervals
<1>5. /\ \A q \in 0 .. m - 2 : d[q] = b[q]
      /\ d[m - 1] = n /\ b[m] = n
    <2>1. \A q \in 0 .. m - 2 : q \in 0 .. m - 1 /\ q # m - 1
        OBVIOUS
    <2>2. b[m] = n
        BY <1>2 DEF Cuts
    <2>3. m - 1 \in 0 .. m - 1
        BY <1>1
    <2> QED BY <2>1, <2>2, <2>3
<1> HIDE DEF d
<1>6. PICK x \in Nat, y \in Nat : b[m - 2] = x /\ b[m - 1] = y /\ y <= n
    <2>1. m - 2 \in 0 .. m /\ m - 1 \in 0 .. m
        BY <1>1
    <2> QED BY <1>2, <2>1, CutFacts
<1> DEFINE t == Groups(l)[<<x + 1, n>>]
<1>7. t \in Trees(l) /\ t = <<l.ops[y], Groups(l)[<<x + 1, y>>], Groups(l)[<<y + 1, n>>]>>
    <2>1. y \in x + 1 .. n - 1
        BY <1>4, <1>6 DEF IsLoosest
    <2>2. x + 1 \in 1 .. Len(l.cmds) /\ n \in 1 .. Len(l.cmds)
        BY <1>0, <1>2, <2>1
    <2>3. <<x + 1, n>> \in Intervals(l)
        BY <1>0, <2>2 DEF Intervals
    <2>4. IsLoosest(l, x + 1, n, y)
        BY <1>4, <1>6
    <2>5. t = <<l.ops[y], Groups(l)[<<x + 1, y>>], Groups(l)[<<y + 1, n>>]>>
        BY <2>2, <2>4, GroupsUnfold
    <2> QED BY <2>3, <2>5 DEF Trees
<1> HIDE DEF t
<1>8. bind_commands(c.cmds[m - 1], c.cmds[m], Last(c.ops)) = t
    <2>1. m - 1 \in 1 .. m /\ m \in 1 .. m /\ (m - 1) - 1 = m - 2
        BY <1>1
    <2>2. c.cmds[m - 1] = Groups(l)[<<x + 1, y>>] /\ c.cmds[m] = Groups(l)[<<y + 1, n>>]
        BY <1>2, <1>5, <1>6, <2>1 DEF Stacked
    <2> QED BY <1>1, <1>6, <1>7, <2>2 DEF bind_commands
<1>9. /\ e.shifted = c.shifted /\ e.ops = Front(c.ops)
      /\ e.cmds = Append(SubSeq(c.cmds, 1, m - 2), t)
      /\ e = [shifted |-> e.shifted, cmds |-> e.cmds, ops |-> e.ops]
    <2>1. PICK w : w = m
        OBVIOUS
    <2>2. e = [c EXCEPT !.cmds = Append(SubSeq(@, 1, w - 2),
                                        bind_commands(@[w - 1], @[w], Last(c.ops))),
                        !.ops = Front(@)]
        BY <1>2, <2>1 DEF Reduce
    <2>3. /\ e.shifted = c.shifted /\ e.ops = Front(c.ops)
          /\ e.cmds = Append(SubSeq(c.cmds, 1, w - 2),
                             bind_commands(c.cmds[w - 1], c.cmds[w], Last(c.ops)))
          /\ e = [shifted |-> e.shifted, cmds |-> e.cmds, ops |-> e.ops]
        BY <1>1, <2>2
    <2> QED BY <1>8, <2>1, <2>3
<1> HIDE DEF e
<1>10. /\ e.cmds \in Seq(Trees(l)) /\ Len(e.cmds) = m - 1 /\ e.cmds[m - 1] = t
       /\ \A q \in 1 .. m - 2 : e.cmds[q] = c.cmds[q]
    <2>1. PICK s \in Seq(Trees(l)) : s = c.cmds /\ Len(s) = m
        BY <1>1, <1>2
    <2>2. /\ Append(SubSeq(s, 1, Len(s) - 2), t) \in Seq(Trees(l))
          /\ Len(Append(SubSeq(s, 1, Len(s) - 2), t)) = Len(s) - 1
          /\ Append(SubSeq(s, 1, Len(s) - 2), t)[Len(s) - 1] = t
          /\ \A q \in 1 .. Len(s) - 2 : Append(SubSeq(s, 1, Len(s) - 2), t)[q] = s[q]
        <3>1. Len(s) >= 2
            BY <1>1, <2>1
        <3> QED BY ONLY s \in Seq(Trees(l)), <1>7, <3>1, LastTwo
    <2> QED BY <1>9, <2>1, <2>2
<1>11. /\ e.ops \in Seq(Operators) /\ Len(e.ops) = m - 2
       /\ \A q \in 1 .. m - 2 : e.ops[q] = c.ops[q]
    <2>1. /\ Front(c.ops) \in Seq(Operators) /\ Len(Front(c.ops)) = Len(c.ops) - 1
          /\ \A q \in 1 .. Len(c.ops) - 1 : Front(c.ops)[q] = c.ops[q]
        BY <1>1, FrontIs
    <2> QED BY <1>2, <1>9, <2>1
<1>12. Stacked(l, m - 1, d, e.cmds, e.ops)
    <2>1. ASSUME NEW q \in 1 .. m - 1
          PROVE  e.cmds[q] = Groups(l)[<<d[q - 1] + 1, d[q]>>]
        <3>1. q - 1 \in 0 .. m - 2 /\ q \in 1 .. m
            OBVIOUS
        <3>2. CASE q = m - 1
            <4>1. d[q - 1] = x /\ d[q] = n
                BY <1>5, <1>6, <3>1, <3>2
            <4> QED BY <1>10, <3>2, <4>1 DEF t
        <3>3. CASE q # m - 1
            <4>1. q \in 1 .. m - 2 /\ q \in 0 .. m - 2
                BY <3>3
            <4>2. c.cmds[q] = Groups(l)[<<b[q - 1] + 1, b[q]>>]
                BY <1>2, <3>1 DEF Stacked
            <4> QED BY <1>5, <1>10, <3>1, <4>1, <4>2
        <3> QED BY <3>2, <3>3
    <2>2. ASSUME NEW q \in 1 .. (m - 1) - 1 PROVE e.ops[q] = l.ops[d[q]]
        <3>1. q \in 1 .. m - 2 /\ q \in 0 .. m - 2 /\ q \in 1 .. m - 1
            OBVIOUS
        <3>2. c.ops[q] = l.ops[b[q]]
            BY <1>2, <3>1 DEF Stacked
        <3> QED BY <1>5, <1>11, <3>1, <3>2
    <2> QED BY ONLY <2>1, <2>2, Zenon DEF Stacked
<1>13. e \in ParserStates(l)
    BY <1>1, <1>9, <1>10, <1>11 DEF ParserStates
<1>14. Divides(l, e, n, m - 1, d)
    <2>1. Len(e.ops) = IF m - 1 = 0 THEN 0 ELSE (m - 1) - 1
        BY <1>1, <1>11
    <2> QED BY <1>2, <1>4, <1>9, <1>10, <1>12, <1>13, <2>1 DEF Divides
<1> QED BY <1>1, <1>14 DEF e

-----------------------------------------------------------------------------
(* The loop itself. *)

StartState == [shifted |-> <<>>, cmds |-> <<>>, ops |-> <<>>]
Parses(l, f, k) ==
    f = [i \in 0 .. k |-> IF i = 0 THEN StartState ELSE yyparse_step(f[i - 1], l)]

LEMMA ParseExists ==
    ASSUME NEW l, NEW n \in Nat
    PROVE  \E f : Parses(l, f, n)
<1> DEFINE S == {k \in Nat : \E f : Parses(l, f, k)}
<1>1. 0 \in S
    <2>1. Parses(l, [i \in 0 .. 0 |-> StartState], 0)
        BY DEF Parses
    <2> QED BY <2>1
<1>2. ASSUME NEW k \in Nat, k \in S PROVE k + 1 \in S
    <2>1. PICK f : Parses(l, f, k)
        BY <1>2
    <2> DEFINE g == [i \in 0 .. k + 1 |-> IF i = k + 1 THEN yyparse_step(f[k], l) ELSE f[i]]
    <2>2. \A i \in 0 .. k : g[i] = f[i] /\ f[i] = IF i = 0 THEN StartState ELSE yyparse_step(f[i - 1], l)
        <3>1. \A i \in 0 .. k : i \in 0 .. k + 1 /\ i # k + 1
            OBVIOUS
        <3>2. \A i \in 0 .. k : f[i] = IF i = 0 THEN StartState ELSE yyparse_step(f[i - 1], l)
            BY <2>1 DEF Parses
        <3> QED BY <3>1, <3>2
    <2>3. g[k + 1] = yyparse_step(f[k], l)
        OBVIOUS
    <2>4. ASSUME NEW i \in 0 .. k + 1
          PROVE  g[i] = IF i = 0 THEN StartState ELSE yyparse_step(g[i - 1], l)
        <3> HIDE DEF g
        <3>1. CASE i = k + 1
            <4>1. i # 0 /\ i - 1 = k /\ k \in 0 .. k
                BY <3>1
            <4> QED BY <2>2, <2>3, <3>1, <4>1
        <3>2. CASE i # k + 1
            <4>1. i \in 0 .. k /\ (i # 0 => i - 1 \in 0 .. k)
                BY <3>2
            <4> QED BY <2>2, <4>1
        <3> QED BY <3>1, <3>2
    <2>5. g = [i \in 0 .. k + 1 |-> g[i]]
        OBVIOUS
    <2>6. Parses(l, g, k + 1)
        <3> HIDE DEF g
        <3> QED BY <2>4, <2>5 DEF Parses
    <2> QED BY <2>6
<1> HIDE DEF S
<1>3. n \in S
    BY <1>1, <1>2, Induction
<1> QED BY <1>3 DEF S

LEMMA ParseUnfolds ==
    ASSUME NEW l, IsLine(l)
    PROVE  /\ yyparse(l)[0] = StartState
           /\ \A k \in 1 .. Moves(l) : yyparse(l)[k] = yyparse_step(yyparse(l)[k - 1], l)
<1>1. Moves(l) \in Nat
    BY LineFacts DEF Moves
<1>2. yyparse(l) = CHOOSE f : Parses(l, f, Moves(l))
    BY DEF yyparse, Parses, StartState
<1>3. \E f : Parses(l, f, Moves(l))
    BY <1>1, ParseExists
<1>4. Parses(l, yyparse(l), Moves(l))
    <2> DEFINE P(f) == Parses(l, f, Moves(l))
    <2>1. \E f : P(f)
        BY <1>3
    <2>2. P(CHOOSE f : P(f))
        BY <2>1
    <2> QED BY <1>2, <2>2
<1>5. \A k \in 0 .. Moves(l) :
          yyparse(l)[k] = IF k = 0 THEN StartState ELSE yyparse_step(yyparse(l)[k - 1], l)
    BY <1>4 DEF Parses
<1>6. 0 \in 0 .. Moves(l) /\ \A k \in 1 .. Moves(l) : k \in 0 .. Moves(l) /\ k # 0
    BY <1>1
<1> QED BY <1>5, <1>6

(* After k moves the stack divides n commands into m intervals, 2n - m = k. *)
Reached(l, k) ==
    \E n \in Nat : \E m \in Nat : \E b : 2 * n - m = k /\ Divides(l, yyparse(l)[k], n, m, b)

LEMMA StartReached ==
    ASSUME NEW l, IsLine(l)
    PROVE  Reached(l, 0)
<1>1. yyparse(l)[0] = StartState
    BY ParseUnfolds
<1>2. Len(l.cmds) \in Nat
    BY LineFacts
<1> DEFINE b == [q \in 0 .. 0 |-> 0]
<1>3. Cuts(0, 0, b) /\ Rises(l, 0, b) /\ Looser(l, 0, b) /\ Reducible(l, 0, b)
    BY DEF Cuts, Rises, Looser, Reducible
<1>4. Stacked(l, 0, b, StartState.cmds, StartState.ops)
    BY DEF Stacked
<1>5. StartState \in ParserStates(l) /\ Len(StartState.shifted) = 0
      /\ Len(StartState.cmds) = 0 /\ Len(StartState.ops) = 0
    BY DEF StartState, ParserStates
<1>6. Divides(l, StartState, 0, 0, b)
    BY <1>2, <1>3, <1>4, <1>5 DEF Divides
<1> QED BY <1>1, <1>6 DEF Reached

LEMMA MoveReached ==
    ASSUME NEW l, IsLine(l), NEW k \in Nat, k + 1 <= Moves(l), Reached(l, k)
    PROVE  Reached(l, k + 1)
<1>1. Len(l.cmds) \in Nat \ {0} /\ Moves(l) = 2 * Len(l.cmds) - 1
    BY LineFacts DEF Moves
<1>2. PICK n \in Nat, m \in Nat : \E b : 2 * n - m = k /\ Divides(l, yyparse(l)[k], n, m, b)
    BY DEF Reached
<1>3. PICK b : 2 * n - m = k /\ Divides(l, yyparse(l)[k], n, m, b)
    BY <1>2
<1>4. PICK c : c = yyparse(l)[k]
    OBVIOUS
<1>5. Divides(l, c, n, m, b) /\ Len(c.shifted) = n /\ n <= Len(l.cmds) /\ Cuts(n, m, b)
    BY <1>3, <1>4 DEF Divides
<1>6. yyparse(l)[k + 1] = yyparse_step(c, l)
    <2>1. k + 1 \in 1 .. Moves(l) /\ (k + 1) - 1 = k
        BY <1>1
    <2> QED BY <1>4, <2>1, ParseUnfolds
<1>7. CASE c.ops # <<>> /\ (n = Len(l.cmds) \/ Left(Last(c.ops), l.ops[n]))
    <2>1. m > 1 /\ \E d : Divides(l, Reduce(c), n, m - 1, d)
        BY <1>5, <1>7, ReduceDivides
    <2>2. yyparse(l)[k + 1] = Reduce(c)
        BY <1>5, <1>6, <1>7 DEF yyparse_step
    <2>3. m - 1 \in Nat /\ 2 * n - (m - 1) = k + 1
        BY <1>3, <2>1
    <2> QED BY <2>1, <2>2, <2>3 DEF Reached
<1>8. CASE ~ (c.ops # <<>> /\ (n = Len(l.cmds) \/ Left(Last(c.ops), l.ops[n])))
    <2>1. n < Len(l.cmds)
        <3>1. c.ops # <<>> <=> m > 1
            BY <1>5, DividesFacts
        <3>2. m = 0 <=> n = 0
            BY <1>5, CutFacts
        <3>3. CASE m > 1
            BY <1>1, <1>5, <1>8, <3>1, <3>3
        <3>4. CASE m = 1
            BY <1>1, <1>3, <1>5, <3>4
        <3>5. CASE m = 0
            BY <1>1, <3>2, <3>5
        <3> QED BY <3>3, <3>4, <3>5
    <2>2. c.ops # <<>> => ~ Left(Last(c.ops), l.ops[n])
        BY <1>8
    <2>3. \E d : Divides(l, Shift(c, l), n + 1, m + 1, d)
        BY <1>5, <2>1, <2>2, ShiftDivides
    <2>4. yyparse(l)[k + 1] = Shift(c, l)
        BY <1>5, <1>6, <1>8 DEF yyparse_step
    <2>5. n + 1 \in Nat /\ m + 1 \in Nat /\ 2 * (n + 1) - (m + 1) = k + 1
        BY <1>3
    <2> QED BY <2>3, <2>4, <2>5 DEF Reached
<1> QED BY <1>7, <1>8

(* The tree the parser makes of a line is the one its priorities define:     *)
(* yyparse of parser.tab.c, with the precedences of parser.y, follows the    *)
(* comment on op_t in parser.h.                                              *)
THEOREM ParserFollowsPriorities ==
    ASSUME NEW l, IsLine(l)
    PROVE  parse_line(l) = Grouped(l)
<1>1. Len(l.cmds) \in Nat \ {0} /\ Moves(l) = 2 * Len(l.cmds) - 1 /\ Moves(l) \in Nat
    BY LineFacts DEF Moves
<1> DEFINE S == {k \in Nat : k <= Moves(l) => Reached(l, k)}
<1>2. 0 \in S
    BY StartReached
<1>3. ASSUME NEW k \in Nat, k \in S PROVE k + 1 \in S
    <2>1. k + 1 <= Moves(l) => k <= Moves(l)
        BY <1>1
    <2> QED BY <1>3, <2>1, MoveReached
<1>4. Moves(l) \in S
    <2> HIDE DEF S
    <2> QED BY <1>1, <1>2, <1>3, Induction
<1>5. Reached(l, Moves(l))
    BY <1>1, <1>4
<1>6. PICK c : c = yyparse(l)[Moves(l)]
    OBVIOUS
<1>7. PICK n \in Nat, m \in Nat : \E b : 2 * n - m = Moves(l) /\ Divides(l, c, n, m, b)
    BY <1>5, <1>6 DEF Reached
<1>8. PICK b : 2 * n - m = Moves(l) /\ Divides(l, c, n, m, b)
    BY <1>7
<1>9. Cuts(n, m, b) /\ n <= Len(l.cmds) /\ Stacked(l, m, b, c.cmds, c.ops)
    BY <1>8 DEF Divides
<1>10. m = 0 <=> n = 0
    BY <1>9, CutFacts
<1>11. n = Len(l.cmds) /\ m = 1
    BY <1>1, <1>8, <1>9, <1>10
<1>12. b[0] = 0 /\ b[1] = Len(l.cmds)
    BY <1>9, <1>11 DEF Cuts
<1>13. c.cmds[1] = Groups(l)[<<b[0] + 1, b[1]>>]
    <2>1. 1 \in 1 .. m /\ 1 - 1 = 0
        BY <1>11
    <2> QED BY <1>9, <2>1 DEF Stacked
<1> QED BY <1>6, <1>12, <1>13 DEF parse_line, Grouped

-----------------------------------------------------------------------------
(* The parts of the tree. *)

(* A command of the tree: the interval from a to b, cut at operators that   *)
(* bind less tightly than those in it.                                      *)
Node(l, a, b) ==
    /\ a \in 1 .. Len(l.cmds) /\ b \in a .. Len(l.cmds)
    /\ \A j \in a .. b - 1 : /\ a > 1 => Lev(l, a - 1) < Lev(l, j)
                             /\ b < Len(l.cmds) => Lev(l, b) <= Lev(l, j)
IsPart(l, t, a, b) == Node(l, a, b) /\ t = Groups(l)[<<a, b>>]
PipeAt(l, j) == j \in 1 .. Len(l.cmds) - 1 /\ l.ops[j] = "pipe"

LEMMA WholeLine ==
    ASSUME NEW l, IsLine(l)
    PROVE  /\ IsPart(l, Grouped(l), 1, Len(l.cmds))
           /\ ~ PipeAt(l, 0) /\ ~ PipeAt(l, Len(l.cmds))
<1>1. Len(l.cmds) \in Nat \ {0}
    BY LineFacts
<1> QED BY <1>1 DEF IsPart, Node, Grouped, PipeAt

(* The parts of a command.                                                  *)
LEMMA Parts ==
    ASSUME NEW l, IsLine(l), NEW t, NEW a, NEW b, IsPart(l, t, a, b)
    PROVE  /\ a \in Nat /\ b \in Nat /\ a \in 1 .. Len(l.cmds) /\ b \in 1 .. Len(l.cmds)
           /\ t \in Trees(l)
           /\ t[1] = "none" => a = b /\ t[2] = a
           /\ t[1] # "none" =>
                /\ t[1] \in Operators
                /\ \E k \in Nat : /\ IsPart(l, t[2], a, k) /\ IsPart(l, t[3], k + 1, b)
                                  /\ k \in 1 .. Len(l.cmds) - 1 /\ l.ops[k] = t[1]
           /\ t[1] \notin {"none", "pipe"} => ~ PipeAt(l, a - 1) /\ ~ PipeAt(l, b)
<1>1. /\ Len(l.cmds) \in Nat \ {0} /\ DOMAIN l.cmds = 1 .. Len(l.cmds)
      /\ \A k \in 1 .. Len(l.cmds) - 1 : l.ops[k] \in Operators /\ Lev(l, k) \in 1 .. 4
      /\ \A k \in 1 .. Len(l.cmds) - 1 : l.ops[k] # "none"
    <2>1. "none" \notin Operators
        BY DEF Operators
    <2> QED BY <2>1, LineFacts DEF Lev
<1>2. /\ a \in 1 .. Len(l.cmds) /\ b \in a .. Len(l.cmds) /\ a \in Nat /\ b \in Nat
      /\ b \in 1 .. Len(l.cmds)
    BY <1>1 DEF IsPart, Node
<1>3. t \in Trees(l)
    <2>1. <<a, b>> \in Intervals(l)
        BY <1>1, <1>2 DEF Intervals
    <2> QED BY <2>1 DEF IsPart, Trees
<1>4. CASE a = b
    <2>1. t = <<"none", a>>
        BY <1>2, <1>4, GroupsUnfold DEF IsPart
    <2> QED BY <1>2, <1>3, <1>4, <2>1
<1>5. CASE a # b
    <2>1. a < b
        BY <1>2, <1>5
    <2>2. PICK k : IsLoosest(l, a, b, k)
        BY <1>2, <2>1, LoosestIs
    <2>3. k \in a .. b - 1 /\ k \in 1 .. Len(l.cmds) - 1 /\ k \in Nat
        BY <1>1, <1>2, <2>2 DEF IsLoosest
    <2>4. t = <<l.ops[k], Groups(l)[<<a, k>>], Groups(l)[<<k + 1, b>>]>>
        BY <1>2, <2>2, GroupsUnfold DEF IsPart
    <2>5. t[1] = l.ops[k] /\ t[2] = Groups(l)[<<a, k>>] /\ t[3] = Groups(l)[<<k + 1, b>>]
        BY <2>4
    <2>6. /\ \A j \in a .. k - 1 : Lev(l, k) <= Lev(l, j)
          /\ \A j \in k + 1 .. b - 1 : Lev(l, k) < Lev(l, j)
        BY <2>2 DEF IsLoosest, Lev
    <2>7. \A j \in a .. b - 1 : /\ a > 1 => Lev(l, a - 1) < Lev(l, j)
                                /\ b < Len(l.cmds) => Lev(l, b) <= Lev(l, j)
        BY DEF IsPart, Node
    <2>8. Node(l, a, k)
        BY <1>1, <1>2, <2>3, <2>6, <2>7 DEF Node
    <2>9. Node(l, k + 1, b)
        BY <1>1, <1>2, <2>3, <2>6, <2>7 DEF Node
    <2>10. IsPart(l, t[2], a, k) /\ IsPart(l, t[3], k + 1, b)
        BY <2>5, <2>8, <2>9 DEF IsPart
    <2>11. ASSUME t[1] \notin {"none", "pipe"} PROVE ~ PipeAt(l, a - 1) /\ ~ PipeAt(l, b)
        <3>1. \A op \in Operators : Level[op] < 4 <=> op # "pipe"
            BY DEF Operators, Level
        <3>2. Lev(l, k) < 4
            BY <1>1, <2>3, <2>5, <2>11, <3>1 DEF Lev
        <3>3. \A j \in 1 .. Len(l.cmds) - 1 : l.ops[j] = "pipe" => Lev(l, j) = 4
            BY DEF Lev, Level
        <3>4. ~ PipeAt(l, a - 1)
            <4>1. a - 1 \in 1 .. Len(l.cmds) - 1 => Lev(l, a - 1) < Lev(l, k)
                BY <1>2, <2>3, <2>7
            <4>2. a - 1 \in 1 .. Len(l.cmds) - 1 => Lev(l, a - 1) \in Nat /\ Lev(l, k) \in Nat
                BY <1>1, <2>3
            <4> QED BY <3>2, <3>3, <4>1, <4>2 DEF PipeAt
        <3>5. ~ PipeAt(l, b)
            <4>1. b \in 1 .. Len(l.cmds) - 1 => Lev(l, b) <= Lev(l, k)
                BY <1>1, <1>2, <2>3, <2>7
            <4>2. b \in 1 .. Len(l.cmds) - 1 => Lev(l, b) \in Nat /\ Lev(l, k) \in Nat
                BY <1>1, <2>3
            <4> QED BY <3>2, <3>3, <4>1, <4>2 DEF PipeAt
        <3> QED BY <3>4, <3>5
    <2> QED BY <1>1, <1>2, <1>3, <2>3, <2>5, <2>10, <2>11
<1> QED BY <1>4, <1>5

(* A part has one place in the line.                                        *)
LEMMA PlaceIsOne ==
    ASSUME NEW l, IsLine(l), NEW t, NEW a, NEW b, NEW c, NEW d, IsPart(l, t, a, b), IsPart(l, t, c, d)
    PROVE  a = c /\ b = d
<1> DEFINE S == {n \in Nat : \A u : \A i, j, v, w \in Nat :
                    (j - i <= n /\ IsPart(l, u, i, j) /\ IsPart(l, u, v, w)) => i = v /\ j = w}
<1>1. 0 \in S
    <2> SUFFICES ASSUME NEW u, NEW i \in Nat, NEW j \in Nat, NEW v \in Nat, NEW w \in Nat,
                        j - i <= 0, IsPart(l, u, i, j), IsPart(l, u, v, w)
                 PROVE  i = v /\ j = w
        OBVIOUS
    <2>1. i = j
        BY DEF IsPart, Node
    <2>2. u[1] = "none"
        <3>1. u = <<"none", i>>
            BY <2>1, GroupsUnfold DEF IsPart, Node
        <3> QED BY <3>1
    <2>3. u[2] = i
        BY <2>2, Parts
    <2>4. v = w /\ u[2] = v
        BY <2>2, Parts
    <2> QED BY <2>1, <2>3, <2>4
<1>2. ASSUME NEW n \in Nat, n \in S PROVE n + 1 \in S
    <2> SUFFICES ASSUME NEW u, NEW i \in Nat, NEW j \in Nat, NEW v \in Nat, NEW w \in Nat,
                        j - i <= n + 1, IsPart(l, u, i, j), IsPart(l, u, v, w)
                 PROVE  i = v /\ j = w
        OBVIOUS
    <2>1. CASE u[1] = "none"
        BY <2>1, Parts
    <2>2. CASE u[1] # "none"
        <3>1. PICK k \in Nat : IsPart(l, u[2], i, k) /\ IsPart(l, u[3], k + 1, j)
            BY <2>2, Parts
        <3>2. PICK m \in Nat : IsPart(l, u[2], v, m) /\ IsPart(l, u[3], m + 1, w)
            BY <2>2, Parts
        <3>3. i <= k /\ k + 1 <= j
            BY <3>1, Parts DEF IsPart, Node
        <3>4. i = v /\ k = m
            <4>1. k - i <= n
                BY <3>3
            <4> QED BY <1>2, <3>1, <3>2, <4>1
        <3>5. k + 1 = m + 1 /\ j = w
            <4>1. j - (k + 1) <= n /\ k + 1 \in Nat /\ m + 1 \in Nat
                BY <3>3
            <4> QED BY <1>2, <3>1, <3>2, <4>1
        <3> QED BY <3>4, <3>5
    <2> QED BY <2>1, <2>2
<1>3. a \in Nat /\ b \in Nat /\ c \in Nat /\ d \in Nat /\ b - a \in Nat
    <2>1. a \in Nat /\ b \in Nat /\ c \in Nat /\ d \in Nat
        BY Parts
    <2>2. a <= b
        BY <2>1 DEF IsPart, Node
    <2> QED BY <2>1, <2>2
<1>4. b - a \in S
    <2> HIDE DEF S
    <2> QED BY <1>1, <1>2, <1>3, Induction
<1> QED BY <1>3, <1>4

(* Its place, and those of its parts.                                       *)
IsTree(l, t) == \E a, b \in DOMAIN l.cmds : IsPart(l, t, a, b)
Place(l, t) == CHOOSE p \in Intervals(l) : IsPart(l, t, p[1], p[2])
Lo(l, t) == Place(l, t)[1]
Hi(l, t) == Place(l, t)[2]
Span(l, t) == Lo(l, t) .. Hi(l, t)

LEMMA PlaceIs ==
    ASSUME NEW l, IsLine(l), NEW t, NEW a, NEW b, IsPart(l, t, a, b)
    PROVE  IsTree(l, t) /\ Lo(l, t) = a /\ Hi(l, t) = b
<1>1. a \in DOMAIN l.cmds /\ b \in DOMAIN l.cmds
    BY LineFacts, Parts
<1>2. PICK q \in Intervals(l) : q = <<a, b>>
    BY <1>1 DEF Intervals
<1>3. IsPart(l, t, q[1], q[2])
    BY <1>2
<1>4. PICK p : p = Place(l, t)
    OBVIOUS
<1>5. IsPart(l, t, p[1], p[2])
    BY <1>3, <1>4 DEF Place
<1>6. p[1] = a /\ p[2] = b
    BY <1>5, PlaceIsOne
<1> QED BY <1>1, <1>4, <1>6 DEF IsTree, Lo, Hi

LEMMA TreeFacts ==
    ASSUME NEW l, IsLine(l), NEW t, IsTree(l, t)
    PROVE  /\ Lo(l, t) \in 1 .. Len(l.cmds) /\ Hi(l, t) \in 1 .. Len(l.cmds)
           /\ Lo(l, t) \in Nat /\ Hi(l, t) \in Nat /\ Lo(l, t) <= Hi(l, t)
           /\ t[1] \in Operators \cup {"none"}
           /\ t[1] = "none" => Lo(l, t) = t[2] /\ Hi(l, t) = t[2]
           /\ t[1] # "none" =>
                /\ IsTree(l, t[2]) /\ Lo(l, t[2]) = Lo(l, t)
                /\ IsTree(l, t[3]) /\ Hi(l, t[3]) = Hi(l, t)
                /\ Hi(l, t[2]) + 1 = Lo(l, t[3]) /\ l.ops[Hi(l, t[2])] = t[1]
<1>1. PICK a, b \in DOMAIN l.cmds : IsPart(l, t, a, b)
    BY DEF IsTree
<1>2. Lo(l, t) = a /\ Hi(l, t) = b
    BY <1>1, PlaceIs
<1>3. a \in 1 .. Len(l.cmds) /\ b \in 1 .. Len(l.cmds)
    BY <1>1, Parts
<1>4. a <= b
    BY <1>1 DEF IsPart, Node
<1>5. ASSUME t[1] # "none"
      PROVE  /\ t[1] \in Operators
             /\ IsTree(l, t[2]) /\ Lo(l, t[2]) = Lo(l, t)
             /\ IsTree(l, t[3]) /\ Hi(l, t[3]) = Hi(l, t)
             /\ Hi(l, t[2]) + 1 = Lo(l, t[3]) /\ l.ops[Hi(l, t[2])] = t[1]
    <2>1. PICK k \in Nat : /\ IsPart(l, t[2], a, k) /\ IsPart(l, t[3], k + 1, b)
                           /\ l.ops[k] = t[1]
        BY <1>1, <1>5, Parts
    <2>2. IsTree(l, t[2]) /\ Lo(l, t[2]) = a /\ Hi(l, t[2]) = k
        BY <2>1, PlaceIs
    <2>3. IsTree(l, t[3]) /\ Lo(l, t[3]) = k + 1 /\ Hi(l, t[3]) = b
        BY <2>1, PlaceIs
    <2>4. t[1] \in Operators
        BY <1>1, <1>5, Parts
    <2> QED BY <1>2, <2>1, <2>2, <2>3, <2>4
<1>6. t[1] = "none" => a = t[2] /\ b = t[2]
    BY <1>1, Parts
<1> QED BY <1>2, <1>3, <1>4, <1>5, <1>6

LEMMA WholeTree ==
    ASSUME NEW l, IsLine(l)
    PROVE  IsTree(l, Grouped(l)) /\ Lo(l, Grouped(l)) = 1 /\ Hi(l, Grouped(l)) = Len(l.cmds)
BY WholeLine, PlaceIs

(* The sequences of a line are outside its parallel commands.               *)
LEMMA NoSequenceInParallel ==
    ASSUME NEW l, IsLine(l), NEW t, IsTree(l, t), t[1] = "parallel",
           NEW j \in Lo(l, t) .. Hi(l, t) - 1
    PROVE  l.ops[j] # "sequential"
<1>1. PICK a, b \in DOMAIN l.cmds : IsPart(l, t, a, b)
    BY DEF IsTree
<1>2. Lo(l, t) = a /\ Hi(l, t) = b
    BY <1>1, PlaceIs
<1>3. a \in 1 .. Len(l.cmds) /\ b \in 1 .. Len(l.cmds)
    BY <1>1, Parts
<1>4. a < b
    BY <1>2, TreeFacts
<1>5. PICK k : IsLoosest(l, a, b, k)
    BY <1>3, <1>4, LoosestIs
<1>6. t = <<l.ops[k], Groups(l)[<<a, k>>], Groups(l)[<<k + 1, b>>]>>
    BY <1>1, <1>3, <1>5, GroupsUnfold DEF IsPart
<1>7. l.ops[k] = "parallel" /\ Level[l.ops[k]] = 2
    <2>1. l.ops[k] = "parallel"
        BY <1>6
    <2> QED BY <2>1 DEF Level
<1>8. Level[l.ops[k]] <= Level[l.ops[j]]
    <2>1. k \in a .. b - 1 /\ j \in a .. b - 1
        BY <1>2, <1>5 DEF IsLoosest
    <2>2. j \in a .. k - 1 \/ j = k \/ j \in k + 1 .. b - 1
        BY <1>1, <2>1
    <2>3. j \in a .. k - 1 => Level[l.ops[k]] <= Level[l.ops[j]]
        BY <1>5 DEF IsLoosest
    <2>4. j \in k + 1 .. b - 1 => Level[l.ops[k]] < Level[l.ops[j]]
        BY <1>5 DEF IsLoosest
    <2>5. j \in 1 .. Len(l.cmds) - 1
        BY <1>3, <2>1
    <2>6. Level[l.ops[j]] \in 1 .. 4
        BY <2>5, LineFacts
    <2> QED BY <1>7, <2>2, <2>3, <2>4, <2>6
<1>9. l.ops[j] = "sequential" => Level[l.ops[j]] = 1
    BY DEF Level
<1> QED BY <1>7, <1>8, <1>9

-----------------------------------------------------------------------------
(* The words of a command: the lists lead forward, so each has an end.       *)

Forward(next, n) ==
    /\ next \in Seq(Nat) /\ Len(next) = n
    /\ \A w \in 1 .. n : next[w] = 0 \/ (next[w] > w /\ next[w] <= n)
EndsFrom(next, n, f, m) ==
    \A w \in 1 .. n : w > m => f[w] = IF next[w] = 0 THEN w ELSE f[next[w]]

LEMMA EndsExist ==
    ASSUME NEW n \in Nat, NEW next, Forward(next, n), NEW k \in Nat
    PROVE  \E f : f = [w \in 1 .. n |-> f[w]] /\ EndsFrom(next, n, f, n - k)
<1> DEFINE S == {i \in Nat : \E f : f = [w \in 1 .. n |-> f[w]] /\ EndsFrom(next, n, f, n - i)}
<1>1. 0 \in S
    <2> DEFINE f == [w \in 1 .. n |-> w]
    <2>1. f = [w \in 1 .. n |-> f[w]]
        OBVIOUS
    <2>2. EndsFrom(next, n, f, n - 0)
        BY DEF EndsFrom
    <2> QED BY <2>1, <2>2
<1>2. ASSUME NEW i \in Nat, i \in S PROVE i + 1 \in S
    <2>1. PICK f : f = [w \in 1 .. n |-> f[w]] /\ EndsFrom(next, n, f, n - i)
        BY <1>2
    <2> DEFINE g == [w \in 1 .. n |-> IF next[w] = 0 THEN w ELSE f[next[w]]]
    <2>2. ASSUME NEW w \in 1 .. n, w > n - (i + 1)
          PROVE  g[w] = IF next[w] = 0 THEN w ELSE g[next[w]]
        <3>1. CASE next[w] = 0
            BY <3>1
        <3>2. CASE next[w] # 0
            <4>1. next[w] > w /\ next[w] <= n /\ next[w] \in Nat
                BY <3>2 DEF Forward
            <4>2. next[w] \in 1 .. n /\ next[w] > n - i
                BY <2>2, <4>1
            <4>3. f[next[w]] = IF next[next[w]] = 0 THEN next[w] ELSE f[next[next[w]]]
                BY <2>1, <4>2 DEF EndsFrom
            <4>4. g[next[w]] = f[next[w]]
                BY <4>2, <4>3
            <4> QED BY <3>2, <4>4
        <3> QED BY <3>1, <3>2
    <2>3. EndsFrom(next, n, g, n - (i + 1))
        BY <2>2 DEF EndsFrom
    <2>4. g = [w \in 1 .. n |-> g[w]]
        OBVIOUS
    <2> HIDE DEF g
    <2> QED BY <2>3, <2>4
<1> HIDE DEF S
<1>3. k \in S
    BY <1>1, <1>2, Induction
<1> QED BY <1>3 DEF S

LEMMA EndUnfolds ==
    ASSUME NEW n \in Nat, NEW next, Forward(next, n), NEW w \in 1 .. n
    PROVE  EndOf(next, w) = IF next[w] = 0 THEN w ELSE EndOf(next, next[w])
<1>0. DOMAIN next = 1 .. n
    BY DEF Forward
<1> DEFINE P(f) == f = [i \in 1 .. n |-> IF next[i] = 0 THEN i ELSE f[next[i]]]
<1>1. \E f : P(f)
    <2>1. PICK f : f = [i \in 1 .. n |-> f[i]] /\ EndsFrom(next, n, f, n - n)
        BY EndsExist
    <2>2. \A i \in 1 .. n : i > n - n
        OBVIOUS
    <2>3. \A i \in 1 .. n : f[i] = IF next[i] = 0 THEN i ELSE f[next[i]]
        BY ONLY <2>1, <2>2 DEF EndsFrom
    <2> QED BY <2>1, <2>3
<1>2. P(CHOOSE f : P(f))
    BY <1>1
<1>3. ListEnds(next) = CHOOSE f : P(f)
    BY <1>0 DEF ListEnds
<1> QED BY <1>2, <1>3 DEF EndOf

(* The end of a list has no next node, and is in every set that the list    *)
(* does not leave.                                                           *)
LEMMA EndIs ==
    ASSUME NEW n \in Nat, NEW next, Forward(next, n), NEW w \in 1 .. n
    PROVE  /\ EndOf(next, w) \in w .. n /\ next[EndOf(next, w)] = 0
           /\ \A S : w \in S /\ (\A v \in S : v \in 1 .. n /\ (next[v] # 0 => next[v] \in S))
                        => EndOf(next, w) \in S
<1> DEFINE Good(v) ==
            /\ EndOf(next, v) \in v .. n /\ next[EndOf(next, v)] = 0
            /\ \A S : v \in S /\ (\A u \in S : u \in 1 .. n /\ (next[u] # 0 => next[u] \in S))
                         => EndOf(next, v) \in S
           K == {k \in Nat : \A v \in 1 .. n : v > n - k => Good(v)}
<1>1. 0 \in K
    OBVIOUS
<1>2. ASSUME NEW k \in Nat, k \in K PROVE k + 1 \in K
    <2>1. ASSUME NEW v \in 1 .. n, v > n - (k + 1) PROVE Good(v)
        <3>1. CASE next[v] = 0
            <4>1. EndOf(next, v) = v
                BY <3>1, EndUnfolds
            <4> QED BY <3>1, <4>1
        <3>2. CASE next[v] # 0
            <4>1. next[v] > v /\ next[v] <= n /\ next[v] \in Nat
                BY <3>2 DEF Forward
            <4>2. next[v] \in 1 .. n /\ next[v] > n - k
                BY <2>1, <4>1
            <4>3. Good(next[v])
                BY <1>2, <4>2
            <4>4. EndOf(next, v) = EndOf(next, next[v])
                BY <3>2, EndUnfolds
            <4>5. EndOf(next, v) \in v .. n /\ next[EndOf(next, v)] = 0
                BY <4>1, <4>3, <4>4
            <4>6. ASSUME NEW S, v \in S, \A u \in S : u \in 1 .. n /\ (next[u] # 0 => next[u] \in S)
                  PROVE  EndOf(next, v) \in S
                <5>1. next[v] \in S
                    BY <3>2, <4>6
                <5>2. EndOf(next, next[v]) \in S
                    BY <4>3, <4>6, <5>1
                <5> QED BY <4>4, <5>2
            <4> QED BY <4>5, <4>6
        <3> QED BY <3>1, <3>2
    <2> HIDE DEF Good
    <2> QED BY <2>1
<1>3. n \in K
    <2> HIDE DEF K
    <2> QED BY <1>1, <1>2, Induction
<1> QED BY <1>3

WordLists(n) ==
    [list : [0 .. 2 -> 0 .. n], next : Seq(Nat), append : SUBSET {1, 2}, ok : BOOLEAN]
Added(r, n, k, r2) ==
    /\ r2.append = r.append
    /\ \A i \in 0 .. 2 : i # k => r2.list[i] = r.list[i]
    /\ ~ r.ok => r2 = r
    /\ r.ok /\ r.list[k] = 0 => r2.ok /\ r2.list[k] = n /\ r2.next = r.next
    /\ r.ok /\ r.list[k] # 0 =>
        /\ r2.list[k] = r.list[k]
        /\ EndOf(r.next, r.list[k]) = n => ~ r2.ok /\ r2.next = r.next
        /\ EndOf(r.next, r.list[k]) # n =>
            r2.ok /\ r2.next = [r.next EXCEPT ![EndOf(r.next, r.list[k])] = n]

LEMMA AddWord ==
    ASSUME NEW n \in Nat \ {0}, NEW r \in WordLists(n), Forward(r.next, n), r.next[n] = 0,
           NEW k \in 0 .. 2
    PROVE  LET r2 == add_word_to_list(r, n, k) IN
           /\ Added(r, n, k, r2)
           /\ r2 \in WordLists(n) /\ Forward(r2.next, n) /\ r2.next[n] = 0
<1>1. PICK r2 : r2 = add_word_to_list(r, n, k)
    OBVIOUS
<1>2. /\ r.list \in [0 .. 2 -> 0 .. n] /\ r.next \in Seq(Nat) /\ r.append \in SUBSET {1, 2}
      /\ r.ok \in BOOLEAN
      /\ r = [list |-> r.list, next |-> r.next, append |-> r.append, ok |-> r.ok]
    BY DEF WordLists
<1>3. CASE ~ r.ok
    <2>1. r2 = r
        BY <1>1, <1>3 DEF add_word_to_list
    <2> QED BY <1>1, <1>3, <2>1 DEF Added
<1>4. CASE r.ok /\ r.list[k] = 0
    <2>1. r2 = [r EXCEPT !.list = [@ EXCEPT ![k] = n]]
        BY <1>1, <1>4 DEF add_word_to_list
    <2>2. /\ r2.list = [r.list EXCEPT ![k] = n] /\ r2.next = r.next /\ r2.append = r.append
          /\ r2.ok = r.ok
          /\ r2 = [list |-> r2.list, next |-> r2.next, append |-> r2.append, ok |-> r2.ok]
        BY <1>2, <2>1
    <2>3. r2.list \in [0 .. 2 -> 0 .. n] /\ r2.list[k] = n /\ \A i \in 0 .. 2 : i # k => r2.list[i] = r.list[i]
        BY <1>2, <2>2
    <2>4. r2 \in WordLists(n)
        BY <1>2, <2>2, <2>3 DEF WordLists
    <2> QED BY <1>1, <1>4, <2>2, <2>3, <2>4 DEF Added
<1>5. CASE r.ok /\ r.list[k] # 0
    <2>1. r.list[k] \in 1 .. n
        BY <1>2, <1>5
    <2>2. PICK e : e = EndOf(r.next, r.list[k])
        OBVIOUS
    <2>3. e \in 1 .. n /\ r.next[e] = 0
        BY <2>1, <2>2, EndIs
    <2>4. CASE e = n
        <3>1. r2 = [r EXCEPT !.ok = FALSE]
            BY <1>1, <1>5, <2>2, <2>4 DEF add_word_to_list
        <3>2. /\ r2.list = r.list /\ r2.next = r.next /\ r2.append = r.append /\ ~ r2.ok /\ r2.ok \in BOOLEAN
              /\ r2 = [list |-> r2.list, next |-> r2.next, append |-> r2.append, ok |-> r2.ok]
            BY <1>2, <3>1
        <3>3. r2 \in WordLists(n)
            BY <1>2, <3>2 DEF WordLists
        <3> QED BY <1>1, <1>5, <2>2, <2>4, <3>2, <3>3 DEF Added
    <2>5. CASE e # n
        <3>1. r2 = [r EXCEPT !.next = [@ EXCEPT ![e] = n]]
            BY <1>1, <1>5, <2>2, <2>5 DEF add_word_to_list
        <3>2. /\ r2.list = r.list /\ r2.next = [r.next EXCEPT ![e] = n] /\ r2.append = r.append
              /\ r2.ok = r.ok
              /\ r2 = [list |-> r2.list, next |-> r2.next, append |-> r2.append, ok |-> r2.ok]
            BY <1>2, <3>1
        <3>3. /\ r2.next \in Seq(Nat) /\ Len(r2.next) = n
              /\ \A w \in 1 .. n : r2.next[w] = IF w = e THEN n ELSE r.next[w]
            <4>1. Len(r.next) = n
                BY DEF Forward
            <4>2. r.next \in [1 .. n -> Nat]
                BY <1>2, <4>1
            <4>3. r2.next \in [1 .. n -> Nat]
                BY <3>2, <4>2
            <4> QED BY <3>2, <4>2, <4>3
        <3>4. Forward(r2.next, n) /\ r2.next[n] = 0
            <4>1. n > e /\ n <= n
                BY <2>3, <2>5
            <4>2. \A w \in 1 .. n : r2.next[w] = 0 \/ (r2.next[w] > w /\ r2.next[w] <= n)
                BY <3>3, <4>1 DEF Forward
            <4> QED BY <2>5, <3>3, <4>2 DEF Forward
        <3>5. r2 \in WordLists(n)
            BY <1>2, <3>2, <3>3 DEF WordLists
        <3> QED BY <1>1, <1>5, <2>2, <2>5, <3>2, <3>4, <3>5 DEF Added
    <2> QED BY <2>4, <2>5
<1> QED BY <1>2, <1>3, <1>4, <1>5

(* A list is the chain of a set of nodes when it starts with the least of   *)
(* them and each has the least of the greater ones after it.                *)
Chain(S, first, next) ==
    /\ first = 0 <=> S = {}
    /\ first # 0 => first \in S /\ \A v \in S : first <= v
    /\ \A w \in S : IF next[w] = 0 THEN \A v \in S : v <= w
                    ELSE next[w] \in S /\ \A v \in S : v <= w \/ next[w] <= v

LEMMA ChainEnd ==
    ASSUME NEW n \in Nat \ {0}, NEW next, Forward(next, n), NEW S \in SUBSET (1 .. n), S # {},
           NEW first, Chain(S, first, next)
    PROVE  /\ first \in S /\ EndOf(next, first) \in S /\ next[EndOf(next, first)] = 0
           /\ \A v \in S : v <= EndOf(next, first)
<1>1. first \in S /\ first \in 1 .. n
    BY DEF Chain
<1>2. \A v \in S : v \in 1 .. n /\ (next[v] # 0 => next[v] \in S)
    BY DEF Chain
<1>3. EndOf(next, first) \in S /\ next[EndOf(next, first)] = 0
    BY <1>1, <1>2, EndIs
<1> QED BY <1>1, <1>3 DEF Chain

(* A greater node behind the last one.                                      *)
LEMMA ChainGrows ==
    ASSUME NEW n \in Nat \ {0}, NEW next, NEW S \in SUBSET (1 .. n), n \notin S, NEW first,
           Chain(S, first, next), NEW e \in S, next[e] = 0,
           NEW next2, \A w \in S : w # e => next2[w] = next[w], next2[e] = n, next2[n] = 0
    PROVE  Chain(S \cup {n}, first, next2)
<1>0. \A v \in S : v \in Nat /\ v < n /\ v # n
    OBVIOUS
<1>1. first \in S /\ \A v \in S : first <= v
    BY DEF Chain
<1>2. \A v \in S : v <= e
    BY DEF Chain
<1>3. first # 0 /\ first \in S \cup {n} /\ \A v \in S \cup {n} : first <= v
    BY <1>0, <1>1
<1>4. ASSUME NEW w \in S \cup {n}
      PROVE  IF next2[w] = 0 THEN \A v \in S \cup {n} : v <= w
             ELSE next2[w] \in S \cup {n} /\ \A v \in S \cup {n} : v <= w \/ next2[w] <= v
    <2>1. CASE w = n
        BY <1>0, <2>1
    <2>2. CASE w = e
        BY <1>0, <1>2, <2>2
    <2>3. CASE w \in S /\ w # e
        <3>1. next2[w] = next[w]
            BY <2>3
        <3>2. next[w] # 0
            <4>1. SUFFICES ASSUME next[w] = 0 PROVE FALSE
                OBVIOUS
            <4>2. e <= w /\ w <= e
                BY <1>2, <2>3, <4>1 DEF Chain
            <4> QED BY <1>0, <2>3, <4>2
        <3>3. next[w] \in S /\ \A v \in S : v <= w \/ next[w] <= v
            BY <2>3, <3>2 DEF Chain
        <3>4. next[w] <= n
            <4>1. PICK x : x = next[w]
                OBVIOUS
            <4>2. x \in S
                BY <3>3, <4>1
            <4>3. x \in Nat /\ x < n
                BY <1>0, <4>2
            <4> QED BY <4>1, <4>3
        <3>5. next2[w] # 0 /\ next2[w] \in S \cup {n}
            BY <3>1, <3>2, <3>3
        <3>6. \A v \in S \cup {n} : v <= w \/ next2[w] <= v
            BY ONLY <3>1, <3>3, <3>4
        <3> QED BY ONLY <3>5, <3>6
    <2> QED BY <2>1, <2>2, <2>3
<1> QED BY <1>3, <1>4 DEF Chain

(* The three lists, of which two may share their ends.                      *)
Linking(r, n, S) ==
    /\ n \in Nat \ {0} /\ r \in WordLists(n) /\ Forward(r.next, n) /\ r.next[n] = 0 /\ r.ok
    /\ \A i \in 0 .. 2 : S[i] \in SUBSET (1 .. n) /\ Chain(S[i], r.list[i], r.next)
SameEnd(S, T) == S \cap T # {} => \E e \in S \cap T : \A v \in S \cup T : v <= e

(* A new node at the end of a list is at the end of those that share it.    *)
AddsLink(r, n, S, k, r2) ==
    /\ Linking(r, n, S) /\ k \in 0 .. 2 /\ n \notin S[k] /\ Added(r, n, k, r2)
    /\ \A i \in 0 .. 2 : SameEnd(S[i], S[k]) /\ (S[i] \cap S[k] # {} => n \notin S[i])
Linked2(r2, n, S, k) ==
    /\ r2.ok
    /\ \A i \in 0 .. 2 : Chain(IF i = k \/ S[i] \cap S[k] # {} THEN S[i] \cup {n} ELSE S[i],
                               r2.list[i], r2.next)

LEMMA AddLink ==
    ASSUME NEW r, NEW n, NEW S, NEW k, NEW r2, AddsLink(r, n, S, k, r2)
    PROVE  Linked2(r2, n, S, k)
<1> USE DEF AddsLink, Linking
<1>0. /\ \A v \in S[k] : v \in Nat /\ v < n
      /\ DOMAIN r.next = 1 .. n
    BY DEF Forward
<1>1. CASE S[k] = {}
    <2>1. r.list[k] = 0
        BY <1>1 DEF Chain
    <2>2. r2.ok /\ r2.list[k] = n /\ r2.next = r.next
        BY <2>1 DEF Added
    <2>3. Chain(S[k] \cup {n}, r2.list[k], r2.next)
        BY <1>1, <2>2 DEF Chain
    <2>4. \A i \in 0 .. 2 : i # k => Chain(S[i], r2.list[i], r2.next) /\ S[i] \cap S[k] = {}
        BY <1>1, <2>2 DEF Added
    <2> QED BY <2>2, <2>3, <2>4 DEF Linked2
<1>2. CASE S[k] # {}
    <2>1. PICK e : e = EndOf(r.next, r.list[k])
        OBVIOUS
    <2>2. /\ r.list[k] \in S[k] /\ e \in S[k] /\ r.next[e] = 0
          /\ \A v \in S[k] : v <= e
        BY <1>2, <2>1, ChainEnd
    <2>3. e \in 1 .. n /\ e # n /\ r.list[k] # 0
        BY <1>0, <2>2
    <2>4. r2.ok /\ r2.list[k] = r.list[k] /\ r2.next = [r.next EXCEPT ![e] = n]
        BY <2>1, <2>3 DEF Added
    <2>5. \A w \in 1 .. n : r2.next[w] = IF w = e THEN n ELSE r.next[w]
        BY <1>0, <2>4
    <2>6. n \in 1 .. n /\ r2.next[n] = 0 /\ r2.next[e] = n
        BY <2>3, <2>5
    <2>7. \A i \in 0 .. 2 : r2.list[i] = r.list[i]
        BY <2>4 DEF Added
    <2>8. ASSUME NEW i \in 0 .. 2, n \notin S[i], e \in S[i]
          PROVE  Chain(S[i] \cup {n}, r2.list[i], r2.next)
        <3>1. \A w \in S[i] : w # e => r2.next[w] = r.next[w]
            BY <2>5
        <3>2. Chain(S[i], r.list[i], r.next) /\ S[i] \in SUBSET (1 .. n)
            OBVIOUS
        <3>3. Chain(S[i] \cup {n}, r.list[i], r2.next)
            BY <2>2, <2>6, <2>8, <3>1, <3>2, ChainGrows
        <3> QED BY <2>7, <3>3
    <2>9. ASSUME NEW i \in 0 .. 2, S[i] \cap S[k] # {} PROVE e \in S[i]
        <3>1. PICK d \in S[i] \cap S[k] : \A v \in S[i] \cup S[k] : v <= d
            BY <2>9 DEF SameEnd
        <3>2. d <= e /\ e <= d
            BY <2>2, <3>1
        <3>3. d \in Nat /\ e \in Nat
            BY <1>0, <2>2, <3>1
        <3> QED BY <3>1, <3>2, <3>3
    <2>10. ASSUME NEW i \in 0 .. 2, S[i] \cap S[k] = {} PROVE Chain(S[i], r2.list[i], r2.next)
        <3>1. \A w \in S[i] : r2.next[w] = r.next[w]
            BY <2>2, <2>5, <2>10
        <3>2. Chain(S[i], r.list[i], r.next)
            OBVIOUS
        <3> QED BY <2>7, <3>1, <3>2 DEF Chain
    <2>11. S[k] \cap S[k] # {}
        BY <1>2
    <2> QED BY <2>2, <2>4, <2>8, <2>9, <2>10, <2>11 DEF Linked2
<1> QED BY <1>1, <1>2

(* A node that a list ends with already is refused.                         *)
LEMMA AddAgain ==
    ASSUME NEW r, NEW n, NEW S, Linking(r, n, S), NEW k \in 0 .. 2, n \in S[k],
           NEW r2, Added(r, n, k, r2)
    PROVE  ~ r2.ok
<1> USE DEF Linking
<1>1. PICK e : e = EndOf(r.next, r.list[k])
    OBVIOUS
<1>2. r.list[k] \in S[k] /\ e \in S[k] /\ n <= e
    BY <1>1, ChainEnd
<1>3. e = n /\ r.list[k] # 0
    <2>1. \A v \in S[k] : v \in 1 .. n
        OBVIOUS
    <2> QED BY <1>2, <2>1
<1> QED BY <1>1, <1>3 DEF Added

(* The nodes of the list of a descriptor, among the first j redirections:   *)
(* those that redirect it and, behind an "&>", those of the other output.   *)
KindsOf(k) ==
    IF k = 0 THEN {"<"} ELSE IF k = 1 THEN {">", ">>", "&>"} ELSE {"2>", "2>>", "&>"}
HasBoth(red, j) == \E i \in 1 .. j : red[i][1] = "&>"
LinkedTo(red, k, w) ==
    red[w][1] \in KindsOf(k) \/ (k # 0 /\ red[w][1] # "<" /\ HasBoth(red, w - 1))
Linked(red, k, j) == {w \in 1 .. j : LinkedTo(red, k, w)}
Appends(k, kind) == (k = 1 /\ kind = ">>") \/ (k = 2 /\ kind = "2>>")
WordsInv(red, j, r) ==
    /\ r \in WordLists(j) /\ Forward(r.next, j)
    /\ \A k \in {1, 2} : k \in r.append <=> \E w \in 1 .. j : Appends(k, red[w][1])
    /\ r.ok => \A k \in 0 .. 2 : Chain(Linked(red, k, j), r.list[k], r.next)

LEMMA LinkedFacts ==
    ASSUME NEW red, NEW j \in Nat
    PROVE  /\ \A k : Linked(red, k, j) \in SUBSET (1 .. j)
           /\ \A k : Linked(red, k, j + 1) =
                IF LinkedTo(red, k, j + 1) THEN Linked(red, k, j) \cup {j + 1} ELSE Linked(red, k, j)
           /\ \A k \in {1, 2} : Linked(red, 0, j) \cap Linked(red, k, j) = {}
           /\ Linked(red, 1, j) \cap Linked(red, 2, j) # {} <=> HasBoth(red, j)
           /\ SameEnd(Linked(red, 1, j), Linked(red, 2, j))
<1>1. \A w : w \in 1 .. j + 1 <=> w \in 1 .. j \/ w = j + 1
    OBVIOUS
<1>2. \A k : Linked(red, k, j + 1) =
        IF LinkedTo(red, k, j + 1) THEN Linked(red, k, j) \cup {j + 1} ELSE Linked(red, k, j)
    BY <1>1 DEF Linked
<1>3. \A w \in Linked(red, 0, j) : red[w][1] = "<"
    BY DEF Linked, LinkedTo, KindsOf
<1>4. \A k \in {1, 2} : \A w \in Linked(red, k, j) : red[w][1] # "<"
    BY DEF Linked, LinkedTo, KindsOf
<1>5. Linked(red, 1, j) \cap Linked(red, 2, j) # {} => HasBoth(red, j)
    <2>1. ASSUME NEW w \in Linked(red, 1, j) \cap Linked(red, 2, j) PROVE HasBoth(red, j)
        <3>1. w \in 1 .. j /\ LinkedTo(red, 1, w) /\ LinkedTo(red, 2, w)
            BY DEF Linked
        <3>2. red[w][1] = "&>" \/ HasBoth(red, w - 1)
            BY <3>1 DEF LinkedTo, KindsOf
        <3>3. \A i \in 1 .. w - 1 : i \in 1 .. j
            BY <3>1
        <3> QED BY <3>1, <3>2, <3>3 DEF HasBoth
    <2> QED BY <2>1
<1>6. ASSUME HasBoth(red, j)
      PROVE  \E e \in Linked(red, 1, j) \cap Linked(red, 2, j) :
                \A v \in Linked(red, 1, j) \cup Linked(red, 2, j) : v <= e
    <2> DEFINE S == {w \in 1 .. j : red[w][1] # "<"}
    <2>1. PICK b \in 1 .. j : red[b][1] = "&>"
        BY <1>6 DEF HasBoth
    <2>2. S \in SUBSET (0 .. j) /\ b \in S /\ S # {}
        BY <2>1
    <2>3. PICK e \in S : \A v \in S : v <= e
        <3> HIDE DEF S
        <3> QED BY <2>2, GreatestNatural
    <2>4. e \in 1 .. j /\ red[e][1] # "<" /\ b <= e
        BY <2>2, <2>3
    <2>5. red[e][1] = "&>" \/ HasBoth(red, e - 1)
        <3>1. CASE b = e
            BY <2>1, <3>1
        <3>2. CASE b # e
            <4>1. b \in 1 .. e - 1
                BY <2>4, <3>2
            <4> QED BY <2>1, <4>1 DEF HasBoth
        <3> QED BY <3>1, <3>2
    <2>6. e \in Linked(red, 1, j) /\ e \in Linked(red, 2, j)
        BY <2>4, <2>5 DEF Linked, LinkedTo, KindsOf
    <2>7. Linked(red, 1, j) \cup Linked(red, 2, j) \subseteq S
        BY <1>4 DEF Linked
    <2> QED BY <2>3, <2>6, <2>7
<1>7. SameEnd(Linked(red, 1, j), Linked(red, 2, j))
    BY <1>5, <1>6 DEF SameEnd
<1>8. \A k : Linked(red, k, j) \in SUBSET (1 .. j)
    BY DEF Linked
<1> QED BY <1>2, <1>3, <1>4, <1>5, <1>6, <1>7, <1>8

(* Without an "&>" before other outputs, each list has its own kinds.       *)
NodesOf(red, k, j) == {w \in 1 .. j : red[w][1] \in KindsOf(k)}
SharesBy(red, j) ==
    \E i \in 1 .. j : \E w \in 1 .. j : i < w /\ red[i][1] = "&>" /\ red[w][1] # "<"
LEMMA LinkedNodes ==
    ASSUME NEW red, NEW j \in Nat, NEW k \in 0 .. 2
    PROVE  /\ Linked(red, k, j) = {} <=> NodesOf(red, k, j) = {}
           /\ ~ SharesBy(red, j) => Linked(red, k, j) = NodesOf(red, k, j)
<1>1. NodesOf(red, k, j) \subseteq Linked(red, k, j)
    BY DEF NodesOf, Linked, LinkedTo
<1>2. ASSUME NEW w \in Linked(red, k, j), w \notin NodesOf(red, k, j)
      PROVE  NodesOf(red, k, j) # {} /\ SharesBy(red, j)
    <2>1. w \in 1 .. j /\ k # 0 /\ red[w][1] # "<" /\ HasBoth(red, w - 1)
        BY <1>2 DEF Linked, LinkedTo, NodesOf
    <2>2. PICK i \in 1 .. w - 1 : red[i][1] = "&>"
        BY <2>1 DEF HasBoth
    <2>3. i \in 1 .. j /\ i < w /\ red[i][1] \in KindsOf(k)
        BY <2>1, <2>2 DEF KindsOf
    <2> QED BY <2>1, <2>2, <2>3 DEF NodesOf, SharesBy
<1> QED BY <1>1, <1>2

(* A new node, in no list yet.                                              *)
Noded(r, j, more, n) ==
    /\ n \in WordLists(j + 1) /\ Forward(n.next, j + 1) /\ n.next[j + 1] = 0
    /\ n.list = r.list /\ n.ok = r.ok /\ n.append = r.append \cup more
    /\ \A w \in 1 .. j : n.next[w] = r.next[w]

LEMMA NewNode ==
    ASSUME NEW j \in Nat, NEW r \in WordLists(j), Forward(r.next, j),
           NEW more \in SUBSET {1, 2},
           NEW n, n = [r EXCEPT !.next = Append(@, 0), !.append = @ \cup more]
    PROVE  Noded(r, j, more, n)
<1>1. n = [r EXCEPT !.next = Append(@, 0), !.append = @ \cup more]
    OBVIOUS
<1>2. /\ r.list \in [0 .. 2 -> 0 .. j] /\ r.next \in Seq(Nat) /\ r.append \in SUBSET {1, 2}
      /\ r.ok \in BOOLEAN
      /\ r = [list |-> r.list, next |-> r.next, append |-> r.append, ok |-> r.ok]
    BY DEF WordLists
<1>3. /\ n.list = r.list /\ n.next = Append(r.next, 0) /\ n.append = r.append \cup more
      /\ n.ok = r.ok
      /\ n = [list |-> n.list, next |-> n.next, append |-> n.append, ok |-> n.ok]
    BY <1>1, <1>2
<1>4. /\ n.next \in Seq(Nat) /\ Len(n.next) = Len(r.next) + 1
      /\ \A w \in 1 .. Len(r.next) : n.next[w] = r.next[w]
      /\ n.next[Len(r.next) + 1] = 0
    BY <1>2, <1>3, AppendProperties
<1>5. Len(r.next) = j /\ \A w \in 1 .. j : r.next[w] = 0 \/ (r.next[w] > w /\ r.next[w] <= j)
    BY DEF Forward
<1>6. Forward(n.next, j + 1)
    <2>1. ASSUME NEW w \in 1 .. j + 1
          PROVE  n.next[w] = 0 \/ (n.next[w] > w /\ n.next[w] <= j + 1)
        <3>1. CASE w = j + 1
            BY <1>4, <1>5, <3>1
        <3>2. CASE w # j + 1
            <4>1. w \in 1 .. j
                BY <3>2
            <4>2. r.next[w] \in Nat
                BY <1>2, <1>5, <4>1
            <4> QED BY <1>4, <1>5, <4>1, <4>2
        <3> QED BY <3>1, <3>2
    <2> QED BY <1>4, <1>5, <2>1 DEF Forward
<1>7. n.list \in [0 .. 2 -> 0 .. j + 1]
    BY <1>2, <1>3
<1>8. n \in WordLists(j + 1)
    BY <1>2, <1>3, <1>4, <1>7 DEF WordLists
<1> QED BY <1>1, <1>3, <1>4, <1>5, <1>6, <1>8 DEF Noded

(* While the new node is being added: which lists have it.                  *)
BeforeNode(red, j, m) ==
    /\ m \in WordLists(j + 1) /\ Forward(m.next, j + 1) /\ m.next[j + 1] = 0
    /\ m.ok => \A k \in 0 .. 2 : Chain(Linked(red, k, j), m.list[k], m.next)
AfterNode(red, j, m) ==
    /\ m \in WordLists(j + 1) /\ Forward(m.next, j + 1)
    /\ m.ok => \A k \in 0 .. 2 : Chain(Linked(red, k, j + 1), m.list[k], m.next)

LEMMA AddOne ==
    ASSUME NEW red, NEW j \in Nat, red[j + 1][1] \in Kinds, red[j + 1][1] # "&>",
           NEW m, BeforeNode(red, j, m), NEW k, k = Descriptor(red[j + 1][1]),
           NEW r2, r2 = add_word_to_list(m, j + 1, k)
    PROVE  AfterNode(red, j, r2) /\ r2.append = m.append
<1>0. PICK n, S : n = j + 1 /\ S = [i \in 0 .. 2 |-> Linked(red, i, j)]
    OBVIOUS
<1>1. n \in Nat \ {0} /\ n - 1 = j /\ \A v \in 1 .. j : v \in 1 .. n /\ v # n
    BY <1>0
<1>2. k \in 0 .. 2 /\ red[n][1] \in KindsOf(k) /\ \A i \in 0 .. 2 : red[n][1] \in KindsOf(i) <=> i = k
    BY <1>0 DEF Descriptor, KindsOf, Kinds
<1>3. k = 0 <=> red[n][1] = "<"
    BY <1>0 DEF Descriptor, Kinds
<1>4. Added(m, n, k, r2) /\ r2 \in WordLists(n) /\ Forward(r2.next, n)
    BY <1>0, <1>1, <1>2, AddWord DEF BeforeNode
<1>5. ASSUME r2.ok PROVE \A i \in 0 .. 2 : Chain(Linked(red, i, n), r2.list[i], r2.next)
    <2>1. m.ok
        BY <1>4, <1>5 DEF Added
    <2>2. \A i \in 0 .. 2 : S[i] = Linked(red, i, j) /\ S[i] \in SUBSET (1 .. j)
        BY <1>0, LinkedFacts
    <2>3. \A i \in 0 .. 2 : S[i] \in SUBSET (1 .. n) /\ n \notin S[i] /\ Chain(S[i], m.list[i], m.next)
        BY <1>1, <2>1, <2>2 DEF BeforeNode
    <2>4. Linking(m, n, S)
        BY <1>0, <1>1, <2>1, <2>3 DEF Linking, BeforeNode
    <2>5. \A i \in 0 .. 2 : i = k \/ (S[i] \cap S[k] # {} <=> i # 0 /\ k # 0 /\ HasBoth(red, j))
        <3>1. \A i \in 0 .. 2 : i = 0 \/ i = 1 \/ i = 2
            OBVIOUS
        <3>2. /\ S[0] \cap S[1] = {} /\ S[1] \cap S[0] = {} /\ S[0] \cap S[2] = {} /\ S[2] \cap S[0] = {}
              /\ S[1] \cap S[2] # {} <=> HasBoth(red, j)
              /\ S[2] \cap S[1] # {} <=> HasBoth(red, j)
            BY <2>2, LinkedFacts
        <3> QED BY <1>2, <3>1, <3>2
    <2>6. \A i \in 0 .. 2 : SameEnd(S[i], S[k])
        <3>1. SameEnd(S[1], S[2])
            BY <2>2, LinkedFacts
        <3>2. SameEnd(S[2], S[1])
            BY <3>1 DEF SameEnd
        <3>3. SameEnd(S[k], S[k])
            <4>1. SUFFICES ASSUME S[k] # {} PROVE \E e \in S[k] : \A v \in S[k] : v <= e
                BY DEF SameEnd
            <4>2. S[k] \in SUBSET (0 .. n)
                BY <1>2, <2>3
            <4> QED BY <1>1, <4>1, <4>2, GreatestNatural
        <3>4. \A i \in 0 .. 2 : i = 0 \/ i = 1 \/ i = 2
            OBVIOUS
        <3> QED BY <1>2, <2>5, <3>1, <3>2, <3>3, <3>4 DEF SameEnd
    <2>7. AddsLink(m, n, S, k, r2)
        BY <1>2, <1>4, <2>3, <2>4, <2>6 DEF AddsLink
    <2>8. Linked2(r2, n, S, k)
        BY <2>7, AddLink
    <2>9. ASSUME NEW i \in 0 .. 2
          PROVE  Linked(red, i, n) = IF i = k \/ S[i] \cap S[k] # {} THEN S[i] \cup {n} ELSE S[i]
        <3>1. LinkedTo(red, i, n) <=> i = k \/ (i # 0 /\ k # 0 /\ HasBoth(red, j))
            BY <1>1, <1>2, <1>3 DEF LinkedTo
        <3>2. Linked(red, i, n) = IF LinkedTo(red, i, n) THEN S[i] \cup {n} ELSE S[i]
            BY <1>0, <2>2, LinkedFacts
        <3> QED BY <2>5, <3>1, <3>2
    <2> QED BY <2>8, <2>9 DEF Linked2
<1> QED BY <1>0, <1>4, <1>5 DEF AfterNode, Added

LEMMA AddBoth ==
    ASSUME NEW red, NEW j \in Nat, red[j + 1][1] = "&>", NEW m, BeforeNode(red, j, m),
           NEW m1, m1 = add_word_to_list(m, j + 1, 1),
           NEW r2, r2 = add_word_to_list(m1, j + 1, 2)
    PROVE  AfterNode(red, j, r2) /\ r2.append = m.append
<1>0. PICK n, S, S1 : /\ n = j + 1 /\ S = [i \in 0 .. 2 |-> Linked(red, i, j)]
                      /\ S1 = [i \in 0 .. 2 |-> IF i = 1 \/ S[i] \cap S[1] # {} THEN S[i] \cup {n} ELSE S[i]]
    OBVIOUS
<1>1. n \in Nat \ {0} /\ n - 1 = j /\ \A v \in 1 .. j : v \in 1 .. n /\ v # n
    BY <1>0
<1>2. /\ Added(m, n, 1, m1) /\ m1 \in WordLists(n) /\ Forward(m1.next, n) /\ m1.next[n] = 0
      /\ Added(m1, n, 2, r2) /\ r2 \in WordLists(n) /\ Forward(r2.next, n)
    <2>1. Added(m, n, 1, m1) /\ m1 \in WordLists(n) /\ Forward(m1.next, n) /\ m1.next[n] = 0
        BY <1>0, <1>1, AddWord DEF BeforeNode
    <2> QED BY <1>0, <1>1, <2>1, AddWord
<1>3. ASSUME r2.ok PROVE \A i \in 0 .. 2 : Chain(Linked(red, i, n), r2.list[i], r2.next)
    <2>1. m.ok /\ m1.ok
        BY <1>2, <1>3 DEF Added
    <2>2. \A i \in 0 .. 2 : S[i] = Linked(red, i, j) /\ S[i] \in SUBSET (1 .. j)
        BY <1>0, LinkedFacts
    <2>3. \A i \in 0 .. 2 : S[i] \in SUBSET (1 .. n) /\ n \notin S[i] /\ Chain(S[i], m.list[i], m.next)
        BY <1>1, <2>1, <2>2 DEF BeforeNode
    <2>4. Linking(m, n, S)
        BY <1>0, <1>1, <2>1, <2>3 DEF Linking, BeforeNode
    <2>5. /\ S[0] \cap S[1] = {} /\ S[0] \cap S[2] = {} /\ SameEnd(S[1], S[2])
          /\ S[1] \cap S[2] # {} <=> HasBoth(red, j)
        BY <2>2, LinkedFacts
    <2>6. \A i \in 0 .. 2 : SameEnd(S[i], S[1])
        <3>1. SameEnd(S[1], S[1])
            <4>1. SUFFICES ASSUME S[1] # {} PROVE \E e \in S[1] : \A v \in S[1] : v <= e
                BY DEF SameEnd
            <4>2. S[1] \in SUBSET (0 .. n)
                BY <2>3
            <4> QED BY <1>1, <4>1, <4>2, GreatestNatural
        <3>2. \A i \in 0 .. 2 : i = 0 \/ i = 1 \/ i = 2
            OBVIOUS
        <3> QED BY <2>5, <3>1, <3>2 DEF SameEnd
    <2>7. Linked2(m1, n, S, 1)
        <3>1. AddsLink(m, n, S, 1, m1)
            BY <1>2, <2>3, <2>4, <2>6 DEF AddsLink
        <3> QED BY <3>1, AddLink
    <2>8. /\ S1[0] = S[0] /\ S1[1] = S[1] \cup {n}
          /\ S1[2] = IF HasBoth(red, j) THEN S[2] \cup {n} ELSE S[2]
        BY <1>0, <2>5
    <2>9. Linking(m1, n, S1)
        <3>1. \A i \in 0 .. 2 : Chain(S1[i], m1.list[i], m1.next)
            BY <1>0, <2>7 DEF Linked2
        <3>2. \A i \in 0 .. 2 : S1[i] \in SUBSET (1 .. n)
            BY <1>0, <1>1, <2>3
        <3> QED BY <1>1, <1>2, <2>1, <3>1, <3>2 DEF Linking
    <2>10. ~ HasBoth(red, j)
        <3>1. SUFFICES ASSUME HasBoth(red, j) PROVE FALSE
            OBVIOUS
        <3>2. n \in S1[2]
            BY <2>8, <3>1
        <3> QED BY <1>2, <1>3, <2>9, <3>2, AddAgain
    <2>11. S1[2] = S[2] /\ n \notin S1[2] /\ S1[1] \cap S1[2] = {} /\ S1[0] \cap S1[2] = {}
        BY <2>3, <2>5, <2>8, <2>10
    <2>12. \A i \in 0 .. 2 : SameEnd(S1[i], S1[2])
        <3>1. SameEnd(S1[2], S1[2])
            <4>1. SUFFICES ASSUME S1[2] # {} PROVE \E e \in S1[2] : \A v \in S1[2] : v <= e
                BY DEF SameEnd
            <4>2. S1[2] \in SUBSET (0 .. n)
                BY <2>3, <2>11
            <4> QED BY <1>1, <4>1, <4>2, GreatestNatural
        <3>2. \A i \in 0 .. 2 : i = 0 \/ i = 1 \/ i = 2
            OBVIOUS
        <3> QED BY <2>11, <3>1, <3>2 DEF SameEnd
    <2>13. Linked2(r2, n, S1, 2)
        <3>1. \A i \in 0 .. 2 : S1[i] \cap S1[2] # {} => i = 2
            <4>1. \A i \in 0 .. 2 : i = 0 \/ i = 1 \/ i = 2
                OBVIOUS
            <4> QED BY <2>11, <4>1
        <3>2. AddsLink(m1, n, S1, 2, r2)
            BY <1>2, <2>9, <2>11, <2>12, <3>1 DEF AddsLink
        <3> QED BY <3>2, AddLink
    <2>14. ASSUME NEW i \in 0 .. 2
           PROVE  Linked(red, i, n) = IF i = 2 \/ S1[i] \cap S1[2] # {} THEN S1[i] \cup {n} ELSE S1[i]
        <3>1. LinkedTo(red, i, n) <=> i # 0
            <4>1. i = 0 \/ i = 1 \/ i = 2
                OBVIOUS
            <4> QED BY <1>0, <4>1 DEF LinkedTo, KindsOf
        <3>2. Linked(red, i, n) = IF LinkedTo(red, i, n) THEN S[i] \cup {n} ELSE S[i]
            BY <1>0, <2>2, LinkedFacts
        <3>3. i = 0 \/ i = 1 \/ i = 2
            OBVIOUS
        <3> QED BY <2>8, <2>10, <2>11, <3>1, <3>2, <3>3
    <2> QED BY <2>13, <2>14 DEF Linked2
<1> QED BY <1>0, <1>2, <1>3 DEF AfterNode, Added

LEMMA RedirectStep ==
    ASSUME NEW red, NEW j \in Nat, red[j + 1][1] \in Kinds, NEW r, WordsInv(red, j, r)
    PROVE  WordsInv(red, j + 1, redirect_step(r, red[j + 1][1]))
<1>1. PICK kind : kind = red[j + 1][1]
    OBVIOUS
<1>2. PICK r3 : r3 = redirect_step(r, kind)
    OBVIOUS
<1>3. r \in WordLists(j) /\ Forward(r.next, j) /\ Len(r.next) = j
    BY DEF WordsInv, Forward
<1>4. \A k \in {1, 2} : k \in r.append <=> \E w \in 1 .. j : Appends(k, red[w][1])
    BY DEF WordsInv
<1> DEFINE more == IF kind \in {">>", "2>>"} THEN {Descriptor(kind)} ELSE {}
<1>5. /\ more \in SUBSET {1, 2}
      /\ \A k \in {1, 2} : k \in more <=> Appends(k, kind)
      /\ kind = "&>" => more = {}
    <2>1. CASE kind = ">>"
        <3>1. Descriptor(kind) = 1
            BY <2>1 DEF Descriptor
        <3>2. more = {1}
            BY <2>1, <3>1
        <3>3. \A k \in {1, 2} : Appends(k, kind) <=> k = 1
            BY <2>1 DEF Appends
        <3>4. kind # "&>"
            BY <2>1
        <3> HIDE DEF more
        <3> QED BY <3>2, <3>3, <3>4
    <2>2. CASE kind = "2>>"
        BY <2>2 DEF Descriptor, Appends
    <2>3. CASE kind \notin {">>", "2>>"}
        BY <2>3 DEF Appends
    <2> QED BY <2>1, <2>2, <2>3
<1>6. PICK m : m = [r EXCEPT !.next = Append(@, 0), !.append = @ \cup more]
    OBVIOUS
<1> HIDE DEF more
<1>7. /\ m \in WordLists(j + 1) /\ Forward(m.next, j + 1) /\ m.next[j + 1] = 0
      /\ m.list = r.list /\ m.ok = r.ok /\ m.append = r.append \cup more
      /\ \A w \in 1 .. j : m.next[w] = r.next[w]
    <2>1. Noded(r, j, more, m)
        BY ONLY j \in Nat, <1>3, <1>5, <1>6, NewNode
    <2> QED BY ONLY <2>1 DEF Noded
<1>8. BeforeNode(red, j, m)
    <2>1. ASSUME m.ok, NEW k \in 0 .. 2 PROVE Chain(Linked(red, k, j), m.list[k], m.next)
        <3>1. PICK S : S = Linked(red, k, j)
            OBVIOUS
        <3>2. Chain(S, r.list[k], r.next)
            BY <1>7, <2>1, <3>1 DEF WordsInv
        <3>3. \A w \in S : m.next[w] = r.next[w]
            BY <1>7, <3>1 DEF Linked
        <3>4. Chain(S, m.list[k], m.next)
            BY <1>7, <3>2, <3>3 DEF Chain
        <3> QED BY <3>1, <3>4
    <2> QED BY <1>7, <2>1 DEF BeforeNode
<1>9. AfterNode(red, j, r3) /\ r3.append = m.append
    <2>1. CASE kind = "&>"
        <3>1. m = [r EXCEPT !.next = Append(@, 0)]
            BY <1>3, <1>5, <1>6, <2>1 DEF WordLists
        <3>2. PICK m1 : m1 = add_word_to_list(m, j + 1, 1)
            OBVIOUS
        <3>3. r3 = add_word_to_list(m1, j + 1, 2)
            BY <1>2, <1>3, <2>1, <3>1, <3>2 DEF redirect_step
        <3>4. red[j + 1][1] = "&>"
            BY <1>1, <2>1
        <3> QED BY ONLY j \in Nat, <1>8, <3>2, <3>3, <3>4, AddBoth
    <2>2. CASE kind # "&>"
        <3>1. PICK k : k = Descriptor(kind)
            OBVIOUS
        <3>2. r3 = add_word_to_list(m, j + 1, k)
            <4>1. m = [[r EXCEPT !.next = Append(@, 0)] EXCEPT
                            !.append = IF kind \in {">>", "2>>"} THEN @ \cup {k} ELSE @]
                <5>1. r = [list |-> r.list, next |-> r.next, append |-> r.append, ok |-> r.ok]
                    BY <1>3 DEF WordLists
                <5>2. more = IF kind \in {">>", "2>>"} THEN {k} ELSE {}
                    BY <3>1 DEF more
                <5> QED BY <1>6, <5>1, <5>2
            <4> QED BY <1>2, <1>3, <2>2, <3>1, <4>1 DEF redirect_step
        <3>3. red[j + 1][1] # "&>" /\ k = Descriptor(red[j + 1][1]) /\ red[j + 1][1] \in Kinds
            BY <1>1, <2>2, <3>1
        <3> QED BY ONLY j \in Nat, <1>8, <3>2, <3>3, AddOne
    <2> QED BY <2>1, <2>2
<1>10. \A k \in {1, 2} : k \in r3.append <=> \E w \in 1 .. j + 1 : Appends(k, red[w][1])
    <2>1. \A w : w \in 1 .. j + 1 <=> w \in 1 .. j \/ w = j + 1
        OBVIOUS
    <2> QED BY <1>1, <1>4, <1>5, <1>7, <1>9, <2>1
<1> QED BY <1>1, <1>2, <1>9, <1>10 DEF WordsInv, AfterNode

(* The function redirects, unfolded.                                        *)
RedirectsTo(red, f, k) ==
    f = [i \in 0 .. k |-> IF i = 0 THEN NoWords ELSE redirect_step(f[i - 1], red[i][1])]

LEMMA RedirectsExist ==
    ASSUME NEW red, NEW n \in Nat
    PROVE  \E f : RedirectsTo(red, f, n)
<1> DEFINE S == {k \in Nat : \E f : RedirectsTo(red, f, k)}
<1>1. 0 \in S
    <2>1. RedirectsTo(red, [i \in 0 .. 0 |-> NoWords], 0)
        BY DEF RedirectsTo
    <2> QED BY <2>1
<1>2. ASSUME NEW k \in Nat, k \in S PROVE k + 1 \in S
    <2>1. PICK f : RedirectsTo(red, f, k)
        BY <1>2
    <2> DEFINE g == [i \in 0 .. k + 1 |->
                        IF i = k + 1 THEN redirect_step(f[k], red[k + 1][1]) ELSE f[i]]
    <2>2. \A i \in 0 .. k : /\ g[i] = f[i]
                           /\ f[i] = IF i = 0 THEN NoWords ELSE redirect_step(f[i - 1], red[i][1])
        <3>1. \A i \in 0 .. k : i \in 0 .. k + 1 /\ i # k + 1
            OBVIOUS
        <3>2. \A i \in 0 .. k : f[i] = IF i = 0 THEN NoWords ELSE redirect_step(f[i - 1], red[i][1])
            BY <2>1 DEF RedirectsTo
        <3> QED BY <3>1, <3>2
    <2>3. g[k + 1] = redirect_step(f[k], red[k + 1][1])
        OBVIOUS
    <2>4. ASSUME NEW i \in 0 .. k + 1
          PROVE  g[i] = IF i = 0 THEN NoWords ELSE redirect_step(g[i - 1], red[i][1])
        <3> HIDE DEF g
        <3>1. CASE i = k + 1
            <4>1. i # 0 /\ i - 1 = k /\ k \in 0 .. k
                BY <3>1
            <4> QED BY <2>2, <2>3, <3>1, <4>1
        <3>2. CASE i # k + 1
            <4>1. i \in 0 .. k /\ (i # 0 => i - 1 \in 0 .. k)
                BY <3>2
            <4> QED BY <2>2, <4>1
        <3> QED BY <3>1, <3>2
    <2>5. g = [i \in 0 .. k + 1 |-> g[i]]
        OBVIOUS
    <2>6. RedirectsTo(red, g, k + 1)
        <3> HIDE DEF g
        <3> QED BY <2>4, <2>5 DEF RedirectsTo
    <2> QED BY <2>6
<1> HIDE DEF S
<1>3. n \in S
    BY <1>1, <1>2, Induction
<1> QED BY <1>3 DEF S

(* What the parser makes of the redirections of a command: every node is in *)
(* the lists of its descriptors, in the order of the text, and after "&>"   *)
(* in those of both outputs.                                                *)
LEMMA RedirectIs ==
    ASSUME NEW red, red \in Seq(Range(red)), \A r \in Range(red) : r[1] \in Kinds
    PROVE  WordsInv(red, Len(red), redirect(red))
<1>0. Len(red) \in Nat /\ \A w \in 1 .. Len(red) : red[w][1] \in Kinds
    <2>1. Len(red) \in Nat /\ DOMAIN red = 1 .. Len(red)
        OBVIOUS
    <2> QED BY <2>1 DEF Range
<1>1. RedirectsTo(red, redirects(red), Len(red))
    <2> DEFINE P(f) == RedirectsTo(red, f, Len(red))
    <2>1. \E f : P(f)
        BY <1>0, RedirectsExist
    <2>2. P(CHOOSE f : P(f))
        BY <2>1
    <2>3. redirects(red) = CHOOSE f : P(f)
        BY DEF redirects, RedirectsTo
    <2> QED BY <2>2, <2>3
<1>2. \A k \in 0 .. Len(red) :
          redirects(red)[k] = IF k = 0 THEN NoWords ELSE redirect_step(redirects(red)[k - 1], red[k][1])
    BY <1>1 DEF RedirectsTo
<1> DEFINE S == {k \in Nat : k <= Len(red) => WordsInv(red, k, redirects(red)[k])}
<1>3. 0 \in S
    <2>1. redirects(red)[0] = NoWords
        BY <1>0, <1>2
    <2>2. NoWords \in WordLists(0) /\ Forward(NoWords.next, 0)
        <3>1. [k \in 0 .. 2 |-> 0] \in [0 .. 2 -> 0 .. 0] /\ <<>> \in Seq(Nat) /\ {} \in SUBSET {1, 2}
            OBVIOUS
        <3> QED BY <3>1 DEF NoWords, WordLists, Forward
    <2>3. \A k \in 0 .. 2 : Linked(red, k, 0) = {}
        BY DEF Linked
    <2>4. \A k \in 0 .. 2 : NoWords.list[k] = 0
        BY DEF NoWords
    <2>5. NoWords.append = {}
        BY DEF NoWords
    <2>6. \A k \in 0 .. 2 : Chain(Linked(red, k, 0), NoWords.list[k], NoWords.next)
        BY <2>3, <2>4 DEF Chain
    <2>7. WordsInv(red, 0, NoWords)
        BY <2>2, <2>3, <2>4, <2>5, <2>6 DEF WordsInv
    <2> QED BY <2>1, <2>7
<1>4. ASSUME NEW k \in Nat, k \in S PROVE k + 1 \in S
    <2>1. SUFFICES ASSUME k + 1 <= Len(red) PROVE WordsInv(red, k + 1, redirects(red)[k + 1])
        OBVIOUS
    <2>2. k <= Len(red) /\ k + 1 \in 0 .. Len(red) /\ k + 1 \in 1 .. Len(red)
          /\ k + 1 # 0 /\ (k + 1) - 1 = k
        BY <1>0, <2>1
    <2>3. WordsInv(red, k, redirects(red)[k])
        BY <1>4, <2>2
    <2>4. redirects(red)[k + 1] = redirect_step(redirects(red)[k], red[k + 1][1])
        BY <1>2, <2>2
    <2> QED BY <1>0, <2>2, <2>3, <2>4, RedirectStep
<1>5. Len(red) \in S
    <2> HIDE DEF S
    <2> QED BY <1>0, <1>3, <1>4, Induction
<1> QED BY <1>0, <1>5 DEF redirect
=============================================================================

------------------------- MODULE StockDocumentsProofs -------------------------
(***************************************************************************)
(* The proofs of what the documents of the stock promise, for any requests, *)
(* warehouses, transfers and takings.                                      *)
(***************************************************************************)
EXTENDS MCStockDocuments, Sums, SequenceTheorems

\* Induction up to a number (over the lines of a document).
LEMMA UpTo ==
    ASSUME NEW n \in Nat, NEW U, 1 \in U, \A m \in 1..(n - 1) : m \in U => m + 1 \in U
    PROVE  \A m \in 1..n : m \in U
<1> DEFINE bad == {m \in 1..n : m \notin U}
<1>1. SUFFICES ASSUME bad # {} PROVE FALSE
    OBVIOUS
<1>2. PICK m \in bad : \A l \in bad : m <= l
    <2>1. bad \subseteq Nat
        OBVIOUS
    <2> HIDE DEF bad
    <2> QED
        BY <1>1, <2>1, LeastNumber
<1>3. m \in 2..n /\ m - 1 \in 1..(n - 1) /\ m - 1 \notin bad
    BY <1>2
<1> QED
    BY <1>2, <1>3

(***************************************************************************)
(* The sequence g is made of the first m parts: every place of it is one   *)
(* place of one part, and every place of every part is one of it.          *)
(***************************************************************************)
PartedBy(g, parts, m, part, place) ==
    /\ \A i \in 1..Len(g) : /\ part[i] \in 1..m /\ place[i] \in 1..Len(parts[part[i]])
                            /\ g[i] = parts[part[i]][place[i]]
    /\ \A i, j \in 1..Len(g) : part[i] = part[j] /\ place[i] = place[j] => i = j
    /\ \A l \in 1..m : \A j \in 1..Len(parts[l]) :
          \E i \in 1..Len(g) : part[i] = l /\ place[i] = j

Parted(g, parts, m) ==
    \E part, place \in [1..Len(g) -> Nat] : PartedBy(g, parts, m, part, place)

\* One part more (the next line of a document).
LEMMA PartAppended ==
    ASSUME NEW S, NEW n \in Nat, NEW parts \in [1..n -> Seq(S)],
           NEW m \in 1..(n - 1), NEW g \in Seq(S), Parted(g, parts, m)
    PROVE  /\ g \o parts[m + 1] \in Seq(S)
           /\ Parted(g \o parts[m + 1], parts, m + 1)
<1> DEFINE p == parts[m + 1]
           new == g \o p
<1>1. /\ m + 1 \in 1..n /\ p \in Seq(S)
      /\ Len(g) \in Nat /\ Len(p) \in Nat
    OBVIOUS
<1>2. /\ new \in Seq(S) /\ Len(new) = Len(g) + Len(p)
      /\ \A i \in 1..Len(new) : new[i] = IF i <= Len(g) THEN g[i] ELSE p[i - Len(g)]
    BY <1>1, ConcatProperties
<1>3. PICK part, place \in [1..Len(g) -> Nat] : PartedBy(g, parts, m, part, place)
    BY DEF Parted
<1> DEFINE part2 == [i \in 1..Len(new) |-> IF i <= Len(g) THEN part[i] ELSE m + 1]
           place2 == [i \in 1..Len(new) |-> IF i <= Len(g) THEN place[i] ELSE i - Len(g)]
<1> HIDE DEF new
<1>4. part2 \in [1..Len(new) -> Nat] /\ place2 \in [1..Len(new) -> Nat]
    BY <1>1, <1>2, <1>3
<1>5. \A i \in 1..Len(new) :
         /\ i <= Len(g) => i \in 1..Len(g) /\ part2[i] = part[i] /\ place2[i] = place[i]
         /\ i > Len(g) => part2[i] = m + 1 /\ place2[i] = i - Len(g)
                          /\ place2[i] \in 1..Len(p)
    BY <1>1, <1>2
<1> HIDE DEF part2, place2
<1>6. \A i \in 1..Len(new) : /\ part2[i] \in 1..(m + 1)
                             /\ place2[i] \in 1..Len(parts[part2[i]])
                             /\ new[i] = parts[part2[i]][place2[i]]
    <2> SUFFICES ASSUME NEW i \in 1..Len(new)
                 PROVE  /\ part2[i] \in 1..(m + 1)
                        /\ place2[i] \in 1..Len(parts[part2[i]])
                        /\ new[i] = parts[part2[i]][place2[i]]
        OBVIOUS
    <2>1. CASE i <= Len(g)
        <3>1. i \in 1..Len(g) /\ part2[i] = part[i] /\ place2[i] = place[i]
            BY <1>5, <2>1
        <3>2. /\ part[i] \in 1..m /\ place[i] \in 1..Len(parts[part[i]])
              /\ g[i] = parts[part[i]][place[i]]
            BY <1>3, <3>1 DEF PartedBy
        <3>3. new[i] = g[i]
            BY <1>2, <2>1
        <3> QED
            BY <3>1, <3>2, <3>3
    <2>2. CASE i > Len(g)
        <3>1. part2[i] = m + 1 /\ place2[i] = i - Len(g) /\ place2[i] \in 1..Len(p)
            BY <1>5, <2>2
        <3>2. new[i] = p[i - Len(g)]
            BY <1>1, <1>2, <2>2
        <3> QED
            BY <3>1, <3>2
    <2> QED
        BY <1>1, <2>1, <2>2
<1>7. ASSUME NEW i \in 1..Len(new), NEW j \in 1..Len(new),
             part2[i] = part2[j], place2[i] = place2[j]
      PROVE  i = j
    <2>1. i \in Nat /\ j \in Nat /\ Len(g) \in Nat
        BY <1>1, <1>2
    <2>2. CASE i <= Len(g) /\ j <= Len(g)
        <3>1. i \in 1..Len(g) /\ j \in 1..Len(g) /\ part[i] = part[j] /\ place[i] = place[j]
            BY <1>5, <1>7, <2>2
        <3> QED
            BY <1>3, <3>1 DEF PartedBy
    <2>3. CASE i > Len(g) /\ j > Len(g)
        BY <1>5, <1>7, <2>1, <2>3
    <2>4. CASE i <= Len(g) /\ j > Len(g)
        <3>1. part[i] = m + 1 /\ part[i] \in 1..m
            BY <1>3, <1>5, <1>7, <2>1, <2>4 DEF PartedBy
        <3> QED
            BY <3>1
    <2>5. CASE i > Len(g) /\ j <= Len(g)
        <3>1. part[j] = m + 1 /\ part[j] \in 1..m
            BY <1>3, <1>5, <1>7, <2>1, <2>5 DEF PartedBy
        <3> QED
            BY <3>1
    <2> QED
        BY <2>1, <2>2, <2>3, <2>4, <2>5
<1>8. ASSUME NEW l \in 1..(m + 1), NEW j \in 1..Len(parts[l])
      PROVE  \E i \in 1..Len(new) : part2[i] = l /\ place2[i] = j
    <2>1. CASE l \in 1..m
        <3>1. PICK i \in 1..Len(g) : part[i] = l /\ place[i] = j
            BY <1>3, <2>1 DEF PartedBy
        <3>2. i \in 1..Len(new) /\ i <= Len(g)
            BY <1>1, <1>2
        <3> QED
            BY <1>5, <3>1, <3>2
    <2>2. CASE l = m + 1
        <3>1. Len(g) + j \in 1..Len(new) /\ Len(g) + j > Len(g) /\ Len(g) + j - Len(g) = j
            BY <1>1, <1>2, <2>2
        <3> QED
            BY <1>5, <2>2, <3>1
    <2> QED
        BY <2>1, <2>2
<1>9. PartedBy(new, parts, m + 1, part2, place2)
    BY <1>6, <1>7, <1>8 DEF PartedBy
<1>10. Parted(new, parts, m + 1)
    BY <1>4, <1>9 DEF Parted
<1> QED
    BY <1>2, <1>10 DEF new

\* The recursion behind FlattenSeq, of the first m parts.
Steps(f, parts, m) ==
    f = [i \in 1..m |-> IF i = 1 THEN parts[i] ELSE f[i - 1] \o parts[i]]

\* It has a solution (Lines).
LEMMA StepsExist ==
    ASSUME NEW n \in Nat \ {0}, NEW parts
    PROVE  \E f : Steps(f, parts, n)
<1> DEFINE U == {m \in 1..n : \E f : Steps(f, parts, m)}
<1>1. 1 \in U
    <2> DEFINE f == [i \in 1..1 |-> parts[i]]
    <2>1. f = [i \in 1..1 |-> IF i = 1 THEN parts[i] ELSE f[i - 1] \o parts[i]]
        OBVIOUS
    <2> HIDE DEF f
    <2>2. Steps(f, parts, 1)
        BY <2>1 DEF Steps
    <2> QED
        BY <2>2
<1>2. ASSUME NEW m \in 1..(n - 1), m \in U
      PROVE  m + 1 \in U
    <2>1. PICK f : Steps(f, parts, m)
        BY <1>2
    <2> DEFINE g == [i \in 1..(m + 1) |-> IF i <= m THEN f[i] ELSE f[m] \o parts[m + 1]]
    <2>2. ASSUME NEW i \in 1..(m + 1)
          PROVE  g[i] = IF i = 1 THEN parts[i] ELSE g[i - 1] \o parts[i]
        <3>1. CASE i <= m
            <4>1. i \in 1..m /\ g[i] = f[i] /\ (i # 1 => i - 1 \in 1..m /\ g[i - 1] = f[i - 1])
                BY <3>1
            <4>2. f[i] = IF i = 1 THEN parts[i] ELSE f[i - 1] \o parts[i]
                <5> HIDE DEF g
                <5> QED  BY <2>1, <4>1 DEF Steps
            <4> HIDE DEF g
            <4> QED
                BY <4>1, <4>2
        <3>2. CASE i = m + 1
            <4>1. i # 1 /\ ~(i <= m) /\ i - 1 = m /\ m \in 1..(m + 1) /\ m <= m
                BY <3>2
            <4>2. g[i] = f[m] \o parts[i] /\ g[m] = f[m]
                BY <3>2, <4>1
            <4> HIDE DEF g
            <4> QED
                BY <4>1, <4>2
        <3> QED
            BY <3>1, <3>2
    <2>3. g = [i \in 1..(m + 1) |-> g[i]]
        OBVIOUS
    <2> HIDE DEF g
    <2>4. Steps(g, parts, m + 1)
        BY <2>2, <2>3, Zenon DEF Steps
    <2> QED
        BY <2>4
<1> HIDE DEF U
<1>3. n \in U
    BY <1>1, <1>2, UpTo
<1> QED
    BY <1>3 DEF U

\* One line after the other: every leg of every line is once in the result (Lines).
LEMMA Flattened ==
    ASSUME NEW S, NEW n \in Nat, NEW parts \in [1..n -> Seq(S)]
    PROVE  FlattenSeq(parts) \in Seq(S) /\ Parted(FlattenSeq(parts), parts, n)
<1>1. Len(parts) = n
    BY LenProperties
<1>2. CASE n = 0
    <2>1. FlattenSeq(parts) = parts /\ parts = <<>>
        BY <1>1, <1>2 DEF FlattenSeq
    <2>2. <<>> \in Seq(S) /\ Len(<<>>) = 0
        OBVIOUS
    <2> DEFINE none == [i \in 1..Len(<<>>) |-> i]
    <2>3. none \in [1..Len(<<>>) -> Nat] /\ PartedBy(<<>>, parts, n, none, none)
        BY <1>2, <2>2 DEF PartedBy
    <2>4. Parted(<<>>, parts, n)
        <3> HIDE DEF none
        <3> QED
            BY <2>3 DEF Parted
    <2> QED
        BY <2>1, <2>2, <2>4
<1>3. CASE n # 0
    <2> DEFINE f == CHOOSE f : Steps(f, parts, n)
    <2>1. Steps(f, parts, n)
        BY <1>3, StepsExist
    <2>2. FlattenSeq(parts) = f[n]
        BY <1>1, <1>3 DEF FlattenSeq, Steps
    <2> HIDE DEF f
    <2> DEFINE U == {m \in 1..n : f[m] \in Seq(S) /\ Parted(f[m], parts, m)}
    <2>3. 1 \in U
        <3>1. 1 \in 1..n /\ f[1] = parts[1] /\ parts[1] \in Seq(S)
            BY <1>3, <2>1 DEF Steps
        <3> DEFINE p == parts[1]
                   part == [i \in 1..Len(p) |-> 1]
                   place == [i \in 1..Len(p) |-> i]
        <3>2. /\ part \in [1..Len(p) -> Nat] /\ place \in [1..Len(p) -> Nat]
              /\ \A i \in 1..Len(p) : part[i] = 1 /\ place[i] = i
            BY <3>1
        <3> HIDE DEF part, place
        <3>3. Parted(p, parts, 1)
            <4>1. \A i \in 1..Len(p) : /\ part[i] \in 1..1 /\ place[i] \in 1..Len(parts[part[i]])
                                       /\ p[i] = parts[part[i]][place[i]]
                BY <3>2
            <4>2. \A i, j \in 1..Len(p) : part[i] = part[j] /\ place[i] = place[j] => i = j
                BY <3>2
            <4>3. \A l \in 1..1 : \A j \in 1..Len(parts[l]) :
                      \E i \in 1..Len(p) : part[i] = l /\ place[i] = j
                BY <3>2
            <4>4. PartedBy(p, parts, 1, part, place)
                BY <4>1, <4>2, <4>3 DEF PartedBy
            <4> QED
                BY <3>2, <4>4 DEF Parted
        <3> QED
            BY <3>1, <3>3
    <2>4. ASSUME NEW m \in 1..(n - 1), m \in U
          PROVE  m + 1 \in U
        <3>1. m + 1 \in 1..n /\ m + 1 # 1 /\ (m + 1) - 1 = m
            OBVIOUS
        <3>4. f[m + 1] = f[m] \o parts[m + 1]
            BY <2>1, <3>1 DEF Steps
        <3>2. f[m] \in Seq(S) /\ Parted(f[m], parts, m)
            BY <2>4
        <3>3. f[m] \o parts[m + 1] \in Seq(S) /\ Parted(f[m] \o parts[m + 1], parts, m + 1)
            BY <3>2, PartAppended
        <3> QED
            BY <3>1, <3>3, <3>4
    <2> HIDE DEF U
    <2>5. \A m \in 1..n : m \in U
        BY <2>3, <2>4, UpTo
    <2>6. n \in U
        BY <1>3, <2>5
    <2> QED
        BY <2>2, <2>6 DEF U
<1> QED
    BY <1>2, <1>3

\* Every member of a finite set has one place in its sequence (Lines).
LEMMA Sequenced ==
    ASSUME NEW S, IsFiniteSet(S)
    PROVE  /\ Cardinality(S) \in Nat
           /\ SetToSeq(S) \in [1..Cardinality(S) -> S]
           /\ \A i, j \in 1..Cardinality(S) : SetToSeq(S)[i] = SetToSeq(S)[j] => i = j
           /\ \A k \in S : \E i \in 1..Cardinality(S) : SetToSeq(S)[i] = k
<1> DEFINE n == Cardinality(S)
<1>1. n \in Nat /\ ExistsBijection(1..n, S)
    BY FS_CardinalityType
<1>2. PICK f \in [1..n -> S] : IsInjective(f)
    BY <1>1 DEF ExistsBijection, Bijection, Injection, IsInjective
<1>3. SetToSeq(S) \in [1..n -> S] /\ IsInjective(SetToSeq(S))
    BY <1>2 DEF SetToSeq
<1> DEFINE g == SetToSeq(S)
<1>4. g \in Injection(1..n, S)
    BY <1>3 DEF Injection, IsInjective
<1>5. IsFiniteSet(1..n) /\ Cardinality(1..n) = n
    BY <1>1, FS_Interval
<1>6. g \in Surjection(1..n, S)
    <2> HIDE DEF g
    <2> QED
        BY <1>4, <1>5, FS_Injection
<1>7. /\ \A i, j \in 1..n : g[i] = g[j] => i = j
      /\ \A k \in S : \E i \in 1..n : g[i] = k
    <2> HIDE DEF g, n
    <2> QED
        BY <1>4, <1>6 DEF Injection, Surjection, IsInjective
<1> QED
    BY <1>1, <1>3, <1>7

-----------------------------------------------------------------------------
(* Plans: the legs of a document, and what they do all in all.              *)

AnyLeg == [bin: Bin, avail: Int, occ: Int, transit: Int, defect: Int,
           shown: {"avail", "occ", "transit", "defect"}]

AmountOf(leg) == [avail |-> leg.avail, occ |-> leg.occ, transit |-> leg.transit,
                  defect |-> leg.defect]

\* All other legs only make sure that there is a row.
Moves(leg) == AmountOf(leg) # Book!Zero

\* One leg at most moves a bin.
Once(p) ==
    \A i, j \in 1..Len(p) : Moves(p[i]) /\ Moves(p[j]) /\ p[i].bin = p[j].bin => i = j

\* The first n legs of p move the bin.
Moved(p, n, b) == \E i \in 1..n : Moves(p[i]) /\ p[i].bin = b

\* The plan p moves every bin by what d says of it.
Planned(p, d) ==
    /\ p \in Seq(AnyLeg) /\ Once(p)
    /\ \A i \in 1..Len(p) : Moves(p[i]) => AmountOf(p[i]) = d[p[i].bin]
    /\ \A b \in Bin : d[b] # Book!Zero => Moved(p, Len(p), b)

\* The same of the line of one SKU.
OnLine(p, k, d) ==
    /\ p \in Seq(AnyLeg) /\ Once(p)
    /\ \A i \in 1..Len(p) : p[i].bin[1] = k /\ (Moves(p[i]) => AmountOf(p[i]) = d[p[i].bin])
    /\ \A w \in Warehouse : d[<<k, w>>] # Book!Zero => Moved(p, Len(p), <<k, w>>)

\* A bin is a SKU in a warehouse (Inventory).
LEMMA BinType ==
    /\ \A b \in Bin : b[1] \in Sku /\ b[2] \in Warehouse /\ b = <<b[1], b[2]>>
    /\ \A k \in Sku, w \in Warehouse : <<k, w>> \in Bin
BY DEF Bin

\* A document whose lines do what they should does so as a whole (ship_transfer, post_taking).
LEMMA LinesPlanned ==
    ASSUME NEW legs, NEW d, \A k \in Sku : OnLine(legs[k], k, d)
    PROVE  Planned(Lines(legs), d)
<1> DEFINE n == Cardinality(Sku)
           order == SetToSeq(Sku)
           parts == [i \in 1..n |-> legs[order[i]]]
           p == FlattenSeq(parts)
<1>1. /\ n \in Nat /\ order \in [1..n -> Sku]
      /\ \A i, j \in 1..n : order[i] = order[j] => i = j
      /\ \A k \in Sku : \E i \in 1..n : order[i] = k
    BY Sequenced, DocumentsAssumption
<1>2. Lines(legs) = p
    BY DEF Lines
<1> HIDE DEF n, order
<1>3. \A l \in 1..n : order[l] \in Sku /\ parts[l] = legs[order[l]]
    BY <1>1
<1>4. parts \in [1..n -> Seq(AnyLeg)]
    <2>1. \A l \in 1..n : parts[l] \in Seq(AnyLeg)
        BY <1>3 DEF OnLine
    <2> QED
        BY <2>1
<1> HIDE DEF parts
<1>5. p \in Seq(AnyLeg) /\ Parted(p, parts, n)
    BY <1>1, <1>4, Flattened
<1> HIDE DEF p
<1>6. PICK part, place \in [1..Len(p) -> Nat] : PartedBy(p, parts, n, part, place)
    BY <1>5 DEF Parted
<1>7. ASSUME NEW i \in 1..Len(p)
      PROVE  /\ part[i] \in 1..n /\ place[i] \in 1..Len(legs[order[part[i]]])
             /\ p[i] = legs[order[part[i]]][place[i]]
             /\ p[i].bin[1] = order[part[i]]
             /\ Moves(p[i]) => AmountOf(p[i]) = d[p[i].bin]
    <2>1. /\ part[i] \in 1..n /\ place[i] \in 1..Len(parts[part[i]])
          /\ p[i] = parts[part[i]][place[i]]
        BY <1>6 DEF PartedBy
    <2>2. order[part[i]] \in Sku /\ parts[part[i]] = legs[order[part[i]]]
        BY <1>3, <2>1
    <2> DEFINE line == legs[order[part[i]]]
    <2>3. OnLine(line, order[part[i]], d) /\ p[i] = line[place[i]] /\ place[i] \in 1..Len(line)
        BY <2>1, <2>2
    <2> HIDE DEF line
    <2>4. /\ p[i].bin[1] = order[part[i]]
          /\ Moves(p[i]) => AmountOf(p[i]) = d[p[i].bin]
        BY <2>3 DEF OnLine
    <2> QED
        BY <2>1, <2>3, <2>4 DEF line
<1>8. Once(p)
    <2> SUFFICES ASSUME NEW i \in 1..Len(p), NEW j \in 1..Len(p),
                        Moves(p[i]), Moves(p[j]), p[i].bin = p[j].bin
                 PROVE  i = j
        BY DEF Once
    <2>0. /\ part[i] \in 1..n /\ part[j] \in 1..n
          /\ p[i].bin[1] = order[part[i]] /\ p[j].bin[1] = order[part[j]]
        BY <1>7
    <2>1. part[i] = part[j]
        BY <1>1, <2>0
    <2> DEFINE line == legs[order[part[i]]]
    <2>2. /\ OnLine(line, order[part[i]], d)
          /\ place[i] \in 1..Len(line) /\ p[i] = line[place[i]]
          /\ place[j] \in 1..Len(line) /\ p[j] = line[place[j]]
        BY <1>3, <1>7, <2>0, <2>1
    <2> HIDE DEF line
    <2>3. place[i] = place[j]
        <3>1. Once(line)
            BY <2>2 DEF OnLine
        <3>2. /\ Moves(line[place[i]]) /\ Moves(line[place[j]])
              /\ line[place[i]].bin = line[place[j]].bin
            BY <2>2
        <3> QED
            BY <2>2, <3>1, <3>2 DEF Once
    <2> QED
        BY <1>6, <2>1, <2>3 DEF PartedBy
<1>9. ASSUME NEW b \in Bin, d[b] # Book!Zero
      PROVE  Moved(p, Len(p), b)
    <2>1. b[1] \in Sku /\ b[2] \in Warehouse /\ b = <<b[1], b[2]>>
        BY BinType
    <2>2. PICK l \in 1..n : order[l] = b[1]
        BY <1>1, <2>1
    <2>3. PICK j \in 1..Len(legs[b[1]]) : Moves(legs[b[1]][j]) /\ legs[b[1]][j].bin = b
        <3> DEFINE line == legs[b[1]]
        <3>1. OnLine(line, b[1], d) /\ d[<<b[1], b[2]>>] # Book!Zero
            BY <1>9, <2>1
        <3> HIDE DEF line
        <3>2. Moved(line, Len(line), <<b[1], b[2]>>)
            BY <2>1, <3>1 DEF OnLine
        <3> QED
            BY <2>1, <3>2 DEF Moved, line
    <2>4. parts[l] = legs[b[1]]
        BY <1>3, <2>2
    <2>5. PICK i \in 1..Len(p) : part[i] = l /\ place[i] = j
        BY <1>6, <2>3, <2>4 DEF PartedBy
    <2>6. p[i] = legs[b[1]][j]
        BY <1>7, <2>2, <2>5
    <2> QED
        BY <2>3, <2>6 DEF Moved
<1> QED
    BY <1>2, <1>5, <1>7, <1>8, <1>9 DEF Planned

\* What each kind of leg moves (engines/inventory.py).
LEMMA LegTypes ==
    ASSUME NEW b \in Bin, NEW q \in Int
    PROVE  /\ Ensure(b) \in AnyLeg /\ Ensure(b).bin = b /\ ~Moves(Ensure(b))
           /\ ShipSource(b, q) \in AnyLeg /\ ShipSource(b, q).bin = b
           /\ AmountOf(ShipSource(b, q)) = [avail |-> -q, occ |-> 0, transit |-> 0, defect |-> 0]
           /\ ShipDest(b, q) \in AnyLeg /\ ShipDest(b, q).bin = b
           /\ AmountOf(ShipDest(b, q)) = [avail |-> 0, occ |-> 0, transit |-> q, defect |-> 0]
           /\ ReceiveMove(b, q) \in AnyLeg /\ ReceiveMove(b, q).bin = b
           /\ AmountOf(ReceiveMove(b, q)) = [avail |-> q, occ |-> 0, transit |-> -q, defect |-> 0]
           /\ CancelDest(b, q) \in AnyLeg /\ CancelDest(b, q).bin = b
           /\ AmountOf(CancelDest(b, q)) = [avail |-> 0, occ |-> 0, transit |-> -q, defect |-> 0]
           /\ CancelSource(b, q) \in AnyLeg /\ CancelSource(b, q).bin = b
           /\ AmountOf(CancelSource(b, q)) = [avail |-> q, occ |-> 0, transit |-> 0, defect |-> 0]
<1>1. /\ Ensure(b) \in AnyLeg /\ Ensure(b).bin = b
      /\ Ensure(b).avail = 0 /\ Ensure(b).occ = 0 /\ Ensure(b).transit = 0
      /\ Ensure(b).defect = 0
    BY DEF AnyLeg, Ensure
<1>2. ~Moves(Ensure(b))
    BY <1>1 DEF Moves, AmountOf, Book!Zero
<1>3. /\ ShipSource(b, q) \in AnyLeg /\ ShipSource(b, q).bin = b
      /\ AmountOf(ShipSource(b, q)) = [avail |-> -q, occ |-> 0, transit |-> 0, defect |-> 0]
    BY <1>1 DEF AnyLeg, AmountOf, ShipSource, Book!Zero
<1>4. /\ ShipDest(b, q) \in AnyLeg /\ ShipDest(b, q).bin = b
      /\ AmountOf(ShipDest(b, q)) = [avail |-> 0, occ |-> 0, transit |-> q, defect |-> 0]
    <2> DEFINE half == [Ensure(b) EXCEPT !.transit = q]
    <2>1. ShipDest(b, q) = [half EXCEPT !.shown = "transit"]
        BY DEF ShipDest
    <2>2. /\ half \in AnyLeg /\ half.bin = b /\ half.occ = 0 /\ half.defect = 0
          /\ half.avail = 0 /\ half.transit = q
        BY <1>1 DEF AnyLeg
    <2> HIDE DEF half
    <2> DEFINE leg == [half EXCEPT !.shown = "transit"]
    <2>3. /\ leg \in AnyLeg /\ leg.bin = b /\ leg.occ = 0 /\ leg.defect = 0
          /\ leg.avail = 0 /\ leg.transit = q
        BY <2>2 DEF AnyLeg
    <2> HIDE DEF leg
    <2>4. AmountOf(leg) = [avail |-> 0, occ |-> 0, transit |-> q, defect |-> 0]
        BY <2>3 DEF AmountOf
    <2> QED
        BY <2>1, <2>3, <2>4 DEF leg
<1>5. /\ ReceiveMove(b, q) \in AnyLeg /\ ReceiveMove(b, q).bin = b
      /\ AmountOf(ReceiveMove(b, q)) = [avail |-> q, occ |-> 0, transit |-> -q, defect |-> 0]
    <2> DEFINE half == [Ensure(b) EXCEPT !.avail = q]
    <2>1. ReceiveMove(b, q) = [half EXCEPT !.transit = -q]
        BY DEF ReceiveMove
    <2>2. /\ half \in AnyLeg /\ half.bin = b /\ half.occ = 0 /\ half.defect = 0
          /\ half.avail = q /\ half.transit = 0
        BY <1>1 DEF AnyLeg
    <2> HIDE DEF half
    <2> DEFINE leg == [half EXCEPT !.transit = -q]
    <2>3. /\ leg \in AnyLeg /\ leg.bin = b /\ leg.occ = 0 /\ leg.defect = 0
          /\ leg.avail = q /\ leg.transit = -q
        BY <2>2 DEF AnyLeg
    <2> HIDE DEF leg
    <2>4. AmountOf(leg) = [avail |-> q, occ |-> 0, transit |-> -q, defect |-> 0]
        BY <2>3 DEF AmountOf
    <2> QED
        BY <2>1, <2>3, <2>4 DEF leg
<1>6. /\ CancelDest(b, q) \in AnyLeg /\ CancelDest(b, q).bin = b
      /\ AmountOf(CancelDest(b, q)) = [avail |-> 0, occ |-> 0, transit |-> -q, defect |-> 0]
    <2> DEFINE half == [Ensure(b) EXCEPT !.transit = -q]
    <2>1. CancelDest(b, q) = [half EXCEPT !.shown = "transit"]
        BY DEF CancelDest
    <2>2. /\ half \in AnyLeg /\ half.bin = b /\ half.occ = 0 /\ half.defect = 0
          /\ half.avail = 0 /\ half.transit = -q
        BY <1>1 DEF AnyLeg
    <2> HIDE DEF half
    <2> DEFINE leg == [half EXCEPT !.shown = "transit"]
    <2>3. /\ leg \in AnyLeg /\ leg.bin = b /\ leg.occ = 0 /\ leg.defect = 0
          /\ leg.avail = 0 /\ leg.transit = -q
        BY <2>2 DEF AnyLeg
    <2> HIDE DEF leg
    <2>4. AmountOf(leg) = [avail |-> 0, occ |-> 0, transit |-> -q, defect |-> 0]
        BY <2>3 DEF AmountOf
    <2> QED
        BY <2>1, <2>3, <2>4 DEF leg
<1>7. /\ CancelSource(b, q) \in AnyLeg /\ CancelSource(b, q).bin = b
      /\ AmountOf(CancelSource(b, q)) = [avail |-> q, occ |-> 0, transit |-> 0, defect |-> 0]
    BY <1>1 DEF AnyLeg, AmountOf, CancelSource, Book!Zero
<1> QED
    BY <1>1, <1>2, <1>3, <1>4, <1>5, <1>6, <1>7

\* Nothing is to be done for a line of nothing (_transfer_lines, post_taking).
LEMMA NoLegs ==
    ASSUME NEW k \in Sku, NEW d, \A w \in Warehouse : d[<<k, w>>] = Book!Zero
    PROVE  OnLine(<<>>, k, d)
BY DEF OnLine, Once

\* A row is ensured and changed (receive_transfer, adjust).
LEMMA TwoLegs ==
    ASSUME NEW k \in Sku, NEW w \in Warehouse, NEW d,
           NEW one \in AnyLeg, NEW two \in AnyLeg, one.bin = <<k, w>>, two.bin = <<k, w>>,
           ~Moves(one), AmountOf(two) = d[<<k, w>>],
           \A v \in Warehouse \ {w} : d[<<k, v>>] = Book!Zero
    PROVE  OnLine(<<one, two>>, k, d)
<1> DEFINE p == <<one, two>>
<1>1. /\ p \in Seq(AnyLeg) /\ Len(p) = 2 /\ p[1] = one /\ p[2] = two
      /\ \A i \in 1..2 : i = 1 \/ i = 2
    OBVIOUS
<1> HIDE DEF p
<1>2. Once(p)
    BY <1>1 DEF Once
<1>3. \A i \in 1..Len(p) : p[i].bin[1] = k /\ (Moves(p[i]) => AmountOf(p[i]) = d[p[i].bin])
    BY <1>1
<1>4. ASSUME NEW v \in Warehouse, d[<<k, v>>] # Book!Zero
      PROVE  Moved(p, Len(p), <<k, v>>)
    <2>1. v = w /\ Moves(two)
        BY <1>4 DEF Moves
    <2>2. 2 \in 1..Len(p)
        BY <1>1
    <2> QED
        BY <1>1, <2>1, <2>2 DEF Moved
<1>5. OnLine(p, k, d)
    BY <1>1, <1>2, <1>3, <1>4 DEF OnLine
<1> QED
    BY <1>5 DEF p

\* Two rows are ensured and then changed (ship_transfer, cancel_transfer).
LEMMA FourLegs ==
    ASSUME NEW k \in Sku, NEW w \in Warehouse, NEW u \in Warehouse, w # u, NEW d,
           NEW one \in AnyLeg, NEW two \in AnyLeg, NEW three \in AnyLeg, NEW four \in AnyLeg,
           ~Moves(one), ~Moves(two), one.bin[1] = k, two.bin[1] = k,
           three.bin = <<k, w>>, four.bin = <<k, u>>,
           AmountOf(three) = d[<<k, w>>], AmountOf(four) = d[<<k, u>>],
           \A v \in Warehouse \ {w, u} : d[<<k, v>>] = Book!Zero
    PROVE  OnLine(<<one, two, three, four>>, k, d)
<1> DEFINE p == <<one, two, three, four>>
<1>1. /\ p \in Seq(AnyLeg) /\ Len(p) = 4
      /\ p[1] = one /\ p[2] = two /\ p[3] = three /\ p[4] = four
      /\ \A i \in 1..4 : i = 1 \/ i = 2 \/ i = 3 \/ i = 4
    OBVIOUS
<1> HIDE DEF p
<1>2. Once(p)
    BY <1>1 DEF Once
<1>3. \A i \in 1..Len(p) : p[i].bin[1] = k /\ (Moves(p[i]) => AmountOf(p[i]) = d[p[i].bin])
    BY <1>1
<1>4. ASSUME NEW v \in Warehouse, d[<<k, v>>] # Book!Zero
      PROVE  Moved(p, Len(p), <<k, v>>)
    <2>1. (v = w /\ Moves(three)) \/ (v = u /\ Moves(four))
        <3>1. CASE v = w
            BY <1>4, <3>1 DEF Moves
        <3>2. CASE v = u
            BY <1>4, <3>2 DEF Moves
        <3> QED
            BY <1>4, <3>1, <3>2
    <2>2. 3 \in 1..Len(p) /\ 4 \in 1..Len(p)
        BY <1>1
    <2> QED
        BY <1>1, <2>1, <2>2 DEF Moved
<1>5. OnLine(p, k, d)
    BY <1>1, <1>2, <1>3, <1>4 DEF OnLine
<1> QED
    BY <1>5 DEF p

-----------------------------------------------------------------------------
(* What a document does to the stock.                                       *)

Amount(avail, transit) == [avail |-> avail, occ |-> 0, transit |-> transit, defect |-> 0]

\* A draft that is cancelled moves nothing.
TransferEffect(op, was, doc) ==
    [b \in Bin |->
       LET q == doc.qty[b[1]]
       IN  IF was = "DRAFT" /\ op = "cancel" THEN Amount(0, 0)
           ELSE IF b[2] = doc.from
                THEN Amount(IF op = "ship" THEN -q ELSE IF op = "cancel" THEN q ELSE 0, 0)
           ELSE IF b[2] = doc.to
                THEN Amount(IF op = "receive" THEN q ELSE 0, IF op = "ship" THEN q ELSE -q)
           ELSE Amount(0, 0)]

TakingEffect(doc, delta) ==
    [b \in Bin |-> Amount(IF b[2] = doc.house THEN delta[b[1]] ELSE 0, 0)]

\* An amount of nothing is none (_commit_change).
LEMMA ZeroAmount == Amount(0, 0) = Book!Zero
BY DEF Amount, Book!Zero

\* Its numbers make it an amount of the book (_commit_change).
LEMMA AmountType ==
    ASSUME NEW x \in Int, NEW y \in Int
    PROVE  Amount(x, y) \in Book!Amount
BY DEF Amount, Book!Amount

\* The legs of a transfer do what the transfer says (ship_moves, receive_move,
\* cancel_transit_moves).
LEMMA TransferPlanned ==
    ASSUME NEW doc \in Slip, doc.from # doc.to, NEW op \in TransferOps, NEW was
    PROVE  /\ TransferEffect(op, was, doc) \in [Bin -> Book!Amount]
           /\ Planned(TransferLegs(op, was, doc), TransferEffect(op, was, doc))
<1> DEFINE d == TransferEffect(op, was, doc)
           still == was = "DRAFT" /\ op = "cancel"
           line(k) ==
             LET q == doc.qty[k]
                 from == <<k, doc.from>>
                 to == <<k, doc.to>>
             IN  IF q = 0 \/ (was = "DRAFT" /\ op = "cancel") THEN <<>>
                 ELSE CASE op = "ship"    -> ShipLine(from, to, q)
                        [] op = "receive" -> ReceiveLine(to, q)
                        [] op = "cancel"  -> CancelLine(from, to, q)
<1>1. /\ doc.from \in Warehouse /\ doc.to \in Warehouse
      /\ \A k \in Sku : doc.qty[k] \in Nat
    BY DEF Slip
<1>2. ASSUME NEW b \in Bin
      PROVE  d[b] \in Book!Amount
    <2> DEFINE q == doc.qty[b[1]]
    <2>1. q \in Int /\ -q \in Int
        BY <1>1, BinType
    <2> HIDE DEF q
    <2>2. /\ d[b] \in {Amount(0, 0), Amount(-q, 0), Amount(q, 0), Amount(q, -q), Amount(0, q),
                       Amount(0, -q)}
        BY <2>1 DEF TransferEffect, q
    <2> QED
        BY <2>1, <2>2, AmountType
<1>3. ASSUME NEW k \in Sku
      PROVE  OnLine(line(k), k, d)
    <2> DEFINE q == doc.qty[k]
               from == <<k, doc.from>>
               to == <<k, doc.to>>
    <2>1. /\ from \in Bin /\ to \in Bin /\ q \in Int /\ q \in Nat
          /\ from[1] = k /\ to[1] = k /\ from[2] = doc.from /\ to[2] = doc.to
        BY <1>1 DEF Bin
    <2>2. /\ \A w \in Warehouse : <<k, w>> \in Bin /\ <<k, w>>[1] = k /\ <<k, w>>[2] = w
          /\ \A w \in Warehouse \ {doc.from, doc.to} : d[<<k, w>>] = Book!Zero
        BY ZeroAmount DEF TransferEffect, Bin
    <2>3. CASE q = 0 \/ still
        <3>1. \A w \in Warehouse : d[<<k, w>>] = Book!Zero
            BY <2>2, <2>3, ZeroAmount DEF TransferEffect
        <3>2. line(k) = <<>>
            BY <2>3
        <3> HIDE DEF line, d
        <3> QED
            BY <3>1, <3>2, NoLegs
    <2>4. CASE q # 0 /\ ~still /\ op = "ship"
        <3>1. line(k) = <<Ensure(from), Ensure(to), ShipSource(from, q), ShipDest(to, q)>>
            BY <2>4 DEF ShipLine
        <3>2. d[from] = Amount(-q, 0) /\ d[to] = Amount(0, q)
            BY <2>1, <2>4 DEF TransferEffect
        <3> HIDE DEF line, d
        <3> DEFINE one == Ensure(from)
                   two == Ensure(to)
                   three == ShipSource(from, q)
                   four == ShipDest(to, q)
        <3>3. /\ one \in AnyLeg /\ two \in AnyLeg /\ three \in AnyLeg /\ four \in AnyLeg
              /\ ~Moves(one) /\ ~Moves(two) /\ one.bin = from /\ two.bin = to
              /\ three.bin = from /\ AmountOf(three) = d[from]
              /\ four.bin = to /\ AmountOf(four) = d[to]
            BY <2>1, <3>2, LegTypes DEF Amount
        <3> HIDE DEF one, two, three, four
        <3>4. /\ one.bin[1] = k /\ two.bin[1] = k
              /\ three.bin = <<k, doc.from>> /\ AmountOf(three) = d[<<k, doc.from>>]
              /\ four.bin = <<k, doc.to>> /\ AmountOf(four) = d[<<k, doc.to>>]
              /\ \A v \in Warehouse \ {doc.from, doc.to} : d[<<k, v>>] = Book!Zero
              /\ doc.from \in Warehouse /\ doc.to \in Warehouse /\ doc.from # doc.to
            BY <1>1, <2>1, <2>2, <3>3
        <3>5. OnLine(<<one, two, three, four>>, k, d)
            BY <3>3, <3>4, FourLegs
        <3> QED
            BY <3>1, <3>5 DEF one, two, three, four
    <2>5. CASE q # 0 /\ op = "receive"
        <3>1. line(k) = <<Ensure(to), ReceiveMove(to, q)>>
            BY <2>5 DEF ReceiveLine
        <3>2. d[from] = Book!Zero /\ d[to] = Amount(q, -q)
            BY <2>1, <2>5, ZeroAmount DEF TransferEffect
        <3>3. \A w \in Warehouse \ {doc.to} : d[<<k, w>>] = Book!Zero
            BY <2>2, <3>2
        <3> HIDE DEF line, d
        <3> DEFINE one == Ensure(to)
                   two == ReceiveMove(to, q)
        <3>4. /\ one \in AnyLeg /\ two \in AnyLeg /\ ~Moves(one) /\ one.bin = to
              /\ two.bin = to /\ AmountOf(two) = d[to]
            BY <2>1, <3>2, LegTypes DEF Amount
        <3> HIDE DEF one, two
        <3>5. OnLine(<<one, two>>, k, d)
            BY <1>1, <2>1, <3>3, <3>4, TwoLegs
        <3> QED
            BY <3>1, <3>5 DEF one, two
    <2>6. CASE q # 0 /\ ~still /\ op = "cancel"
        <3>1. line(k) = <<Ensure(to), Ensure(from), CancelDest(to, q), CancelSource(from, q)>>
            BY <2>6 DEF CancelLine
        <3>2. d[from] = Amount(q, 0) /\ d[to] = Amount(0, -q)
            BY <2>1, <2>6 DEF TransferEffect
        <3> HIDE DEF line, d
        <3> DEFINE one == Ensure(to)
                   two == Ensure(from)
                   three == CancelDest(to, q)
                   four == CancelSource(from, q)
        <3>3. /\ one \in AnyLeg /\ two \in AnyLeg /\ three \in AnyLeg /\ four \in AnyLeg
              /\ ~Moves(one) /\ ~Moves(two) /\ one.bin = to /\ two.bin = from
              /\ three.bin = to /\ AmountOf(three) = d[to]
              /\ four.bin = from /\ AmountOf(four) = d[from]
            BY <2>1, <3>2, LegTypes DEF Amount
        <3> HIDE DEF one, two, three, four
        <3>4. /\ one.bin[1] = k /\ two.bin[1] = k
              /\ three.bin = <<k, doc.to>> /\ AmountOf(three) = d[<<k, doc.to>>]
              /\ four.bin = <<k, doc.from>> /\ AmountOf(four) = d[<<k, doc.from>>]
              /\ \A v \in Warehouse \ {doc.to, doc.from} : d[<<k, v>>] = Book!Zero
              /\ doc.to \in Warehouse /\ doc.from \in Warehouse /\ doc.to # doc.from
            BY <1>1, <2>1, <2>2, <3>3
        <3>5. OnLine(<<one, two, three, four>>, k, d)
            BY <3>3, <3>4, FourLegs
        <3> QED
            BY <3>1, <3>5 DEF one, two, three, four
    <2> QED
        BY <2>3, <2>4, <2>5, <2>6 DEF TransferOps
<1> DEFINE legs == [k \in Sku |-> line(k)]
<1>4. TransferLegs(op, was, doc) = Lines(legs)
    BY DEF TransferLegs
<1>5. \A k \in Sku : OnLine(legs[k], k, d)
    <2> HIDE DEF line, d
    <2> QED
        BY <1>3
<1>6. d \in [Bin -> Book!Amount]
    BY <1>2 DEF TransferEffect
<1> HIDE DEF legs, d
<1>7. Planned(Lines(legs), d)
    BY <1>5, LinesPlanned
<1> QED
    BY <1>4, <1>6, <1>7 DEF d

\* The legs of a taking write off and up what was counted (post_taking).
LEMMA TakingPlanned ==
    ASSUME NEW doc \in Sheet, NEW delta \in [Sku -> Int]
    PROVE  /\ TakingEffect(doc, delta) \in [Bin -> Book!Amount]
           /\ Planned(TakingLegs(doc, delta), TakingEffect(doc, delta))
<1> DEFINE d == TakingEffect(doc, delta)
           line(k) == IF delta[k] = 0 THEN <<>>
                      ELSE Adjust(<<k, doc.house>>, "ADJUST", delta[k])
<1>1. doc.house \in Warehouse /\ \A k \in Sku : delta[k] \in Int
    BY DEF Sheet
<1>2. ASSUME NEW b \in Bin
      PROVE  d[b] \in Book!Amount
    <2>1. d[b] = Amount(0, 0) \/ (d[b] = Amount(delta[b[1]], 0) /\ delta[b[1]] \in Int)
        BY <1>1, BinType DEF TakingEffect
    <2> QED
        BY <2>1, AmountType
<1>3. ASSUME NEW k \in Sku
      PROVE  OnLine(line(k), k, d)
    <2> DEFINE q == delta[k]
               bin == <<k, doc.house>>
    <2>1. /\ bin \in Bin /\ q \in Int
          /\ \A w \in Warehouse : <<k, w>> \in Bin /\ <<k, w>>[1] = k /\ <<k, w>>[2] = w
        BY <1>1 DEF Bin
    <2>2. \A w \in Warehouse \ {doc.house} : d[<<k, w>>] = Book!Zero
        BY <2>1, ZeroAmount DEF TakingEffect
    <2>3. d[bin] = Amount(q, 0)
        BY <1>1, <2>1 DEF TakingEffect
    <2>4. CASE q = 0
        <3>1. \A w \in Warehouse : d[<<k, w>>] = Book!Zero
            BY <2>2, <2>3, <2>4, ZeroAmount
        <3>2. line(k) = <<>>
            BY <2>4
        <3> HIDE DEF line, d
        <3> QED
            BY <3>1, <3>2, NoLegs
    <2>5. CASE q # 0
        <3>1. line(k) = <<Ensure(bin), CancelSource(bin, q)>>
            BY <2>5 DEF Adjust, AdjustMove, CancelSource
        <3> HIDE DEF line, d
        <3> DEFINE one == Ensure(bin)
                   two == CancelSource(bin, q)
        <3>4. /\ one \in AnyLeg /\ two \in AnyLeg /\ ~Moves(one) /\ one.bin = bin
              /\ two.bin = bin /\ AmountOf(two) = d[bin]
            BY <2>1, <2>3, LegTypes DEF Amount
        <3> HIDE DEF one, two
        <3>5. OnLine(<<one, two>>, k, d)
            BY <1>1, <2>1, <2>2, <3>4, TwoLegs
        <3> QED
            BY <3>1, <3>5 DEF one, two
    <2> QED
        BY <2>4, <2>5
<1> DEFINE legs == [k \in Sku |-> line(k)]
<1>4. TakingLegs(doc, delta) = Lines(legs)
    BY DEF TakingLegs
<1>5. \A k \in Sku : OnLine(legs[k], k, d)
    <2> HIDE DEF line, d
    <2> QED
        BY <1>3
<1>6. d \in [Bin -> Book!Amount]
    BY <1>2 DEF TakingEffect
<1> HIDE DEF legs, d
<1>7. Planned(Lines(legs), d)
    BY <1>5, LinesPlanned
<1> QED
    BY <1>4, <1>6, <1>7 DEF d

\* A taking that is cancelled has no legs (cancel_taking).
LEMMA NonePlanned ==
    ASSUME NEW doc
    PROVE  /\ TakingEffect(doc, NoDelta) \in [Bin -> Book!Amount]
           /\ Planned(<<>>, TakingEffect(doc, NoDelta))
<1>1. \A b \in Bin : TakingEffect(doc, NoDelta)[b] = Book!Zero
    BY BinType, ZeroAmount DEF TakingEffect, NoDelta
<1>2. TakingEffect(doc, NoDelta) \in [Bin -> Book!Amount]
    BY <1>1 DEF TakingEffect, Book!Amount, Book!Zero
<1> QED
    BY <1>1, <1>2 DEF Planned, Once

\* An adjustment moves its own bin and nothing in transit (_adjust_deltas).
LEMMA AdjustPlanned ==
    ASSUME NEW b \in Bin, NEW kind \in AdjustKind, NEW q \in Int
    PROVE  \E d \in [Bin -> Book!Amount] :
              /\ Planned(Adjust(b, kind, q), d)
              /\ \A c \in Bin : d[c].transit = 0 /\ (c # b => d[c].avail = 0)
<1> DEFINE move == AdjustMove(b, kind, q)
           d == [c \in Bin |-> IF c = b THEN AmountOf(move) ELSE Book!Zero]
           p == <<Ensure(b), move>>
<1>1. move \in AnyLeg /\ move.bin = b /\ move.transit = 0
    <2> DEFINE e == Ensure(b)
    <2>1. e \in AnyLeg /\ e.bin = b /\ e.transit = 0 /\ e.avail = 0
        BY LegTypes DEF Ensure
    <2> HIDE DEF e
    <2>2. move \in {[e EXCEPT !.avail = q], [e EXCEPT !.avail = -q],
                    [e EXCEPT !.avail = -q, !.defect = q]}
        BY DEF AdjustMove, AdjustKind, e
    <2> DEFINE less == [e EXCEPT !.avail = -q]
    <2>3. /\ less \in AnyLeg /\ less.bin = b /\ less.transit = 0
          /\ [e EXCEPT !.avail = -q, !.defect = q] = [less EXCEPT !.defect = q]
        BY <2>1 DEF AnyLeg
    <2> HIDE DEF less
    <2>4. LET lost == [less EXCEPT !.defect = q]
          IN  lost \in AnyLeg /\ lost.bin = b /\ lost.transit = 0
        BY <2>3 DEF AnyLeg
    <2>5. LET more == [e EXCEPT !.avail = q]
          IN  more \in AnyLeg /\ more.bin = b /\ more.transit = 0
        BY <2>1 DEF AnyLeg
    <2> QED
        BY <2>2, <2>3, <2>4, <2>5 DEF less
<1>2. AmountOf(move) \in Book!Amount /\ AmountOf(move).transit = 0
    BY <1>1 DEF AnyLeg, AmountOf, Book!Amount
<1>3. /\ d \in [Bin -> Book!Amount] /\ d[b] = AmountOf(move)
      /\ \A c \in Bin : c # b => d[c] = Book!Zero
    BY <1>2 DEF Book!Amount, Book!Zero
<1>4. p \in Seq(AnyLeg) /\ Len(p) = 2 /\ p[1] = Ensure(b) /\ p[2] = move
    BY <1>1, LegTypes
<1>5. ~Moves(Ensure(b))
    BY LegTypes
<1> HIDE DEF move, d, p
<1>6. \A i \in 1..Len(p) : i = 1 \/ i = 2
    BY <1>4
<1>7. Once(p)
    BY <1>4, <1>5, <1>6 DEF Once
<1>8. \A i \in 1..Len(p) : Moves(p[i]) => AmountOf(p[i]) = d[p[i].bin]
    BY <1>1, <1>3, <1>4, <1>5, <1>6
<1>9. ASSUME NEW c \in Bin, d[c] # Book!Zero
      PROVE  Moved(p, Len(p), c)
    <2>1. c = b /\ Moves(move) /\ 2 \in 1..Len(p)
        BY <1>3, <1>4, <1>9 DEF Moves
    <2> QED
        BY <1>1, <1>4, <2>1 DEF Moved
<1>10. Planned(p, d)
    BY <1>4, <1>7, <1>8, <1>9 DEF Planned
<1>11. \A c \in Bin : d[c].transit = 0 /\ (c # b => d[c].avail = 0)
    BY <1>2, <1>3 DEF Book!Zero
<1>12. Adjust(b, kind, q) = p
    BY DEF Adjust, p, move
<1> QED
    BY <1>3, <1>10, <1>11, <1>12

-----------------------------------------------------------------------------
(* The inductive invariant.                                                 *)

Documented == TransferOps \cup TakingOps

\* The request has moved the status of its document, or is a direct adjustment.
Acting(s) == job[s].stage \in {"claimed", "viewed"}

\* What the request is about to do, all in all.
Fits(s, d) ==
    /\ job[s].op \in TransferOps => d = TransferEffect(job[s].op, job[s].was, slip[job[s].on])
    /\ job[s].op \in TakingOps => d = TakingEffect(sheet[job[s].on], job[s].delta)
    /\ job[s].op = "adjust" =>
          \A b \in Bin : d[b].transit = 0 /\ (b # job[s].on => d[b].avail = 0)

\* The cart holds what the legs before the next one move.
CartTells(s, d) ==
    \A b \in Bin : cart[s][b] = IF Moved(plan[s], pos[s] - 1, b) THEN d[b] ELSE Book!Zero

\* A request that acts found the status that it had read, and works off a plan for all of it.
ActingInv(s) ==
    /\ job[s].op \in TransferOps => slip[job[s].on].status = job[s].was
    /\ job[s].op \in TakingOps => sheet[job[s].on].status = "DRAFT"
    /\ job[s].stage = "viewed" => Drafted(s)
    /\ \E d \in [Bin -> Book!Amount] : Fits(s, d) /\ Planned(plan[s], d) /\ CartTells(s, d)

RestingInv(s) == plan[s] = <<>> /\ pos[s] = 1 /\ cart[s] = Book!EmptyCart

WasRead ==
    [ship |-> {"DRAFT"}, receive |-> {"IN_TRANSIT"}, cancel |-> {"DRAFT", "IN_TRANSIT"}]

\* The document of a request is there.
JobInv(s) ==
    /\ job[s].op \in TransferOps =>
          /\ job[s].on \in Transfer /\ slip[job[s].on] # None
          /\ job[s].was \in WasRead[job[s].op]
    /\ job[s].op \in TakingOps \cup {"count"} =>
          job[s].on \in Taking /\ sheet[job[s].on] # None /\ job[s].was = "DRAFT"
    /\ job[s].op = "void" => job[s].delta = NoDelta
    /\ job[s].op = "adjust" => job[s].on \in Bin
    /\ job[s].op = "delete" => job[s].on \in Warehouse
    /\ job[s].op \in {"none", "count", "delete"} => ~Acting(s)
    /\ job[s].stage = "idle" => job[s] = Idle

SessionInv(s) ==
    /\ pos[s] \in 1..(Len(plan[s]) + 1)
    /\ JobInv(s)
    /\ IF Acting(s) THEN ActingInv(s) ELSE RestingInv(s)

\* No two requests act on one document.
Alone(s, u) ==
    /\ Acting(s) /\ job[s].op \in Documented
    /\ Acting(u) /\ job[u].op \in Documented
    => job[s].on # job[u].on

\* A transfer leads elsewhere, and only a posted taking has posted something.
DocumentInv ==
    /\ \A t \in Transfer : slip[t] # None => slip[t].from # slip[t].to
    /\ \A g \in Taking : sheet[g] # None /\ sheet[g].status = "DRAFT" => sheet[g].posted = NoDelta

StockInv ==
    /\ \A b \in Bin : Book!InBounds(book[b])
    /\ cart \in [Session -> [Bin -> Book!Amount]]
    /\ plan \in [Session -> Seq(AnyLeg)]
    /\ pos \in [Session -> Nat]

IndInv ==
    /\ TypeOK
    /\ StockInv
    /\ DocumentInv
    /\ \A s \in Session : SessionInv(s)
    /\ \A s \in Session : \A u \in Session \ {s} : Alone(s, u)
    /\ DocumentsExplainStock

-----------------------------------------------------------------------------
(* What a step of one session leaves alone.                                 *)

\* The documents leave the request u as it was.
Undisturbed(u) ==
    /\ job[u].op \in TransferOps =>
          \/ slip'[job[u].on] = slip[job[u].on]
          \/ ~Acting(u) /\ slip'[job[u].on] # None
    /\ job[u].op \in TakingOps \cup {"count"} =>
          /\ sheet'[job[u].on] # None
          /\ Acting(u) => /\ sheet'[job[u].on].house = sheet[job[u].on].house
                          /\ sheet'[job[u].on].status = sheet[job[u].on].status

\* So it may go on (every action of another session).
LEMMA OtherGoesOn ==
    ASSUME NEW u \in Session, SessionInv(u), Undisturbed(u),
           UNCHANGED <<job[u], cart[u], plan[u], pos[u]>>
    PROVE  SessionInv(u)'
<1>1. Acting(u)' = Acting(u)
    BY DEF Acting
<1>2. JobInv(u)'
    BY DEF SessionInv, JobInv, Undisturbed, Acting
<1>3. CASE ~Acting(u)
    BY <1>1, <1>2, <1>3 DEF SessionInv, RestingInv, Book!EmptyCart
<1>4. CASE Acting(u)
    <2>1. PICK d \in [Bin -> Book!Amount] :
              Fits(u, d) /\ Planned(plan[u], d) /\ CartTells(u, d)
        BY <1>4 DEF SessionInv, ActingInv
    <2>2. CartTells(u, d)' /\ Planned(plan[u], d)'
        BY <2>1 DEF CartTells, Moved, Planned, Once
    <2>3. Fits(u, d)'
        <3>1. job[u].op \in TransferOps =>
                  d = TransferEffect(job[u].op, job[u].was, slip'[job[u].on])
            BY <1>4, <2>1 DEF Fits, Undisturbed
        <3>2. ASSUME job[u].op \in TakingOps
              PROVE  d = TakingEffect(sheet'[job[u].on], job[u].delta)
            <4>1. sheet'[job[u].on].house = sheet[job[u].on].house
                BY <1>4, <3>2 DEF Undisturbed
            <4>2. d = TakingEffect(sheet[job[u].on], job[u].delta)
                BY <2>1, <3>2 DEF Fits
            <4> QED
                BY <4>1, <4>2 DEF TakingEffect
        <3> QED
            BY <2>1, <3>1, <3>2 DEF Fits
    <2>4. /\ job[u].op \in TransferOps => slip'[job[u].on].status = job[u].was
          /\ job[u].op \in TakingOps => sheet'[job[u].on].status = "DRAFT"
          /\ job[u].stage = "viewed" => Drafted(u)'
        BY <1>4 DEF SessionInv, ActingInv, Undisturbed, Drafted
    <2>5. ActingInv(u)'
        BY <2>1, <2>2, <2>3, <2>4 DEF ActingInv
    <2> QED
        BY <1>1, <1>2, <1>4, <2>5 DEF SessionInv
<1> QED
    BY <1>3, <1>4

\* The job of one session changes.
LEMMA OneJob ==
    ASSUME TypeOK, NEW s \in Session, NEW J \in Job, job' = [job EXCEPT ![s] = J]
    PROVE  /\ job' \in [Session -> Job] /\ job'[s] = J
           /\ \A u \in Session \ {s} : job'[u] = job[u]
BY DEF TypeOK

\* Requests that do not act are in nobody's way.
LEMMA AloneWith ==
    ASSUME IndInv, NEW s \in Session,
           \A u \in Session \ {s} : job'[u] = job[u],
           Acting(s)' /\ job'[s].op \in Documented =>
              \A u \in Session \ {s} : Acting(u) /\ job[u].op \in Documented
                                       => job[u].on # job'[s].on
    PROVE  (\A u \in Session : \A v \in Session \ {u} : Alone(u, v))'
<1> SUFFICES ASSUME NEW u \in Session, NEW v \in Session \ {u}
             PROVE  Alone(u, v)'
    OBVIOUS
<1>1. \A w \in Session \ {s} : Acting(w)' = Acting(w) /\ job'[w] = job[w]
    BY DEF Acting
<1>2. CASE u # s /\ v # s
    BY <1>1, <1>2 DEF IndInv, Alone
<1>3. CASE u = s
    BY <1>1, <1>3 DEF Alone
<1>4. CASE v = s
    BY <1>1, <1>4 DEF Alone
<1> QED
    BY <1>2, <1>3, <1>4

\* Nothing that the documents or the stock say has changed.
LEMMA SameStock ==
    ASSUME DocumentsExplainStock, UNCHANGED <<book, slip, sheet, adjusted>>
    PROVE  DocumentsExplainStock'
<1> SUFFICES ASSUME NEW k \in Sku, NEW w \in Warehouse
             PROVE  /\ OnTheWay(k, w)' = OnTheWay(k, w) /\ SentOff(k, w)' = SentOff(k, w)
                    /\ Arrived(k, w)' = Arrived(k, w) /\ Found(k, w)' = Found(k, w)
    BY DEF DocumentsExplainStock
<1>1. OnTheWay(k, w)' = OnTheWay(k, w)
    BY DEF OnTheWay, Moving, InTransit
<1>2. SentOff(k, w)' = SentOff(k, w) /\ Arrived(k, w)' = Arrived(k, w)
    BY DEF SentOff, Arrived, Moving, InTransit, Received
<1>3. Found(k, w)' = Found(k, w)
    BY DEF Found
<1> QED
    BY <1>1, <1>2, <1>3

\* An idle job is one (Idle).
LEMMA IdleType ==
    /\ NoDelta \in [Sku -> Int] /\ \A k \in Sku : NoDelta[k] = 0
    /\ Idle \in Job /\ Idle.stage = "idle" /\ Idle.op = "none"
BY DEF Idle, Job, NoDelta

\* A request that does not act and will not act yet is in nobody's way (get_transfer,
\* create_transfer, record_counts).
LEMMA QuietStep ==
    ASSUME IndInv, NEW s \in Session, NEW J \in Job, ~Acting(s),
           job' = [job EXCEPT ![s] = J], UNCHANGED stock,
           JobInv(s)', J.stage \in {"idle", "read"},
           TypeOK', DocumentInv', DocumentsExplainStock',
           \A u \in Session \ {s} : Undisturbed(u)
    PROVE  IndInv'
<1>1. job' \in [Session -> Job] /\ job'[s] = J /\ \A u \in Session \ {s} : job'[u] = job[u]
    BY OneJob DEF IndInv
<1>2. UNCHANGED <<book, cart, plan, pos>>
    BY DEF stock
<1>3. StockInv'
    BY <1>2 DEF IndInv, StockInv
<1>4. \A u \in Session : SessionInv(u)'
    <2>1. ~Acting(s)'
        BY <1>1 DEF Acting
    <2>2. SessionInv(s)'
        BY <1>2, <2>1 DEF IndInv, SessionInv, RestingInv, Book!EmptyCart
    <2>3. ASSUME NEW u \in Session \ {s}
          PROVE  SessionInv(u)'
        BY <1>1, <1>2, OtherGoesOn DEF IndInv
    <2> QED
        BY <2>2, <2>3
<1>5. (\A u \in Session : \A v \in Session \ {u} : Alone(u, v))'
    <2>1. ~Acting(s)'
        BY <1>1 DEF Acting
    <2> QED
        BY <1>1, <2>1, AloneWith
<1> QED
    BY <1>3, <1>4, <1>5 DEF IndInv

\* Documents that stay as they are disturb nobody (get_transfer).
LEMMA SameDocuments ==
    ASSUME IndInv, UNCHANGED <<slip, sheet>>
    PROVE  \A u \in Session : Undisturbed(u)
<1> SUFFICES ASSUME NEW u \in Session
             PROVE  Undisturbed(u)
    OBVIOUS
<1>1. SessionInv(u)
    BY DEF IndInv
<1> QED
    BY <1>1 DEF Undisturbed, SessionInv, JobInv

(***************************************************************************)
(* A request begins by reading, or ends without having acted               *)
(* (get_transfer, get_taking; TransferStateError).                         *)
(***************************************************************************)
LEMMA PassiveStep ==
    ASSUME IndInv, NEW s \in Session, NEW J \in Job, ~Acting(s),
           job' = [job EXCEPT ![s] = J], UNCHANGED <<stock, docs>>,
           JobInv(s)', J.stage \in {"idle", "read"}
    PROVE  IndInv'
<1>1. job' \in [Session -> Job]
    BY OneJob DEF IndInv
<1>2. UNCHANGED <<book, slip, sheet, gone, adjusted>>
    BY DEF stock, docs
<1>3. TypeOK' /\ DocumentInv'
    BY <1>1, <1>2 DEF IndInv, TypeOK, DocumentInv
<1>4. \A u \in Session \ {s} : Undisturbed(u)
    BY <1>2, SameDocuments
<1>5. DocumentsExplainStock'
    BY <1>2, SameStock DEF IndInv
<1> QED
    BY <1>3, <1>4, <1>5, QuietStep

-----------------------------------------------------------------------------
(* What one document adds to the sums.                                      *)

Way(doc, k, w) ==
    IF doc # None /\ doc.status = "IN_TRANSIT" /\ doc.to = w THEN doc.qty[k] ELSE 0

Off(doc, k, w) ==
    IF doc # None /\ doc.status \in {"IN_TRANSIT", "RECEIVED"} /\ doc.from = w
    THEN doc.qty[k] ELSE 0

In(doc, k, w) ==
    IF doc # None /\ doc.status = "RECEIVED" /\ doc.to = w THEN doc.qty[k] ELSE 0

Wrote(doc, k, w) == IF doc # None /\ doc.house = w THEN doc.posted[k] ELSE 0

\* Every document adds a number (transfer_items, inventory_flows).
LEMMA ShareType ==
    ASSUME NEW k \in Sku, NEW w
    PROVE  /\ \A doc \in Slip \cup {None} :
                 Way(doc, k, w) \in Nat /\ Off(doc, k, w) \in Nat /\ In(doc, k, w) \in Nat
           /\ \A doc \in Sheet \cup {None} : Wrote(doc, k, w) \in Int
<1>1. \A doc \in Slip : doc.qty[k] \in Nat
    BY DEF Slip
<1>2. \A doc \in Sheet : doc.posted[k] \in Int
    BY DEF Sheet
<1> QED
    BY <1>1, <1>2 DEF Way, Off, In, Wrote

\* One transfer changes (create_transfer, transition).
LEMMA SlipChange ==
    ASSUME TypeOK, NEW t \in Transfer, NEW new \in Slip, slip' = [slip EXCEPT ![t] = new],
           NEW k \in Sku, NEW w
    PROVE  /\ OnTheWay(k, w)' = OnTheWay(k, w) + Way(new, k, w) - Way(slip[t], k, w)
           /\ SentOff(k, w)' = SentOff(k, w) + Off(new, k, w) - Off(slip[t], k, w)
           /\ Arrived(k, w)' = Arrived(k, w) + In(new, k, w) - In(slip[t], k, w)
<1> DEFINE way == [u \in Transfer |-> Way(slip[u], k, w)]
           off == [u \in Transfer |-> Off(slip[u], k, w)]
           in == [u \in Transfer |-> In(slip[u], k, w)]
           way2 == [u \in Transfer |-> Way(slip'[u], k, w)]
           off2 == [u \in Transfer |-> Off(slip'[u], k, w)]
           in2 == [u \in Transfer |-> In(slip'[u], k, w)]
<1>1. /\ slip \in [Transfer -> Slip \cup {None}] /\ slip' \in [Transfer -> Slip \cup {None}]
      /\ slip'[t] = new /\ \A u \in Transfer \ {t} : slip'[u] = slip[u]
    BY DEF TypeOK
<1>2. /\ OnTheWay(k, w) = SumFunctionOnSet(way, Transfer)
      /\ SentOff(k, w) = SumFunctionOnSet(off, Transfer)
      /\ Arrived(k, w) = SumFunctionOnSet(in, Transfer)
    <2>1. /\ way = [x \in Transfer |-> IF x \in {u \in Transfer : InTransit(u) /\ slip[u].to = w}
                                       THEN slip[x].qty[k] ELSE 0]
          /\ off = [x \in Transfer |-> IF x \in {u \in Transfer : (InTransit(u) \/ Received(u))
                                                                  /\ slip[u].from = w}
                                       THEN slip[x].qty[k] ELSE 0]
          /\ in = [x \in Transfer |-> IF x \in {u \in Transfer : Received(u) /\ slip[u].to = w}
                                      THEN slip[x].qty[k] ELSE 0]
        BY DEF Way, Off, In, InTransit, Received
    <2>2. DOMAIN way = Transfer /\ DOMAIN off = Transfer /\ DOMAIN in = Transfer
        OBVIOUS
    <2> HIDE DEF way, off, in
    <2> QED
        BY <2>1, <2>2 DEF OnTheWay, SentOff, Arrived, Moving, SumFunction
<1>3. /\ OnTheWay(k, w)' = SumFunctionOnSet(way2, Transfer)
      /\ SentOff(k, w)' = SumFunctionOnSet(off2, Transfer)
      /\ Arrived(k, w)' = SumFunctionOnSet(in2, Transfer)
    <2>1. /\ way2 = [x \in Transfer |-> IF x \in {u \in Transfer : InTransit(u)' /\ slip'[u].to = w}
                                       THEN slip'[x].qty[k] ELSE 0]
          /\ off2 = [x \in Transfer |-> IF x \in {u \in Transfer : (InTransit(u)' \/ Received(u)')
                                                                  /\ slip'[u].from = w}
                                       THEN slip'[x].qty[k] ELSE 0]
          /\ in2 = [x \in Transfer |-> IF x \in {u \in Transfer : Received(u)' /\ slip'[u].to = w}
                                      THEN slip'[x].qty[k] ELSE 0]
        BY DEF Way, Off, In, InTransit, Received
    <2>2. DOMAIN way2 = Transfer /\ DOMAIN off2 = Transfer /\ DOMAIN in2 = Transfer
        OBVIOUS
    <2> HIDE DEF way2, off2, in2
    <2> QED
        BY <2>1, <2>2 DEF OnTheWay, SentOff, Arrived, Moving, SumFunction
<1>4. \A u \in Transfer : /\ way[u] \in Int /\ off[u] \in Int /\ in[u] \in Int
                          /\ way2[u] \in Int /\ off2[u] \in Int /\ in2[u] \in Int
    BY <1>1, ShareType
<1>5. \A u \in Transfer \ {t} : way[u] = way2[u] /\ off[u] = off2[u] /\ in[u] = in2[u]
    BY <1>1
<1>6. /\ way[t] = Way(slip[t], k, w) /\ way2[t] = Way(new, k, w)
      /\ off[t] = Off(slip[t], k, w) /\ off2[t] = Off(new, k, w)
      /\ in[t] = In(slip[t], k, w) /\ in2[t] = In(new, k, w)
    BY <1>1
<1>7. IsFiniteSet(Transfer)
    BY DocumentsAssumption
<1> HIDE DEF way, off, in, way2, off2, in2
<1>20. /\ \A u \in Transfer : way[u] \in Int /\ way2[u] \in Int
       /\ \A u \in Transfer \ {t} : way[u] = way2[u]
    BY <1>4, <1>5
<1>21. /\ \A u \in Transfer : off[u] \in Int /\ off2[u] \in Int
       /\ \A u \in Transfer \ {t} : off[u] = off2[u]
    BY <1>4, <1>5
<1>22. /\ \A u \in Transfer : in[u] \in Int /\ in2[u] \in Int
       /\ \A u \in Transfer \ {t} : in[u] = in2[u]
    BY <1>4, <1>5
<1>8. SumFunctionOnSet(way2, Transfer) = SumFunctionOnSet(way, Transfer) + way2[t] - way[t]
    BY <1>7, <1>20, SumChange
<1>9. SumFunctionOnSet(off2, Transfer) = SumFunctionOnSet(off, Transfer) + off2[t] - off[t]
    BY <1>7, <1>21, SumChange
<1>10. SumFunctionOnSet(in2, Transfer) = SumFunctionOnSet(in, Transfer) + in2[t] - in[t]
    BY <1>7, <1>22, SumChange
<1> QED
    BY <1>2, <1>3, <1>6, <1>8, <1>9, <1>10

\* One taking changes (create_taking, record_counts, post_taking).
LEMMA SheetChange ==
    ASSUME TypeOK, NEW g \in Taking, NEW new \in Sheet, sheet' = [sheet EXCEPT ![g] = new],
           NEW k \in Sku, NEW w
    PROVE  Found(k, w)' = Found(k, w) + Wrote(new, k, w) - Wrote(sheet[g], k, w)
<1> DEFINE wrote == [u \in Taking |-> Wrote(sheet[u], k, w)]
           wrote2 == [u \in Taking |-> Wrote(sheet'[u], k, w)]
<1>1. /\ sheet \in [Taking -> Sheet \cup {None}] /\ sheet' \in [Taking -> Sheet \cup {None}]
      /\ sheet'[g] = new /\ \A u \in Taking \ {g} : sheet'[u] = sheet[u]
    BY DEF TypeOK
<1>2. DOMAIN wrote = Taking /\ DOMAIN wrote2 = Taking
    OBVIOUS
<1>3. Found(k, w) = SumFunction(wrote) /\ Found(k, w)' = SumFunction(wrote2)
    BY DEF Found, Wrote
<1>4. \A u \in Taking : wrote[u] \in Int /\ wrote2[u] \in Int
    BY <1>1, ShareType
<1>5. \A u \in Taking \ {g} : wrote[u] = wrote2[u]
    BY <1>1
<1>6. wrote[g] = Wrote(sheet[g], k, w) /\ wrote2[g] = Wrote(new, k, w)
    BY <1>1
<1>7. IsFiniteSet(Taking)
    BY DocumentsAssumption
<1> HIDE DEF wrote, wrote2
<1>8. SumFunctionOnSet(wrote2, Taking) = SumFunctionOnSet(wrote, Taking) + wrote2[g] - wrote[g]
    BY <1>4, <1>5, <1>7, SumChange
<1> QED
    BY <1>2, <1>3, <1>6, <1>8 DEF SumFunction

\* The sums are numbers, and no transfer in transit carries more than all of them.
LEMMA SumTypes ==
    ASSUME TypeOK, NEW k \in Sku, NEW w
    PROVE  /\ OnTheWay(k, w) \in Int /\ SentOff(k, w) \in Int /\ Arrived(k, w) \in Int
           /\ Found(k, w) \in Int
           /\ \A t \in Transfer : Way(slip[t], k, w) <= OnTheWay(k, w)
<1> DEFINE way == [u \in Transfer |-> Way(slip[u], k, w)]
           off == [u \in Transfer |-> Off(slip[u], k, w)]
           in == [u \in Transfer |-> In(slip[u], k, w)]
           wrote == [u \in Taking |-> Wrote(sheet[u], k, w)]
<1>1. /\ slip \in [Transfer -> Slip \cup {None}] /\ sheet \in [Taking -> Sheet \cup {None}]
      /\ IsFiniteSet(Transfer) /\ IsFiniteSet(Taking)
    BY DocumentsAssumption DEF TypeOK
<1>2. /\ OnTheWay(k, w) = SumFunctionOnSet(way, Transfer)
      /\ SentOff(k, w) = SumFunctionOnSet(off, Transfer)
      /\ Arrived(k, w) = SumFunctionOnSet(in, Transfer)
    <2>1. /\ way = [t \in Transfer |-> IF t \in {u \in Transfer : InTransit(u) /\ slip[u].to = w}
                                       THEN slip[t].qty[k] ELSE 0]
          /\ off = [t \in Transfer |-> IF t \in {u \in Transfer : (InTransit(u) \/ Received(u))
                                                                  /\ slip[u].from = w}
                                       THEN slip[t].qty[k] ELSE 0]
          /\ in = [t \in Transfer |-> IF t \in {u \in Transfer : Received(u) /\ slip[u].to = w}
                                      THEN slip[t].qty[k] ELSE 0]
        BY DEF Way, Off, In, InTransit, Received
    <2>2. DOMAIN way = Transfer /\ DOMAIN off = Transfer /\ DOMAIN in = Transfer
        OBVIOUS
    <2> HIDE DEF way, off, in
    <2> QED
        BY <2>1, <2>2 DEF OnTheWay, SentOff, Arrived, Moving, SumFunction
<1>3. DOMAIN wrote = Taking /\ Found(k, w) = SumFunction(wrote)
    BY DEF Found, Wrote
<1>4. /\ \A u \in Transfer : way[u] \in Nat /\ off[u] \in Nat /\ in[u] \in Nat
      /\ \A u \in Taking : wrote[u] \in Int
    BY <1>1, ShareType
<1>5. ASSUME NEW t \in Transfer
      PROVE  Way(slip[t], k, w) <= OnTheWay(k, w)
    <2> DEFINE rest == [u \in Transfer |-> IF u = t THEN 0 ELSE way[u]]
    <2>1. /\ way[t] = Way(slip[t], k, w) /\ rest[t] = 0
          /\ \A u \in Transfer : rest[u] \in Nat /\ way[u] \in Int /\ rest[u] \in Int
          /\ \A u \in Transfer \ {t} : rest[u] = way[u]
        BY <1>4
    <2> DEFINE none == [u \in Transfer |-> 0]
    <2>2. \A u \in Transfer : none[u] = 0 /\ none[u] \in Int /\ none[u] <= rest[u]
        BY <2>1
    <2> HIDE DEF way, rest, none
    <2>7. /\ \A u \in Transfer : rest[u] \in Int /\ way[u] \in Int
          /\ \A u \in Transfer \ {t} : rest[u] = way[u]
        BY <2>1
    <2>3. SumFunctionOnSet(way, Transfer) = SumFunctionOnSet(rest, Transfer) + way[t] - rest[t]
        BY <1>1, <2>7, SumChange
    <2>4. SumFunctionOnSet(none, Transfer) = 0
        BY <1>1, <2>2, SumZero
    <2>5. SumFunctionOnSet(none, Transfer) <= SumFunctionOnSet(rest, Transfer)
        BY <1>1, <2>1, <2>2, SumMonotone
    <2>6. SumFunctionOnSet(rest, Transfer) \in Int
        BY <1>1, <2>1, SumType
    <2> QED
        BY <1>2, <2>1, <2>3, <2>4, <2>5, <2>6
<1> HIDE DEF way, off, in, wrote
<1>6. /\ SumFunctionOnSet(way, Transfer) \in Int /\ SumFunctionOnSet(off, Transfer) \in Int
      /\ SumFunctionOnSet(in, Transfer) \in Int /\ SumFunctionOnSet(wrote, Taking) \in Int
    BY <1>1, <1>4, SumType
<1> QED
    BY <1>2, <1>3, <1>5, <1>6 DEF SumFunction

-----------------------------------------------------------------------------
(* Requests that do not act.                                                *)

\* What the invariant says of the state, in the form the steps need.
LEMMA Facts ==
    ASSUME IndInv
    PROVE  /\ book \in [Bin -> Book!Amount] /\ \A b \in Bin : Book!InBounds(book[b])
           /\ slip \in [Transfer -> Slip \cup {None}] /\ sheet \in [Taking -> Sheet \cup {None}]
           /\ gone \subseteq Warehouse /\ adjusted \in [Bin -> Int] /\ job \in [Session -> Job]
           /\ cart \in [Session -> [Bin -> Book!Amount]] /\ plan \in [Session -> Seq(AnyLeg)]
           /\ pos \in [Session -> Nat]
           /\ None \notin Nat /\ None \notin Slip /\ None \notin Sheet
           /\ \A s \in Session : SessionInv(s) /\ JobInv(s)
BY AbsentAssumption DEF IndInv, TypeOK, StockInv, SessionInv

\* Stock and sums that stay as they are (create_transfer, create_taking, record_counts).
LEMMA SumsStay ==
    ASSUME IndInv, UNCHANGED <<book, adjusted>>,
           \A k \in Sku, w \in Warehouse :
              /\ OnTheWay(k, w)' = OnTheWay(k, w) /\ SentOff(k, w)' = SentOff(k, w)
              /\ Arrived(k, w)' = Arrived(k, w) /\ Found(k, w)' = Found(k, w)
    PROVE  DocumentsExplainStock'
<1>1. DocumentsExplainStock
    BY DEF IndInv
<1> QED
    BY <1>1 DEF DocumentsExplainStock

\* A job that reads a document is one (get_transfer, get_taking).
LEMMA ReadStep ==
    ASSUME IndInv, NEW s \in Session, NEW op, NEW doc, NEW status, NEW delta,
           Read(s, op, doc, status, delta),
           LET J == [op |-> op, on |-> doc, stage |-> "read", was |-> status, delta |-> delta]
           IN  J \in Job,
           op \in TransferOps => doc \in Transfer /\ slip[doc] # None /\ status \in WasRead[op],
           op \in TakingOps \cup {"count"} =>
              doc \in Taking /\ sheet[doc] # None /\ status = "DRAFT",
           op = "void" => delta = NoDelta,
           op = "delete" => doc \in Warehouse,
           op \in Documented \cup {"count", "delete"}
    PROVE  IndInv'
<1> DEFINE J == [op |-> op, on |-> doc, stage |-> "read", was |-> status, delta |-> delta]
<1>1. /\ J \in Job /\ J.op = op /\ J.on = doc /\ J.stage = "read" /\ J.was = status
      /\ J.delta = delta /\ job' = [job EXCEPT ![s] = J]
    BY DEF Read
<1> HIDE DEF J
<1>2. ~Acting(s) /\ UNCHANGED <<stock, docs>>
    BY DEF Read, Free, Acting
<1>3. job'[s] = J
    BY <1>1, OneJob DEF IndInv
<1>4. slip' = slip /\ sheet' = sheet
    BY <1>2 DEF docs
<1>5. op # "adjust"
    BY DEF Documented, TransferOps, TakingOps
<1>6. JobInv(s)'
    BY <1>1, <1>3, <1>4, <1>5 DEF JobInv, Acting
<1> QED
    BY <1>1, <1>2, <1>6, PassiveStep

\* get_transfer, before one of the three requests on it.
LEMMA ReadTransferStep ==
    ASSUME IndInv, NEW s \in Session, NEW t \in Transfer, NEW op \in TransferOps,
           ReadTransfer(s, op, t)
    PROVE  IndInv'
<1>1. slip[t] # None /\ slip[t].status \in WasRead[op]
    BY DEF ReadTransfer, WasRead, TransferOps
<1>2. slip[t].status \in {"DRAFT", "IN_TRANSIT"}
    BY <1>1 DEF WasRead, TransferOps
<1>3. [op |-> op, on |-> t, stage |-> "read", was |-> slip[t].status, delta |-> NoDelta] \in Job
    BY <1>2, IdleType DEF Job
<1>4. op \notin TakingOps \cup {"count"} /\ op # "void" /\ op # "delete"
    BY DEF TransferOps, TakingOps
<1>5. Read(s, op, t, slip[t].status, NoDelta)
    BY DEF ReadTransfer
<1> QED
    BY <1>1, <1>3, <1>4, <1>5, ReadStep DEF Documented

\* record_counts reads the taking.
LEMMA ReadForCountStep ==
    ASSUME IndInv, NEW s \in Session, NEW g \in Taking, ReadForCount(s, g)
    PROVE  IndInv'
<1>1. [op |-> "count", on |-> g, stage |-> "read", was |-> "DRAFT", delta |-> NoDelta] \in Job
    BY IdleType DEF Job
<1>2. "count" \notin TransferOps
    BY DEF TransferOps
<1>3. Read(s, "count", g, "DRAFT", NoDelta) /\ sheet[g] # None
    BY DEF ReadForCount
<1> QED
    BY <1>1, <1>2, <1>3, ReadStep

\* post_taking reads the taking, its lines and the balances.
LEMMA ReadForPostStep ==
    ASSUME IndInv, NEW s \in Session, NEW g \in Taking, ReadForPost(s, g)
    PROVE  IndInv'
<1> DEFINE delta == TakingDelta(sheet[g])
<1>1. sheet[g] \in Sheet /\ sheet[g] # None
    BY Facts DEF ReadForPost
<1>2. delta \in [Sku -> Int]
    <2>1. ASSUME NEW k \in Counted(sheet[g])
          PROVE  sheet[g].counted[k] - sheet[g].frozen[k] \in Int
        <3>1. k \in Sku /\ sheet[g].frozen[k] # None /\ sheet[g].counted[k] # None
            BY DEF Counted, ReadForPost
        <3>2. sheet[g].frozen[k] \in Nat /\ sheet[g].counted[k] \in Nat
            BY <1>1, <3>1 DEF Sheet
        <3> QED
            BY <3>2
    <2> QED
        BY <2>1 DEF TakingDelta
<1> HIDE DEF delta
<1>3. [op |-> "post", on |-> g, stage |-> "read", was |-> "DRAFT", delta |-> delta] \in Job
    BY <1>2 DEF Job, TakingOps
<1>4. "post" \notin TransferOps /\ "post" \in TakingOps
    BY DEF TransferOps, TakingOps
<1>5. Read(s, "post", g, "DRAFT", delta)
    BY DEF ReadForPost, delta
<1> QED
    BY <1>1, <1>3, <1>4, <1>5, ReadStep DEF Documented

\* cancel_taking reads the taking.
LEMMA ReadForVoidStep ==
    ASSUME IndInv, NEW s \in Session, NEW g \in Taking, ReadForVoid(s, g)
    PROVE  IndInv'
<1>1. [op |-> "void", on |-> g, stage |-> "read", was |-> "DRAFT", delta |-> NoDelta] \in Job
    BY IdleType DEF Job, TakingOps
<1>2. "void" \notin TransferOps /\ "void" \in TakingOps
    BY DEF TransferOps, TakingOps
<1>3. Read(s, "void", g, "DRAFT", NoDelta) /\ sheet[g] # None
    BY DEF ReadForVoid
<1> QED
    BY <1>1, <1>2, <1>3, ReadStep DEF Documented

\* delete_warehouse looks at the balances.
LEMMA ReadForDeleteStep ==
    ASSUME IndInv, NEW s \in Session, NEW w \in Warehouse, ReadForDelete(s, w)
    PROVE  IndInv'
<1>1. [op |-> "delete", on |-> w, stage |-> "read", was |-> "none", delta |-> NoDelta] \in Job
    BY IdleType DEF Job
<1>2. "delete" \notin TransferOps /\ "delete" \notin TakingOps
    BY DEF TransferOps, TakingOps
<1>3. Read(s, "delete", w, "none", NoDelta)
    BY DEF ReadForDelete
<1> QED
    BY <1>1, <1>2, <1>3, ReadStep

\* A session that has nothing to do any more is in order.
LEMMA IdleJob ==
    ASSUME IndInv, NEW s \in Session, job' = [job EXCEPT ![s] = Idle]
    PROVE  JobInv(s)' /\ job'[s] = Idle /\ ~Acting(s)'
<1>1. job'[s] = Idle
    BY OneJob, IdleType DEF IndInv
<1> QED
    BY <1>1, IdleType DEF JobInv, Acting, TransferOps, TakingOps

\* TransferStateError, StockTakingStateError.
LEMMA ClaimLostStep ==
    ASSUME IndInv, NEW s \in Session, ClaimLost(s)
    PROVE  IndInv'
<1>1. ~Acting(s) /\ job' = [job EXCEPT ![s] = Idle] /\ UNCHANGED <<stock, docs>>
    BY DEF ClaimLost, Acting
<1> QED
    BY <1>1, IdleJob, IdleType, PassiveStep

\* create_transfer.
LEMMA CreateTransferStep ==
    ASSUME IndInv, NEW s \in Session, NEW t \in Transfer, CreateTransfer(s, t)
    PROVE  IndInv'
<1>1. PICK from \in Warehouse, to \in Warehouse, qty \in [Sku -> Quantities \cup {0}] :
          /\ from # to
          /\ slip' = [slip EXCEPT ![t] = [status |-> "DRAFT", from |-> from,
                                          to |-> to, qty |-> qty]]
    BY DEF CreateTransfer
<1> DEFINE new == [status |-> "DRAFT", from |-> from, to |-> to, qty |-> qty]
<1>2. new \in Slip /\ new.status = "DRAFT" /\ new.from # new.to
    <2>1. qty \in [Sku -> Nat]
        <3>1. Quantities \cup {0} \subseteq Nat
            BY AmountsAssumption
        <3> QED
            BY <3>1
    <2> QED
        BY <1>1, <2>1 DEF Slip
<1>3. slip' = [slip EXCEPT ![t] = new]
    BY <1>1
<1> HIDE DEF new
<1>4. /\ ~Acting(s) /\ slip[t] = None
      /\ UNCHANGED <<book, cart, plan, pos, sheet, gone, adjusted, job>>
    BY DEF CreateTransfer, Free, Acting, stock
<1>5. /\ slip' \in [Transfer -> Slip \cup {None}] /\ slip'[t] = new
      /\ \A u \in Transfer \ {t} : slip'[u] = slip[u]
    BY <1>2, <1>3, Facts
<1>6. TypeOK' /\ DocumentInv'
    BY <1>2, <1>4, <1>5 DEF IndInv, TypeOK, DocumentInv
<1>7. DocumentsExplainStock'
    <2> SUFFICES ASSUME NEW k \in Sku, NEW w \in Warehouse
                 PROVE  /\ OnTheWay(k, w)' = OnTheWay(k, w) /\ SentOff(k, w)' = SentOff(k, w)
                        /\ Arrived(k, w)' = Arrived(k, w) /\ Found(k, w)' = Found(k, w)
        BY <1>4, SumsStay
    <2>1. /\ Way(new, k, w) = 0 /\ Off(new, k, w) = 0 /\ In(new, k, w) = 0
          /\ Way(slip[t], k, w) = 0 /\ Off(slip[t], k, w) = 0 /\ In(slip[t], k, w) = 0
        BY <1>2, <1>4 DEF Way, Off, In
    <2>2. Found(k, w)' = Found(k, w)
        BY <1>4 DEF Found
    <2>3. TypeOK
        BY DEF IndInv
    <2>4. /\ OnTheWay(k, w)' = OnTheWay(k, w) + Way(new, k, w) - Way(slip[t], k, w)
          /\ SentOff(k, w)' = SentOff(k, w) + Off(new, k, w) - Off(slip[t], k, w)
          /\ Arrived(k, w)' = Arrived(k, w) + In(new, k, w) - In(slip[t], k, w)
        BY <1>2, <1>3, <2>3, SlipChange
    <2>5. OnTheWay(k, w) \in Int /\ SentOff(k, w) \in Int /\ Arrived(k, w) \in Int
        BY <2>3, SumTypes
    <2> QED
        BY <2>1, <2>2, <2>4, <2>5
<1>8. ASSUME NEW u \in Session \ {s}
      PROVE  Undisturbed(u)
    <2>1. JobInv(u) /\ slip[t] = None
        BY <1>4, Facts
    <2> QED
        BY <1>4, <1>5, <2>1 DEF Undisturbed, JobInv
<1>9. job' = [job EXCEPT ![s] = job[s]] /\ job[s] \in Job
    BY <1>4, Facts
<1>10. JobInv(s)' /\ job[s].stage \in {"idle", "read"}
    <2>1. JobInv(s) /\ job[s] = Idle
        BY Facts DEF JobInv, CreateTransfer, Free
    <2> QED
        BY <1>4, <2>1, IdleType DEF JobInv, Acting, TransferOps, TakingOps
<1>11. UNCHANGED stock
    BY <1>4 DEF stock
<1> QED
    BY <1>4, <1>6, <1>7, <1>8, <1>9, <1>10, <1>11, QuietStep

\* create_taking: the amounts are frozen as they are.
LEMMA CreateTakingStep ==
    ASSUME IndInv, NEW s \in Session, NEW g \in Taking, CreateTaking(s, g)
    PROVE  IndInv'
<1>1. PICK w \in Warehouse, rows \in SUBSET Sku \ {{}} :
          sheet' = [sheet EXCEPT ![g] =
               [status |-> "DRAFT", house |-> w,
                frozen |-> [k \in Sku |-> IF k \in rows THEN book[<<k, w>>].avail
                                                        ELSE None],
                counted |-> [k \in Sku |-> None],
                posted |-> NoDelta]]
    BY DEF CreateTaking
<1> DEFINE frozen == [k \in Sku |-> IF k \in rows THEN book[<<k, w>>].avail ELSE None]
           counted == [k \in Sku |-> None]
           new == [status |-> "DRAFT", house |-> w, frozen |-> frozen,
                   counted |-> counted, posted |-> NoDelta]
<1>2. new \in Sheet /\ new.posted = NoDelta /\ new.house = w
    <2>1. \A k \in Sku : book[<<k, w>>].avail \in Nat
        <3> SUFFICES ASSUME NEW k \in Sku
                     PROVE  book[<<k, w>>].avail \in Nat
            OBVIOUS
        <3>1. <<k, w>> \in Bin
            BY DEF Bin
        <3>2. book[<<k, w>>] \in Book!Amount /\ Book!InBounds(book[<<k, w>>])
            BY <3>1, Facts
        <3> QED
            BY <3>2 DEF Book!Amount, Book!InBounds
    <2>2. frozen \in [Sku -> Nat \cup {None}] /\ counted \in [Sku -> Nat \cup {None}]
        BY <2>1
    <2> HIDE DEF frozen, counted
    <2> QED
        BY <2>2, IdleType DEF Sheet
<1>3. sheet' = [sheet EXCEPT ![g] = new]
    BY <1>1
<1> HIDE DEF new
<1>4. /\ ~Acting(s) /\ sheet[g] = None
      /\ UNCHANGED <<book, cart, plan, pos, slip, gone, adjusted, job>>
    BY DEF CreateTaking, Free, Acting, stock
<1>5. /\ sheet' \in [Taking -> Sheet \cup {None}] /\ sheet'[g] = new
      /\ \A u \in Taking \ {g} : sheet'[u] = sheet[u]
    BY <1>2, <1>3, Facts
<1>6. TypeOK' /\ DocumentInv'
    BY <1>2, <1>4, <1>5 DEF IndInv, TypeOK, DocumentInv
<1>7. DocumentsExplainStock'
    <2> SUFFICES ASSUME NEW k \in Sku, NEW v \in Warehouse
                 PROVE  /\ OnTheWay(k, v)' = OnTheWay(k, v) /\ SentOff(k, v)' = SentOff(k, v)
                        /\ Arrived(k, v)' = Arrived(k, v) /\ Found(k, v)' = Found(k, v)
        BY <1>4, SumsStay
    <2>1. OnTheWay(k, v)' = OnTheWay(k, v)
        BY <1>4 DEF OnTheWay, Moving, InTransit
    <2>2. SentOff(k, v)' = SentOff(k, v) /\ Arrived(k, v)' = Arrived(k, v)
        BY <1>4 DEF SentOff, Arrived, Moving, InTransit, Received
    <2>3. Wrote(new, k, v) = 0 /\ Wrote(sheet[g], k, v) = 0
        BY <1>2, <1>4, IdleType DEF Wrote
    <2>4. TypeOK
        BY DEF IndInv
    <2>5. Found(k, v)' = Found(k, v) + Wrote(new, k, v) - Wrote(sheet[g], k, v)
        BY <1>2, <1>3, <2>4, SheetChange
    <2>6. Found(k, v) \in Int
        BY <2>4, SumTypes
    <2> QED
        BY <2>1, <2>2, <2>3, <2>5, <2>6
<1>8. ASSUME NEW u \in Session \ {s}
      PROVE  Undisturbed(u)
    <2>1. JobInv(u) /\ sheet[g] = None
        BY <1>4, Facts
    <2> QED
        BY <1>4, <1>5, <2>1 DEF Undisturbed, JobInv
<1>9. job' = [job EXCEPT ![s] = job[s]] /\ job[s] \in Job
    BY <1>4, Facts
<1>10. JobInv(s)' /\ job[s].stage \in {"idle", "read"}
    <2>1. JobInv(s) /\ job[s] = Idle
        BY Facts DEF JobInv, CreateTaking, Free
    <2> QED
        BY <1>4, <2>1, IdleType DEF JobInv, Acting, TransferOps, TakingOps
<1>11. UNCHANGED stock
    BY <1>4 DEF stock
<1> QED
    BY <1>4, <1>6, <1>7, <1>8, <1>9, <1>10, <1>11, QuietStep

\* record_counts writes the lines: house, status and flows of the taking stay.
LEMMA SaveCountsStep ==
    ASSUME IndInv, NEW s \in Session, SaveCounts(s)
    PROVE  IndInv'
<1> DEFINE g == job[s].on
           doc == sheet[g]
<1>1. JobInv(s) /\ job[s].op = "count"
    BY Facts DEF SaveCounts
<1>2. ~Acting(s) /\ g \in Taking /\ doc # None /\ doc \in Sheet
    BY <1>1, Facts DEF JobInv
<1>3. /\ job' = [job EXCEPT ![s] = Idle]
      /\ UNCHANGED <<book, cart, plan, pos, slip, gone, adjusted>>
    BY DEF SaveCounts, stock
<1>14. PICK rows \in SUBSET Counted(doc) \ {{}} : \E found \in [rows -> Counts] :
          sheet' = [sheet EXCEPT ![g].counted =
                      [k \in Sku |-> IF k \in rows THEN found[k] ELSE @[k]]]
    BY DEF SaveCounts
<1>4. PICK found \in [rows -> Counts] :
          sheet' = [sheet EXCEPT ![g].counted =
                      [k \in Sku |-> IF k \in rows THEN found[k] ELSE @[k]]]
    BY <1>14
<1> DEFINE counted == [k \in Sku |-> IF k \in rows THEN found[k] ELSE doc.counted[k]]
           new == [doc EXCEPT !.counted = counted]
<1>5. counted \in [Sku -> Nat \cup {None}]
    <2>1. rows \subseteq Sku
        BY <1>14 DEF Counted
    <2>2. doc.counted \in [Sku -> Nat \cup {None}]
        BY <1>2 DEF Sheet
    <2>3. Counts \subseteq Nat
        BY AmountsAssumption
    <2>4. DOMAIN found = rows /\ \A k \in rows : found[k] \in Nat
        BY <1>4, <2>3
    <2> HIDE DEF doc
    <2> QED
        BY <2>1, <2>2, <2>4
<1>6. sheet' = [sheet EXCEPT ![g] = new]
    BY <1>2, <1>4, Facts
<1> HIDE DEF counted
<1>7. /\ new \in Sheet /\ new.posted = doc.posted /\ new.house = doc.house
      /\ new.status = doc.status
    BY <1>2, <1>5 DEF Sheet
<1> HIDE DEF new
<1>8. /\ sheet' \in [Taking -> Sheet \cup {None}] /\ sheet'[g] = new /\ new # None
      /\ \A u \in Taking \ {g} : sheet'[u] = sheet[u]
    BY <1>2, <1>6, <1>7, Facts
<1>9. job' \in [Session -> Job]
    BY <1>3, IdleType, Facts
<1>10. TypeOK' /\ DocumentInv'
    BY <1>2, <1>3, <1>7, <1>8, <1>9 DEF IndInv, TypeOK, DocumentInv
<1>11. DocumentsExplainStock'
    <2> SUFFICES ASSUME NEW k \in Sku, NEW v \in Warehouse
                 PROVE  /\ OnTheWay(k, v)' = OnTheWay(k, v) /\ SentOff(k, v)' = SentOff(k, v)
                        /\ Arrived(k, v)' = Arrived(k, v) /\ Found(k, v)' = Found(k, v)
        BY <1>3, SumsStay
    <2>1. OnTheWay(k, v)' = OnTheWay(k, v)
        BY <1>3 DEF OnTheWay, Moving, InTransit
    <2>2. SentOff(k, v)' = SentOff(k, v) /\ Arrived(k, v)' = Arrived(k, v)
        BY <1>3 DEF SentOff, Arrived, Moving, InTransit, Received
    <2>3. Wrote(new, k, v) = Wrote(doc, k, v) /\ Wrote(doc, k, v) \in Int
        BY <1>2, <1>7, <1>8, ShareType DEF Wrote
    <2>4. TypeOK
        BY DEF IndInv
    <2>5. PICK t \in Taking, n \in Sheet : t = g /\ n = new
        BY <1>2, <1>7
    <2> HIDE DEF g
    <2>6. Found(k, v)' = Found(k, v) + Wrote(n, k, v) - Wrote(sheet[t], k, v)
        <3>1. sheet' = [sheet EXCEPT ![t] = n]
            BY <1>6, <2>5
        <3> QED
            BY <2>4, <3>1, SheetChange
    <2>7. Found(k, v) \in Int
        BY <2>4, SumTypes
    <2> QED
        BY <2>1, <2>2, <2>3, <2>5, <2>6, <2>7
<1>12. ASSUME NEW u \in Session \ {s}
       PROVE  Undisturbed(u)
    <2>1. JobInv(u)
        BY Facts
    <2> QED
        BY <1>3, <1>7, <1>8, <2>1 DEF Undisturbed, JobInv
<1>13. UNCHANGED stock
    BY <1>3 DEF stock
<1> QED
    BY <1>2, <1>3, <1>10, <1>11, <1>12, <1>13, IdleJob, IdleType, QuietStep

\* delete_warehouse sets the mark: nothing else depends on it.
LEMMA SaveDeleteStep ==
    ASSUME IndInv, NEW s \in Session, SaveDelete(s)
    PROVE  IndInv'
<1>1. JobInv(s) /\ job[s].op = "delete"
    BY Facts DEF SaveDelete
<1>2. ~Acting(s) /\ job[s].on \in Warehouse
    BY <1>1 DEF JobInv
<1>3. /\ job' = [job EXCEPT ![s] = Idle] /\ gone' = gone \cup {job[s].on}
      /\ UNCHANGED <<book, cart, plan, pos, slip, sheet, adjusted>>
    BY DEF SaveDelete, stock
<1>4. job' \in [Session -> Job] /\ gone' \subseteq Warehouse
    BY <1>2, <1>3, IdleType, Facts
<1>5. TypeOK' /\ DocumentInv'
    BY <1>3, <1>4 DEF IndInv, TypeOK, DocumentInv
<1>6. DocumentsExplainStock'
    BY <1>3, SameStock DEF IndInv
<1>7. \A u \in Session \ {s} : Undisturbed(u)
    BY <1>3, SameDocuments
<1>8. UNCHANGED stock
    BY <1>3 DEF stock
<1> QED
    BY <1>2, <1>3, <1>5, <1>6, <1>7, <1>8, IdleJob, IdleType, QuietStep

-----------------------------------------------------------------------------
(* Requests that act.                                                       *)

\* The stock of a session that is not touched by another (apply_change's carts are private).
LEMMA OthersGoOn ==
    ASSUME IndInv, NEW s \in Session, UNCHANGED docs,
           \A u \in Session \ {s} : UNCHANGED <<job[u], cart[u], plan[u], pos[u]>>
    PROVE  \A u \in Session \ {s} : SessionInv(u)'
<1> SUFFICES ASSUME NEW u \in Session \ {s}
             PROVE  SessionInv(u)'
    OBVIOUS
<1>1. SessionInv(u) /\ UNCHANGED <<job[u], cart[u], plan[u], pos[u]>>
    BY Facts
<1>2. UNCHANGED <<slip, sheet>>
    BY DEF docs
<1>3. Undisturbed(u)
    BY <1>2, SameDocuments
<1> QED
    BY <1>1, <1>3, OtherGoesOn

\* A request begins to act: it has its document, and a plan for all of it (transition, adjust).
LEMMA OrderStep ==
    ASSUME IndInv, NEW s \in Session, NEW J \in Job, NEW p, NEW d \in [Bin -> Book!Amount],
           ~Acting(s), J.stage = "claimed", job' = [job EXCEPT ![s] = J],
           Book!Order(s, p), UNCHANGED docs,
           Planned(p, d), Fits(s, d)', JobInv(s)',
           J.op \in TransferOps => slip[J.on].status = J.was,
           J.op \in TakingOps => sheet[J.on].status = "DRAFT",
           J.op \in Documented =>
              \A u \in Session \ {s} : Acting(u) /\ job[u].op \in Documented
                                       => job[u].on # J.on
    PROVE  IndInv'
<1>1. job' \in [Session -> Job] /\ job'[s] = J /\ \A u \in Session \ {s} : job'[u] = job[u]
    BY OneJob DEF IndInv
<1>2. UNCHANGED <<book, cart, pos, slip, sheet, gone, adjusted>>
    BY DEF docs, Book!Order
<1>3. p \in Seq(AnyLeg)
    BY DEF Planned
<1>4. /\ plan' \in [Session -> Seq(AnyLeg)] /\ plan'[s] = p
      /\ \A u \in Session \ {s} : plan'[u] = plan[u]
    BY <1>3, Facts DEF Book!Order
<1>5. TypeOK' /\ StockInv' /\ DocumentInv'
    BY <1>1, <1>2, <1>4 DEF IndInv, TypeOK, StockInv, DocumentInv
<1>6. SessionInv(s)'
    <2>1. RestingInv(s)
        BY Facts DEF SessionInv
    <2>2. pos'[s] = 1 /\ cart'[s] = Book!EmptyCart
        BY <1>2, <2>1 DEF RestingInv
    <2>3. CartTells(s, d)'
        BY <1>4, <2>2 DEF CartTells, Moved, Book!EmptyCart
    <2>4. Planned(plan[s], d)'
        BY <1>4 DEF Planned
    <2>5. /\ J.op \in TransferOps => slip'[J.on].status = J.was
          /\ J.op \in TakingOps => sheet'[J.on].status = "DRAFT"
          /\ J.stage # "viewed"
        BY <1>2
    <2>6. ActingInv(s)'
        BY <1>1, <2>3, <2>4, <2>5 DEF ActingInv
    <2>7. Acting(s)'
        BY <1>1 DEF Acting
    <2>8. pos'[s] \in 1..(Len(plan'[s]) + 1)
        BY <1>3, <1>4, <2>2
    <2> QED
        BY <2>6, <2>7, <2>8 DEF SessionInv
<1>7. \A u \in Session \ {s} : SessionInv(u)'
    BY <1>1, <1>2, <1>4, OthersGoOn
<1>8. (\A u \in Session : \A v \in Session \ {u} : Alone(u, v))'
    BY <1>1, AloneWith
<1>9. DocumentsExplainStock'
    BY <1>2, SameStock DEF IndInv
<1> QED
    BY <1>5, <1>6, <1>7, <1>8, <1>9 DEF IndInv

\* The conditional UPDATE of the status, and the legs that come after it.
LEMMA ClaimStep ==
    ASSUME IndInv, NEW s \in Session, Claim(s)
    PROVE  IndInv'
<1> DEFINE J == [job[s] EXCEPT !.stage = "claimed"]
           doc == job[s].on
<1>1. /\ J \in Job /\ J.stage = "claimed" /\ J.op = job[s].op /\ J.on = job[s].on
      /\ J.was = job[s].was /\ J.delta = job[s].delta
    BY Facts DEF Job
<1>2. job' = [job EXCEPT ![s] = J]
    BY Facts DEF Claim
<1> HIDE DEF J
<1>3. /\ ~Acting(s) /\ UNCHANGED docs /\ Book!Order(s, LegsOf(s)) /\ job[s].op \in Documented
      /\ Status(job[s].on) = job[s].was
    BY DEF Claim, Acting, Documented
<1>4. JobInv(s) /\ slip' = slip /\ sheet' = sheet
    BY <1>3, Facts DEF docs
<1>5. job'[s] = J
    BY <1>1, <1>2, OneJob DEF IndInv
<1>6. job[s].op \notin {"none", "count", "delete", "adjust"}
    BY <1>3 DEF Documented, TransferOps, TakingOps
<1>7. JobInv(s)'
    BY <1>1, <1>4, <1>5, <1>6 DEF JobInv
<1>8. \A u \in Session \ {s} : Acting(u) => job[u].on # J.on
    BY <1>1 DEF Claim, RowLocked, Acting
<1>9. CASE job[s].op \in TransferOps
    <2>1. doc \in Transfer /\ slip[doc] \in Slip /\ job[s].was = slip[doc].status
        BY <1>3, <1>4, <1>9, Facts DEF JobInv, Status
    <2>2. slip[doc].from # slip[doc].to
        BY <1>4, <1>9, <2>1 DEF IndInv, DocumentInv, JobInv
    <2>3. LegsOf(s) = TransferLegs(job[s].op, job[s].was, slip[doc])
        BY <1>9 DEF LegsOf, TransferOps
    <2>9. LET e == TransferEffect(job[s].op, job[s].was, slip[doc])
          IN  e \in [Bin -> Book!Amount] /\ Planned(LegsOf(s), e)
        BY <1>9, <2>1, <2>2, <2>3, TransferPlanned
    <2>4. PICK d \in [Bin -> Book!Amount] :
              d = TransferEffect(job[s].op, job[s].was, slip[doc]) /\ Planned(LegsOf(s), d)
        BY <2>9
    <2>5. job[s].op \notin TakingOps
        BY <1>9 DEF TransferOps, TakingOps
    <2>6. Fits(s, d)'
        BY <1>1, <1>4, <1>5, <1>6, <2>4, <2>5 DEF Fits
    <2>8. /\ J.op \in TransferOps => slip[J.on].status = J.was
          /\ J.op \in TakingOps => sheet[J.on].status = "DRAFT"
        BY <1>1, <2>1, <2>5
    <2> QED
        BY <1>1, <1>2, <1>3, <1>7, <1>8, <2>4, <2>6, <2>8, OrderStep
<1>10. CASE job[s].op \in TakingOps
    <2>1. /\ doc \in Taking /\ sheet[doc] \in Sheet /\ job[s].was = "DRAFT"
          /\ doc \notin Transfer
        BY <1>4, <1>10, Facts, DocumentsAssumption DEF JobInv
    <2>2. sheet[doc].status = "DRAFT"
        BY <1>3, <2>1 DEF Status
    <2>3. job[s].delta \in [Sku -> Int]
        BY Facts DEF Job
    <2>9. LET e == TakingEffect(sheet[doc], job[s].delta)
          IN  e \in [Bin -> Book!Amount] /\ Planned(LegsOf(s), e)
        <3>1. CASE job[s].op = "post"
            <4>1. LegsOf(s) = TakingLegs(sheet[doc], job[s].delta)
                BY <3>1 DEF LegsOf, TransferOps
            <4> QED
                BY <2>1, <2>3, <4>1, TakingPlanned
        <3>2. CASE job[s].op = "void"
            <4>1. LegsOf(s) = <<>> /\ job[s].delta = NoDelta
                BY <1>4, <3>2 DEF LegsOf, TransferOps, JobInv
            <4> QED
                BY <4>1, NonePlanned
        <3> QED
            BY <1>10, <3>1, <3>2 DEF TakingOps
    <2>4. PICK d \in [Bin -> Book!Amount] :
              d = TakingEffect(sheet[doc], job[s].delta) /\ Planned(LegsOf(s), d)
        BY <2>9
    <2>5. job[s].op \notin TransferOps
        BY <1>10 DEF TransferOps, TakingOps
    <2>6. Fits(s, d)'
        BY <1>1, <1>4, <1>5, <1>6, <2>4, <2>5 DEF Fits
    <2>8. /\ J.op \in TransferOps => slip[J.on].status = J.was
          /\ J.op \in TakingOps => sheet[J.on].status = "DRAFT"
        BY <1>1, <2>2, <2>5
    <2> QED
        BY <1>1, <1>2, <1>3, <1>7, <1>8, <2>4, <2>6, <2>8, OrderStep
<1> QED
    BY <1>3, <1>9, <1>10 DEF Documented

\* A direct adjustment of one bin (adjust).
LEMMA StartAdjustStep ==
    ASSUME IndInv, NEW s \in Session, NEW b \in Bin, NEW a \in Adjustments,
           StartAdjust(s, b, a[1], a[2])
    PROVE  IndInv'
<1> DEFINE named == [Idle EXCEPT !.op = "adjust"]
           placed == [named EXCEPT !.on = b]
           J == [placed EXCEPT !.stage = "claimed"]
<1>1. J = [Idle EXCEPT !.op = "adjust", !.on = b, !.stage = "claimed"]
    OBVIOUS
<1>2. /\ J \in Job /\ J.op = "adjust" /\ J.on = b /\ J.stage = "claimed"
    <2>1. named \in Job /\ named.op = "adjust"
        BY IdleType DEF Job
    <2> HIDE DEF named
    <2>2. placed \in Job /\ placed.op = "adjust" /\ placed.on = b
        BY <2>1 DEF Job
    <2> HIDE DEF placed
    <2> QED
        BY <2>2 DEF Job
<1>3. /\ job' = [job EXCEPT ![s] = J] /\ ~Acting(s) /\ UNCHANGED docs
      /\ Book!Order(s, Adjust(b, a[1], a[2]))
    BY <1>1 DEF StartAdjust, Free, Acting
<1> HIDE DEF J
<1>4. job'[s] = J
    BY <1>2, <1>3, OneJob DEF IndInv
<1>5. a[1] \in AdjustKind /\ a[2] \in Int
    BY AmountsAssumption
<1>6. PICK d \in [Bin -> Book!Amount] :
          /\ Planned(Adjust(b, a[1], a[2]), d)
          /\ \A c \in Bin : d[c].transit = 0 /\ (c # b => d[c].avail = 0)
    BY <1>5, AdjustPlanned
<1>7. "adjust" \notin TransferOps \cup TakingOps
    BY DEF TransferOps, TakingOps
<1>8. JobInv(s)' /\ Fits(s, d)'
    BY <1>2, <1>4, <1>6, <1>7 DEF JobInv, Fits
<1> QED
    BY <1>2, <1>3, <1>6, <1>7, <1>8, OrderStep DEF Documented

\* One leg more: what a leg moves in its bin was not in the cart yet (_commit_change).
LEMMA PostStep ==
    ASSUME IndInv, NEW s \in Session, Post(s)
    PROVE  IndInv'
<1> DEFINE n == pos[s]
           leg == plan[s][n]
<1>1. /\ Acting(s) /\ n <= Len(plan[s]) /\ job[s].stage = "claimed"
      /\ cart' = [cart EXCEPT ![s][leg.bin] = Book!Sum2(@, leg)]
      /\ pos' = [pos EXCEPT ![s] = @ + 1]
      /\ UNCHANGED <<book, plan, docs, job>>
    BY DEF Post, Acting, Book!Draft
<1>2. /\ SessionInv(s) /\ ActingInv(s) /\ n \in 1..Len(plan[s]) /\ plan[s] \in Seq(AnyLeg)
      /\ pos[s] \in Nat
    BY <1>1, Facts DEF SessionInv
<1>3. leg \in AnyLeg /\ leg.bin \in Bin /\ AmountOf(leg) \in Book!Amount
    <2>1. leg \in AnyLeg
        BY <1>2
    <2> HIDE DEF leg
    <2> QED
        BY <2>1 DEF AnyLeg, AmountOf, Book!Amount
<1>4. PICK d \in [Bin -> Book!Amount] : Fits(s, d) /\ Planned(plan[s], d) /\ CartTells(s, d)
    BY <1>2 DEF ActingInv
<1>5. cart[s] \in [Bin -> Book!Amount]
    BY Facts
<1> DEFINE sum == Book!Sum2(cart[s][leg.bin], leg)
<1>6. sum \in Book!Amount
    BY <1>3, <1>5 DEF AnyLeg, Book!Sum2, Book!Amount
<1>7. /\ cart'[s][leg.bin] = sum
      /\ \A b \in Bin : b # leg.bin => cart'[s][b] = cart[s][b]
      /\ cart'[s] \in [Bin -> Book!Amount]
      /\ cart' \in [Session -> [Bin -> Book!Amount]]
      /\ \A u \in Session \ {s} : cart'[u] = cart[u]
    <2> DEFINE new == [cart[s] EXCEPT ![leg.bin] = sum]
    <2>1. new \in [Bin -> Book!Amount] /\ new[leg.bin] = sum
          /\ \A b \in Bin : b # leg.bin => new[b] = cart[s][b]
        BY <1>3, <1>5, <1>6
    <2>2. cart' = [cart EXCEPT ![s] = new]
        BY <1>1, <1>5, Facts
    <2> HIDE DEF new, sum
    <2> QED
        BY <2>1, <2>2, Facts
<1>8. /\ pos' \in [Session -> Nat] /\ pos'[s] = n + 1
      /\ \A u \in Session \ {s} : pos'[u] = pos[u]
    BY <1>1, Facts
<1>9. UNCHANGED <<slip, sheet, gone, adjusted>>
    BY <1>1 DEF docs
<1>10. TypeOK' /\ StockInv' /\ DocumentInv'
    BY <1>1, <1>7, <1>8, <1>9 DEF IndInv, TypeOK, StockInv, DocumentInv
<1>11. CartTells(s, d)'
    <2> SUFFICES ASSUME NEW b \in Bin
                 PROVE  cart'[s][b] = IF Moved(plan[s], n, b) THEN d[b] ELSE Book!Zero
        BY <1>1, <1>2, <1>8 DEF CartTells, Moved
    <2>1. cart[s][b] = IF Moved(plan[s], n - 1, b) THEN d[b] ELSE Book!Zero
        BY <1>4 DEF CartTells
    <2>2. Moved(plan[s], n, b) <=> Moved(plan[s], n - 1, b) \/ (Moves(leg) /\ leg.bin = b)
        <3>1. \A i : i \in 1..n <=> i \in 1..(n - 1) \/ i = n
            BY <1>2
        <3> QED
            BY <3>1 DEF Moved
    <2>3. CASE b # leg.bin
        BY <1>7, <2>1, <2>2, <2>3
    <2>4. CASE b = leg.bin /\ ~Moves(leg)
        <3>1. leg.avail = 0 /\ leg.occ = 0 /\ leg.transit = 0 /\ leg.defect = 0
            BY <2>4 DEF Moves, AmountOf, Book!Zero
        <3>2. sum = cart[s][b]
            <4> DEFINE old == cart[s][b]
            <4>1. old \in Book!Amount
                BY <1>5
            <4>2. /\ old.avail \in Int /\ old.occ \in Int
                  /\ old.transit \in Int /\ old.defect \in Int
                  /\ old = [avail |-> old.avail, occ |-> old.occ,
                            transit |-> old.transit, defect |-> old.defect]
                <5> HIDE DEF old
                <5> QED
                    BY <4>1 DEF Book!Amount
            <4>3. sum = Book!Sum2(old, leg)
                BY <2>4
            <4> HIDE DEF old, sum
            <4>4. sum = old
                BY <3>1, <4>2, <4>3 DEF Book!Sum2
            <4> QED
                BY <4>4 DEF old
        <3> QED
            BY <1>7, <2>1, <2>2, <2>4, <3>2
    <2>5. CASE b = leg.bin /\ Moves(leg)
        <3>1. ~Moved(plan[s], n - 1, b)
            <4>1. \A i \in 1..(n - 1) : i \in 1..Len(plan[s]) /\ i # n
                BY <1>2
            <4> QED
                BY <1>2, <1>4, <2>5, <4>1 DEF Moved, Planned, Once
        <3>2. AmountOf(leg) = d[b]
            BY <1>2, <1>4, <2>5 DEF Planned
        <3>3. sum = AmountOf(leg)
            <4>1. cart[s][leg.bin] = Book!Zero
                BY <2>1, <2>5, <3>1
            <4>2. leg.avail \in Int /\ leg.occ \in Int /\ leg.transit \in Int /\ leg.defect \in Int
                BY <1>3 DEF AnyLeg
            <4> QED
                BY <4>1, <4>2 DEF Book!Sum2, Book!Zero, AmountOf
        <3> QED
            BY <1>7, <2>2, <2>5, <3>2, <3>3
    <2> QED
        BY <2>3, <2>4, <2>5
<1>12. SessionInv(s)'
    <2>1. ActingInv(s)'
        <3>1. Fits(s, d)' /\ Planned(plan[s], d)'
            BY <1>1, <1>4, <1>9 DEF Fits, Planned
        <3> QED
            BY <1>1, <1>2, <1>9, <1>11, <3>1 DEF ActingInv
    <2>2. pos'[s] \in 1..(Len(plan'[s]) + 1)
        BY <1>1, <1>2, <1>8
    <2>3. JobInv(s)' /\ Acting(s)'
        BY <1>1, <1>2, <1>9 DEF SessionInv, JobInv, Acting
    <2> QED
        BY <2>1, <2>2, <2>3 DEF SessionInv
<1>13. \A u \in Session \ {s} : SessionInv(u)'
    BY <1>1, <1>7, <1>8, OthersGoOn
<1>14. (\A u \in Session : \A v \in Session \ {u} : Alone(u, v))'
    BY <1>1 DEF IndInv, Alone, Acting
<1>15. DocumentsExplainStock'
    BY <1>1, <1>9, SameStock DEF IndInv
<1> QED
    BY <1>10, <1>12, <1>13, <1>14, <1>15 DEF IndInv

\* The answer is built when all the legs are there (_transfer_view, _taking_view, _view_for).
LEMMA ViewStep ==
    ASSUME IndInv, NEW s \in Session, View(s)
    PROVE  IndInv'
<1> DEFINE J == [job[s] EXCEPT !.stage = "viewed"]
<1>1. /\ J \in Job /\ J.stage = "viewed" /\ J.op = job[s].op /\ J.on = job[s].on
      /\ J.was = job[s].was /\ J.delta = job[s].delta
    BY Facts DEF Job
<1>2. /\ job' = [job EXCEPT ![s] = J] /\ Drafted(s) /\ UNCHANGED <<stock, docs>> /\ Acting(s)
      /\ job[s].stage = "claimed"
    BY Facts DEF View, Acting
<1> HIDE DEF J
<1>3. job' \in [Session -> Job] /\ job'[s] = J /\ \A u \in Session \ {s} : job'[u] = job[u]
    BY <1>1, <1>2, OneJob DEF IndInv
<1>4. UNCHANGED <<book, cart, plan, pos, slip, sheet, gone, adjusted>>
    BY <1>2 DEF stock, docs
<1>5. TypeOK' /\ StockInv' /\ DocumentInv'
    BY <1>3, <1>4 DEF IndInv, TypeOK, StockInv, DocumentInv
<1>6. SessionInv(s)'
    <2>1. SessionInv(s) /\ ActingInv(s)
        BY <1>2, Facts DEF SessionInv
    <2>2. PICK d \in [Bin -> Book!Amount] : Fits(s, d) /\ Planned(plan[s], d) /\ CartTells(s, d)
        BY <2>1 DEF ActingInv
    <2>3. Fits(s, d)'
        BY <1>1, <1>3, <1>4, <2>2 DEF Fits
    <2>4. Planned(plan[s], d)' /\ CartTells(s, d)'
        BY <1>4, <2>2 DEF Planned, Once, Moved, CartTells
    <2>5. ActingInv(s)'
        BY <1>1, <1>2, <1>3, <1>4, <2>1, <2>3, <2>4 DEF ActingInv, Drafted
    <2>6. JobInv(s)' /\ Acting(s)'
        BY <1>1, <1>2, <1>3, <1>4, <2>1 DEF SessionInv, JobInv, Acting
    <2> QED
        BY <1>4, <2>1, <2>5, <2>6 DEF SessionInv
<1>7. \A u \in Session \ {s} : SessionInv(u)'
    BY <1>2, <1>3, <1>4, OthersGoOn
<1>8. (\A u \in Session : \A v \in Session \ {u} : Alone(u, v))'
    <2>1. \A u \in Session : /\ Acting(u)' = Acting(u) /\ job'[u].op = job[u].op
                             /\ job'[u].on = job[u].on
        BY <1>1, <1>2, <1>3 DEF Acting
    <2> QED
        BY <2>1 DEF IndInv, Alone
<1>9. DocumentsExplainStock'
    BY <1>4, SameStock DEF IndInv
<1> QED
    BY <1>5, <1>6, <1>7, <1>8, <1>9 DEF IndInv

\* A transaction that ends leaves no cart behind (get_db).
LEMMA Closed ==
    ASSUME IndInv, NEW s \in Session, Book!Close(s), job' = [job EXCEPT ![s] = Idle]
    PROVE  /\ cart' \in [Session -> [Bin -> Book!Amount]] /\ plan' \in [Session -> Seq(AnyLeg)]
           /\ pos' \in [Session -> Nat] /\ job' \in [Session -> Job]
           /\ SessionInv(s)' /\ ~Acting(s)'
           /\ \A u \in Session \ {s} : UNCHANGED <<job[u], cart[u], plan[u], pos[u]>>
           /\ (\A u \in Session : \A v \in Session \ {u} : Alone(u, v))'
<1>1. Book!EmptyCart \in [Bin -> Book!Amount] /\ <<>> \in Seq(AnyLeg) /\ 1 \in Nat
    BY DEF Book!EmptyCart, Book!Zero, Book!Amount
<1>2. /\ cart' \in [Session -> [Bin -> Book!Amount]] /\ plan' \in [Session -> Seq(AnyLeg)]
      /\ pos' \in [Session -> Nat]
      /\ cart'[s] = Book!EmptyCart /\ plan'[s] = <<>> /\ pos'[s] = 1
      /\ \A u \in Session \ {s} : UNCHANGED <<cart[u], plan[u], pos[u]>>
    BY <1>1, Facts DEF Book!Close
<1>3. JobInv(s)' /\ ~Acting(s)'
    BY IdleJob
<1>4. SessionInv(s)'
    BY <1>2, <1>3 DEF SessionInv, RestingInv, Book!EmptyCart
<1>5. job' \in [Session -> Job] /\ \A u \in Session \ {s} : job'[u] = job[u]
    BY IdleType, Facts
<1>6. (\A u \in Session : \A v \in Session \ {u} : Alone(u, v))'
    BY <1>3, <1>5, AloneWith
<1> QED
    BY <1>2, <1>3, <1>4, <1>5, <1>6

\* A rollback leaves the documents and the stock as they were.
LEMMA DropStep ==
    ASSUME IndInv, NEW s \in Session, Drop(s)
    PROVE  IndInv'
<1>1. /\ Book!Close(s) /\ job' = [job EXCEPT ![s] = Idle] /\ UNCHANGED docs
      /\ UNCHANGED <<book, slip, sheet, gone, adjusted>>
    BY DEF Drop, Book!Discard, docs
<1>2. /\ cart' \in [Session -> [Bin -> Book!Amount]] /\ plan' \in [Session -> Seq(AnyLeg)]
      /\ pos' \in [Session -> Nat] /\ job' \in [Session -> Job]
      /\ SessionInv(s)' /\ \A u \in Session \ {s} : UNCHANGED <<job[u], cart[u], plan[u], pos[u]>>
      /\ (\A u \in Session : \A v \in Session \ {u} : Alone(u, v))'
    BY <1>1, Closed
<1>3. TypeOK' /\ StockInv' /\ DocumentInv'
    BY <1>1, <1>2 DEF IndInv, TypeOK, StockInv, DocumentInv
<1>4. \A u \in Session \ {s} : SessionInv(u)'
    BY <1>1, <1>2, OthersGoOn
<1>5. DocumentsExplainStock'
    BY <1>1, SameStock DEF IndInv
<1> QED
    BY <1>2, <1>3, <1>4, <1>5 DEF IndInv

-----------------------------------------------------------------------------
(* The commit.                                                              *)

\* When all the legs are there, the cart holds what the request is to do (_commit_change).
LEMMA FullCart ==
    ASSUME IndInv, NEW s \in Session, Acting(s), Drafted(s)
    PROVE  \E d \in [Bin -> Book!Amount] : Fits(s, d) /\ \A b \in Bin : cart[s][b] = d[b]
<1>1. SessionInv(s) /\ ActingInv(s) /\ plan[s] \in Seq(AnyLeg) /\ pos[s] = Len(plan[s]) + 1
    BY Facts DEF SessionInv, Drafted
<1>2. PICK d \in [Bin -> Book!Amount] : Fits(s, d) /\ Planned(plan[s], d) /\ CartTells(s, d)
    BY <1>1 DEF ActingInv
<1>3. pos[s] - 1 = Len(plan[s])
    BY <1>1
<1>4. \A b \in Bin : cart[s][b] = d[b]
    <2> SUFFICES ASSUME NEW b \in Bin
                 PROVE  cart[s][b] = d[b]
        OBVIOUS
    <2>1. cart[s][b] = IF Moved(plan[s], Len(plan[s]), b) THEN d[b] ELSE Book!Zero
        BY <1>2, <1>3 DEF CartTells
    <2>2. d[b] # Book!Zero => Moved(plan[s], Len(plan[s]), b)
        BY <1>2 DEF Planned
    <2> QED
        BY <2>1, <2>2
<1> QED
    BY <1>2, <1>4

\* A transfer that moves on explains what its legs do (ship_transfer, receive_transfer,
\* cancel_transfer).
LEMMA TransferMovesOn ==
    ASSUME NEW doc \in Slip, doc.from # doc.to, NEW op \in TransferOps,
           doc.status \in WasRead[op], NEW k \in Sku, NEW w \in Warehouse
    PROVE  LET new == [doc EXCEPT !.status = NewStatus(op)]
               d == TransferEffect(op, doc.status, doc)[<<k, w>>]
           IN  /\ new \in Slip /\ new.from # new.to
               /\ d.transit \in Int /\ d.avail \in Int
               /\ d.transit = Way(new, k, w) - Way(doc, k, w)
               /\ d.avail + Off(new, k, w) - Off(doc, k, w) = In(new, k, w) - In(doc, k, w)
<1> DEFINE new == [doc EXCEPT !.status = NewStatus(op)]
           d == TransferEffect(op, doc.status, doc)[<<k, w>>]
           q == doc.qty[k]
<1>1. NewStatus(op) = CASE op = "ship" -> "IN_TRANSIT"
                        [] op = "receive" -> "RECEIVED"
                        [] op = "cancel" -> "CANCELLED"
    BY DEF NewStatus, TransferOps
<1>2. /\ new \in Slip /\ new.from = doc.from /\ new.to = doc.to /\ new.qty = doc.qty
      /\ new.status = NewStatus(op) /\ q \in Nat
    BY <1>1 DEF Slip, TransferOps
<1>3. new # None /\ doc # None
    BY <1>2, AbsentAssumption
<1>4. /\ <<k, w>> \in Bin /\ <<k, w>>[1] = k /\ <<k, w>>[2] = w
    BY DEF Bin
<1>5. d = IF doc.status = "DRAFT" /\ op = "cancel" THEN Amount(0, 0)
          ELSE IF w = doc.from
               THEN Amount(IF op = "ship" THEN -q ELSE IF op = "cancel" THEN q ELSE 0, 0)
          ELSE IF w = doc.to
               THEN Amount(IF op = "receive" THEN q ELSE 0, IF op = "ship" THEN q ELSE -q)
          ELSE Amount(0, 0)
    BY <1>4 DEF TransferEffect
<1> HIDE DEF d, new
<1>6. CASE op = "ship"
    <2>1. doc.status = "DRAFT" /\ new.status = "IN_TRANSIT"
        BY <1>1, <1>2, <1>6 DEF WasRead
    <2>2. d = IF w = doc.from THEN Amount(-q, 0)
              ELSE IF w = doc.to THEN Amount(0, q) ELSE Amount(0, 0)
        BY <1>5, <1>6
    <2> HIDE DEF q
    <2>3. d.transit = (IF w = doc.to THEN q ELSE 0) /\ d.avail = (IF w = doc.from THEN -q ELSE 0)
        BY <2>2 DEF Amount
    <2>4. /\ Way(new, k, w) = (IF w = doc.to THEN q ELSE 0) /\ Way(doc, k, w) = 0
          /\ Off(new, k, w) = (IF w = doc.from THEN q ELSE 0) /\ Off(doc, k, w) = 0
          /\ In(new, k, w) = 0 /\ In(doc, k, w) = 0
        BY <1>2, <1>3, <2>1 DEF Way, Off, In, q
    <2> QED
        BY <1>2, <2>3, <2>4 DEF d, new, q
<1>7. CASE op = "receive"
    <2>1. doc.status = "IN_TRANSIT" /\ new.status = "RECEIVED"
        BY <1>1, <1>2, <1>7 DEF WasRead
    <2>2. d = IF w = doc.from THEN Amount(0, 0)
              ELSE IF w = doc.to THEN Amount(q, -q) ELSE Amount(0, 0)
        BY <1>5, <1>7
    <2> HIDE DEF q
    <2>3. d.transit = (IF w = doc.to THEN -q ELSE 0) /\ d.avail = (IF w = doc.to THEN q ELSE 0)
        BY <2>2 DEF Amount
    <2>4. /\ Way(new, k, w) = 0 /\ Way(doc, k, w) = (IF w = doc.to THEN q ELSE 0)
          /\ Off(new, k, w) = Off(doc, k, w) /\ Off(doc, k, w) = (IF w = doc.from THEN q ELSE 0)
          /\ In(new, k, w) = (IF w = doc.to THEN q ELSE 0) /\ In(doc, k, w) = 0
        BY <1>2, <1>3, <2>1 DEF Way, Off, In, q
    <2> QED
        BY <1>2, <2>3, <2>4 DEF d, new, q
<1>8. CASE op = "cancel" /\ doc.status = "DRAFT"
    <2>1. new.status = "CANCELLED"
        BY <1>1, <1>2, <1>8
    <2>3. d.transit = 0 /\ d.avail = 0
        BY <1>5, <1>8 DEF Amount
    <2>4. /\ Way(new, k, w) = 0 /\ Way(doc, k, w) = 0
          /\ Off(new, k, w) = 0 /\ Off(doc, k, w) = 0
          /\ In(new, k, w) = 0 /\ In(doc, k, w) = 0
        BY <1>8, <2>1 DEF Way, Off, In
    <2> QED
        BY <1>2, <2>3, <2>4 DEF d, new
<1>9. CASE op = "cancel" /\ doc.status # "DRAFT"
    <2>1. doc.status = "IN_TRANSIT" /\ new.status = "CANCELLED"
        BY <1>1, <1>2, <1>9 DEF WasRead
    <2>2. d = IF w = doc.from THEN Amount(q, 0)
              ELSE IF w = doc.to THEN Amount(0, -q) ELSE Amount(0, 0)
        BY <1>5, <1>9
    <2> HIDE DEF q
    <2>3. d.transit = (IF w = doc.to THEN -q ELSE 0) /\ d.avail = (IF w = doc.from THEN q ELSE 0)
        BY <2>2 DEF Amount
    <2>4. /\ Way(new, k, w) = 0 /\ Way(doc, k, w) = (IF w = doc.to THEN q ELSE 0)
          /\ Off(new, k, w) = 0 /\ Off(doc, k, w) = (IF w = doc.from THEN q ELSE 0)
          /\ In(new, k, w) = 0 /\ In(doc, k, w) = 0
        BY <1>2, <1>3, <2>1 DEF Way, Off, In, q
    <2> QED
        BY <1>2, <2>3, <2>4 DEF d, new, q
<1> QED
    BY <1>6, <1>7, <1>8, <1>9 DEF TransferOps

\* What the commit does to one bin (Settle).
LEMMA Settled ==
    ASSUME IndInv, NEW s \in Session, Book!Settle(s), NEW b \in Bin
    PROVE  /\ book' \in [Bin -> Book!Amount] /\ Book!InBounds(book'[b])
           /\ book'[b].avail = book[b].avail + cart[s][b].avail
           /\ book'[b].transit = book[b].transit + cart[s][b].transit
           /\ book[b].avail \in Int /\ book[b].transit \in Int
           /\ cart[s][b].avail \in Int /\ cart[s][b].transit \in Int
<1>1. book \in [Bin -> Book!Amount] /\ cart[s] \in [Bin -> Book!Amount]
    BY Facts
<1>2. \A c \in Bin : Book!Sum2(book[c], cart[s][c]) \in Book!Amount
    <2> SUFFICES ASSUME NEW c \in Bin
                 PROVE  Book!Sum2(book[c], cart[s][c]) \in Book!Amount
        OBVIOUS
    <2>1. book[c] \in Book!Amount /\ cart[s][c] \in Book!Amount
        BY <1>1
    <2> QED
        BY <2>1 DEF Book!Sum2, Book!Amount
<1>3. book' = [c \in Bin |-> Book!Sum2(book[c], cart[s][c])] /\ Book!InBounds(book'[b])
    BY DEF Book!Settle
<1>4. book' \in [Bin -> Book!Amount] /\ book'[b] = Book!Sum2(book[b], cart[s][b])
    BY <1>2, <1>3
<1>5. book[b] \in Book!Amount /\ cart[s][b] \in Book!Amount
    BY <1>1
<1> QED
    BY <1>3, <1>4, <1>5 DEF Book!Sum2, Book!Amount

\* A balance that holds still does when both sides change by as much (Explained).
LEMMA Balanced ==
    ASSUME NEW x \in Int, NEW x2 \in Int, NEW off \in Int, NEW off2 \in Int, NEW start \in Int,
           NEW adj \in Int, NEW adj2 \in Int, NEW in \in Int, NEW in2 \in Int,
           NEW wrote \in Int, NEW wrote2 \in Int,
           x + off = start + adj + in + wrote,
           (x2 - x) + (off2 - off) = (adj2 - adj) + (in2 - in) + (wrote2 - wrote)
    PROVE  x2 + off2 = start + adj2 + in2 + wrote2
OBVIOUS

\* The documents that a commit leaves behind explain what it has done to the stock.
LEMMA Explained ==
    ASSUME IndInv, NEW k \in Sku, NEW w \in Warehouse,
           book'[<<k, w>>].transit - book[<<k, w>>].transit
              = OnTheWay(k, w)' - OnTheWay(k, w),
           (book'[<<k, w>>].avail - book[<<k, w>>].avail) + (SentOff(k, w)' - SentOff(k, w))
              = (adjusted'[<<k, w>>] - adjusted[<<k, w>>]) + (Arrived(k, w)' - Arrived(k, w))
                + (Found(k, w)' - Found(k, w)),
           book'[<<k, w>>].transit \in Int, book'[<<k, w>>].avail \in Int,
           adjusted'[<<k, w>>] \in Int,
           OnTheWay(k, w)' \in Int, SentOff(k, w)' \in Int, Arrived(k, w)' \in Int,
           Found(k, w)' \in Int
    PROVE  /\ book'[<<k, w>>].transit = Stock[<<k, w>>].transit + OnTheWay(k, w)'
           /\ book'[<<k, w>>].avail + SentOff(k, w)'
                 = Stock[<<k, w>>].avail + adjusted'[<<k, w>>] + Arrived(k, w)' + Found(k, w)'
<1> DEFINE b == <<k, w>>
<1>1. b \in Bin
    BY DEF Bin
<1>2. TypeOK /\ DocumentsExplainStock
    BY DEF IndInv
<1>3. OnTheWay(k, w) \in Int /\ SentOff(k, w) \in Int /\ Arrived(k, w) \in Int
      /\ Found(k, w) \in Int
    BY <1>2, SumTypes
<1>4. book[b] \in Book!Amount /\ Stock[b] \in Book!Amount /\ adjusted[b] \in Int
    BY <1>1, Facts, AmountsAssumption
<1>5. /\ book[b].avail \in Int /\ book[b].transit \in Int
      /\ Stock[b].avail \in Int /\ Stock[b].transit \in Int
    BY <1>4 DEF Book!Amount
<1>6. /\ book[b].transit = Stock[b].transit + OnTheWay(k, w)
      /\ book[b].avail + SentOff(k, w)
           = Stock[b].avail + adjusted[b] + Arrived(k, w) + Found(k, w)
    BY <1>2 DEF DocumentsExplainStock
<1>7. /\ book'[b].transit - book[b].transit = OnTheWay(k, w)' - OnTheWay(k, w)
      /\ (book'[b].avail - book[b].avail) + (SentOff(k, w)' - SentOff(k, w))
           = (adjusted'[b] - adjusted[b]) + (Arrived(k, w)' - Arrived(k, w))
             + (Found(k, w)' - Found(k, w))
      /\ book'[b].transit \in Int /\ book'[b].avail \in Int /\ adjusted'[b] \in Int
    OBVIOUS
<1> HIDE DEF b
<1>8. book'[b].transit = Stock[b].transit + OnTheWay(k, w)'
    BY <1>3, <1>5, <1>6, <1>7
<1>9. book'[b].avail + SentOff(k, w)'
         = Stock[b].avail + adjusted'[b] + Arrived(k, w)' + Found(k, w)'
    <2> DEFINE x == book[b].avail   x2 == book'[b].avail
               off == SentOff(k, w) off2 == SentOff(k, w)'
               adj == adjusted[b]   adj2 == adjusted'[b]
               in == Arrived(k, w)  in2 == Arrived(k, w)'
               wrote == Found(k, w) wrote2 == Found(k, w)'
               start == Stock[b].avail
    <2>1. /\ x \in Int /\ x2 \in Int /\ off \in Int /\ off2 \in Int /\ start \in Int
          /\ adj \in Int /\ adj2 \in Int /\ in \in Int /\ in2 \in Int
          /\ wrote \in Int /\ wrote2 \in Int
        BY <1>3, <1>4, <1>5, <1>7
    <2>2. x + off = start + adj + in + wrote
        BY <1>6
    <2>3. (x2 - x) + (off2 - off) = (adj2 - adj) + (in2 - in) + (wrote2 - wrote)
        BY <1>7
    <2> HIDE DEF x, x2, off, off2, start, adj, adj2, in, in2, wrote, wrote2
    <2>4. x2 + off2 = start + adj2 + in2 + wrote2
        BY <2>1, <2>2, <2>3, Balanced
    <2> QED
        BY <2>4 DEF x2, off2, start, adj2, in2, wrote2
<1> QED
    BY <1>8, <1>9 DEF b

\* A commit keeps the invariant if the documents it leaves behind are in order and
\* explain what it has done (get_db).
LEMMA CommitStep ==
    ASSUME IndInv, NEW s \in Session, Book!Settle(s), job' = [job EXCEPT ![s] = Idle],
           UNCHANGED gone,
           slip' \in [Transfer -> Slip \cup {None}], sheet' \in [Taking -> Sheet \cup {None}],
           adjusted' \in [Bin -> Int], DocumentInv',
           \A u \in Session \ {s} : Undisturbed(u),
           DocumentsExplainStock'
    PROVE  IndInv'
<1>1. /\ cart' \in [Session -> [Bin -> Book!Amount]] /\ plan' \in [Session -> Seq(AnyLeg)]
      /\ pos' \in [Session -> Nat] /\ job' \in [Session -> Job]
      /\ SessionInv(s)' /\ \A u \in Session \ {s} : UNCHANGED <<job[u], cart[u], plan[u], pos[u]>>
      /\ (\A u \in Session : \A v \in Session \ {u} : Alone(u, v))'
    BY Closed DEF Book!Settle
<1>2. book' \in [Bin -> Book!Amount] /\ \A b \in Bin : Book!InBounds(book'[b])
    <2>1. \A b \in Bin : Book!InBounds(book'[b])
        BY Settled
    <2>2. CASE Bin = {}
        <3>1. book' = [b \in Bin |-> Book!Sum2(book[b], cart[s][b])]
            BY DEF Book!Settle
        <3> QED
            BY <2>2, <3>1
    <2>3. CASE Bin # {}
        BY <2>1, <2>3, Settled
    <2> QED
        BY <2>1, <2>2, <2>3
<1>3. TypeOK' /\ StockInv'
    BY <1>1, <1>2, Facts DEF TypeOK, StockInv
<1>4. \A u \in Session \ {s} : SessionInv(u)'
    <2> SUFFICES ASSUME NEW u \in Session \ {s}
                 PROVE  SessionInv(u)'
        OBVIOUS
    <2>1. SessionInv(u) /\ Undisturbed(u) /\ UNCHANGED <<job[u], cart[u], plan[u], pos[u]>>
        BY <1>1, Facts
    <2> QED
        BY <2>1, OtherGoesOn
<1> QED
    BY <1>1, <1>3, <1>4 DEF IndInv

\* The commit of a transfer that was sent off, received or cancelled.
LEMMA FinishTransfer ==
    ASSUME IndInv, NEW s \in Session, Finish(s), job[s].op \in TransferOps
    PROVE  IndInv'
<1> DEFINE doc == job[s].on
           op == job[s].op
           old == slip[doc]
           new == [old EXCEPT !.status = NewStatus(op)]
<1>1. /\ Book!Settle(s) /\ job' = [job EXCEPT ![s] = Idle] /\ UNCHANGED gone
      /\ slip' = [slip EXCEPT ![doc].status = NewStatus(op)]
      /\ sheet' = sheet /\ adjusted' = adjusted
      /\ Acting(s) /\ Drafted(s)
      /\ op \notin TakingOps /\ op # "adjust"
    BY DEF Finish, Acting, Drafted, Book!Settle, TransferOps, TakingOps
<1>2. /\ JobInv(s) /\ ActingInv(s)
      /\ doc \in Transfer /\ old \in Slip /\ old.status = job[s].was
      /\ old.status \in WasRead[op] /\ old.from # old.to
    <2>1. JobInv(s) /\ ActingInv(s)
        BY <1>1, Facts DEF SessionInv
    <2> QED
        BY <2>1, Facts DEF JobInv, ActingInv, IndInv, DocumentInv
<1>3. PICK d \in [Bin -> Book!Amount] : Fits(s, d) /\ \A b \in Bin : cart[s][b] = d[b]
    BY <1>1, FullCart
<1>4. \A b \in Bin : cart[s][b] = TransferEffect(op, old.status, old)[b]
    BY <1>2, <1>3 DEF Fits
<1>5. slip' = [slip EXCEPT ![doc] = new]
    BY <1>1, <1>2, Facts
<1>6. new \in Slip /\ new.from # new.to
    <2>1. NewStatus(op) \in {"IN_TRANSIT", "RECEIVED", "CANCELLED"}
        BY DEF NewStatus, TransferOps
    <2> QED
        BY <1>2, <2>1 DEF Slip
<1>7. /\ slip' \in [Transfer -> Slip \cup {None}] /\ slip'[doc] = new /\ new # None
      /\ \A t \in Transfer \ {doc} : slip'[t] = slip[t]
    <2> HIDE DEF new
    <2> QED
        BY <1>2, <1>5, <1>6, Facts
<1>8. sheet' \in [Taking -> Sheet \cup {None}] /\ adjusted' \in [Bin -> Int]
    BY <1>1, Facts
<1>9. DocumentInv'
    BY <1>1, <1>6, <1>7 DEF IndInv, DocumentInv
<1>10. ASSUME NEW u \in Session \ {s}
       PROVE  Undisturbed(u)
    <2>1. JobInv(u)
        BY Facts
    <2>2. job[u].op \in TransferOps /\ job[u].on = doc => ~Acting(u)
        BY <1>1 DEF IndInv, Alone, Documented
    <2> HIDE DEF new
    <2> QED
        BY <1>1, <1>7, <2>1, <2>2 DEF Undisturbed, JobInv
<1>11. DocumentsExplainStock'
    <2> SUFFICES ASSUME NEW k \in Sku, NEW w \in Warehouse
                 PROVE  /\ book'[<<k, w>>].transit = Stock[<<k, w>>].transit + OnTheWay(k, w)'
                        /\ book'[<<k, w>>].avail + SentOff(k, w)'
                             = Stock[<<k, w>>].avail + adjusted'[<<k, w>>]
                               + Arrived(k, w)' + Found(k, w)'
        BY DEF DocumentsExplainStock
    <2> DEFINE b == <<k, w>>
               e == TransferEffect(op, old.status, old)[b]
    <2>1. b \in Bin
        BY DEF Bin
    <2>2. /\ e.transit \in Int /\ e.avail \in Int
          /\ e.transit = Way(new, k, w) - Way(old, k, w)
          /\ e.avail + Off(new, k, w) - Off(old, k, w) = In(new, k, w) - In(old, k, w)
        BY <1>2, TransferMovesOn
    <2>3. cart[s][b] = e
        BY <1>4, <2>1
    <2> HIDE DEF b, e, new, old, op
    <2>4. /\ book'[b].avail = book[b].avail + e.avail
          /\ book'[b].transit = book[b].transit + e.transit
          /\ book[b].avail \in Int /\ book[b].transit \in Int
        BY <1>1, <2>1, <2>3, Settled
    <2>5. TypeOK
        BY DEF IndInv
    <2>6. /\ OnTheWay(k, w)' = OnTheWay(k, w) + Way(new, k, w) - Way(old, k, w)
          /\ SentOff(k, w)' = SentOff(k, w) + Off(new, k, w) - Off(old, k, w)
          /\ Arrived(k, w)' = Arrived(k, w) + In(new, k, w) - In(old, k, w)
        BY <1>2, <1>5, <1>6, <2>5, SlipChange DEF old
    <2>7. Found(k, w)' = Found(k, w)
        BY <1>1 DEF Found
    <2>8. /\ OnTheWay(k, w) \in Int /\ SentOff(k, w) \in Int /\ Arrived(k, w) \in Int
          /\ Found(k, w) \in Int
        BY <2>5, SumTypes
    <2>9. /\ Way(new, k, w) \in Int /\ Way(old, k, w) \in Int
          /\ Off(new, k, w) \in Int /\ Off(old, k, w) \in Int
          /\ In(new, k, w) \in Int /\ In(old, k, w) \in Int
        <3>1. Way(new, k, w) \in Nat /\ Off(new, k, w) \in Nat /\ In(new, k, w) \in Nat
            BY <1>6, ShareType
        <3>2. Way(old, k, w) \in Nat /\ Off(old, k, w) \in Nat /\ In(old, k, w) \in Nat
            BY <1>2, ShareType
        <3> QED
            BY <3>1, <3>2
    <2>10. adjusted'[b] = adjusted[b] /\ adjusted[b] \in Int
        BY <1>1, <2>1, Facts
    <2>11. /\ OnTheWay(k, w)' \in Int /\ SentOff(k, w)' \in Int /\ Arrived(k, w)' \in Int
           /\ Found(k, w)' \in Int
           /\ book'[b].transit \in Int /\ book'[b].avail \in Int
        BY <2>2, <2>4, <2>6, <2>7, <2>8, <2>9
    <2>12. book'[b].transit - book[b].transit = OnTheWay(k, w)' - OnTheWay(k, w)
        BY <2>2, <2>4, <2>6, <2>8, <2>9
    <2>13. (book'[b].avail - book[b].avail) + (SentOff(k, w)' - SentOff(k, w))
              = (adjusted'[b] - adjusted[b]) + (Arrived(k, w)' - Arrived(k, w))
                + (Found(k, w)' - Found(k, w))
        <3>1. book'[b].avail - book[b].avail = e.avail
            BY <2>2, <2>4
        <3>2. SentOff(k, w)' - SentOff(k, w) = Off(new, k, w) - Off(old, k, w)
            BY <2>6, <2>8, <2>9
        <3>3. Arrived(k, w)' - Arrived(k, w) = In(new, k, w) - In(old, k, w)
            BY <2>6, <2>8, <2>9
        <3>4. Found(k, w)' - Found(k, w) = 0 /\ adjusted'[b] - adjusted[b] = 0
            BY <2>7, <2>8, <2>10
        <3> QED
            BY <2>2, <2>9, <3>1, <3>2, <3>3, <3>4
    <2> QED
        BY <2>10, <2>11, <2>12, <2>13, Explained DEF b
<1> HIDE DEF new
<1> QED
    BY <1>1, <1>7, <1>8, <1>9, <1>10, <1>11, CommitStep

\* The commit of a taking that was posted or cancelled.
LEMMA FinishTaking ==
    ASSUME IndInv, NEW s \in Session, Finish(s), job[s].op \in TakingOps
    PROVE  IndInv'
<1> DEFINE doc == job[s].on
           delta == job[s].delta
           old == sheet[doc]
           moved == [old EXCEPT !.status = NewStatus(job[s].op)]
           new == [moved EXCEPT !.posted = delta]
<1>1. /\ Book!Settle(s) /\ job' = [job EXCEPT ![s] = Idle] /\ UNCHANGED gone
      /\ sheet' = [sheet EXCEPT ![doc].status = NewStatus(job[s].op), ![doc].posted = delta]
      /\ slip' = slip /\ adjusted' = adjusted
      /\ Acting(s) /\ Drafted(s)
      /\ job[s].op \notin TransferOps /\ job[s].op # "adjust"
    BY DEF Finish, Acting, Drafted, Book!Settle, TransferOps, TakingOps
<1>2. /\ JobInv(s) /\ doc \in Taking /\ old \in Sheet /\ old.status = "DRAFT"
      /\ old.posted = NoDelta /\ delta \in [Sku -> Int]
    <2>1. JobInv(s) /\ ActingInv(s)
        BY <1>1, Facts DEF SessionInv
    <2>2. doc \in Taking /\ old \in Sheet /\ old # None /\ old.status = "DRAFT"
        BY <2>1, Facts DEF JobInv, ActingInv
    <2>3. old.posted = NoDelta
        BY <2>2 DEF IndInv, DocumentInv
    <2>4. delta \in [Sku -> Int]
        BY Facts DEF Job
    <2> QED
        BY <2>1, <2>2, <2>3, <2>4
<1>3. PICK d \in [Bin -> Book!Amount] : Fits(s, d) /\ \A b \in Bin : cart[s][b] = d[b]
    BY <1>1, FullCart
<1>4. \A b \in Bin : cart[s][b] = TakingEffect(old, delta)[b]
    BY <1>3 DEF Fits
<1>5. /\ moved \in Sheet /\ moved.house = old.house /\ moved.status # "DRAFT"
      /\ moved.status = NewStatus(job[s].op)
    <2>1. NewStatus(job[s].op) \in {"POSTED", "CANCELLED"}
        BY DEF NewStatus, TakingOps
    <2> QED
        BY <1>2, <2>1 DEF Sheet
<1>6. sheet' = [sheet EXCEPT ![doc] = new]
    BY <1>1, <1>2, Facts
<1> HIDE DEF moved
<1>7. new \in Sheet /\ new.house = old.house /\ new.status # "DRAFT" /\ new.posted = delta
    BY <1>2, <1>5 DEF Sheet
<1> HIDE DEF new
<1>8. /\ sheet' \in [Taking -> Sheet \cup {None}] /\ sheet'[doc] = new /\ new # None
      /\ \A g \in Taking \ {doc} : sheet'[g] = sheet[g]
    BY <1>2, <1>6, <1>7, Facts
<1>9. slip' \in [Transfer -> Slip \cup {None}] /\ adjusted' \in [Bin -> Int]
    BY <1>1, Facts
<1>10. DocumentInv'
    BY <1>1, <1>7, <1>8 DEF IndInv, DocumentInv
<1>11. ASSUME NEW u \in Session \ {s}
       PROVE  Undisturbed(u)
    <2>1. JobInv(u)
        BY Facts
    <2>2. job[u].op \in TakingOps /\ job[u].on = doc => ~Acting(u)
        BY <1>1 DEF IndInv, Alone, Documented
    <2>3. job[u].op = "count" => ~Acting(u)
        BY <2>1 DEF JobInv
    <2> QED
        BY <1>1, <1>8, <2>1, <2>2, <2>3 DEF Undisturbed, JobInv
<1>12. DocumentsExplainStock'
    <2> SUFFICES ASSUME NEW k \in Sku, NEW w \in Warehouse
                 PROVE  /\ book'[<<k, w>>].transit = Stock[<<k, w>>].transit + OnTheWay(k, w)'
                        /\ book'[<<k, w>>].avail + SentOff(k, w)'
                             = Stock[<<k, w>>].avail + adjusted'[<<k, w>>]
                               + Arrived(k, w)' + Found(k, w)'
        BY DEF DocumentsExplainStock
    <2> DEFINE b == <<k, w>>
               q == IF old.house = w THEN delta[k] ELSE 0
    <2>1. b \in Bin /\ b[1] = k /\ b[2] = w /\ q \in Int
        BY <1>2 DEF Bin
    <2>2. cart[s][b].avail = q /\ cart[s][b].transit = 0
        <3> HIDE DEF b, q
        <3>1. cart[s][b] = TakingEffect(old, delta)[b]
            BY <1>4, <2>1
        <3>2. TakingEffect(old, delta)[b] = Amount(q, 0)
            BY <2>1 DEF TakingEffect, q
        <3> QED
            BY <3>1, <3>2 DEF Amount
    <2>3. Wrote(new, k, w) = q /\ Wrote(old, k, w) = 0
        BY <1>2, <1>7, <1>8, IdleType DEF Wrote
    <2> HIDE DEF b, q, old
    <2>4. /\ book'[b].avail = book[b].avail + q /\ book'[b].transit = book[b].transit + 0
          /\ book[b].avail \in Int /\ book[b].transit \in Int
        BY <1>1, <2>1, <2>2, Settled
    <2>5. TypeOK
        BY DEF IndInv
    <2>6. Found(k, w)' = Found(k, w) + Wrote(new, k, w) - Wrote(old, k, w)
        BY <1>2, <1>6, <1>7, <2>5, SheetChange DEF old
    <2>7. OnTheWay(k, w)' = OnTheWay(k, w)
        BY <1>1 DEF OnTheWay, Moving, InTransit
    <2>8. SentOff(k, w)' = SentOff(k, w) /\ Arrived(k, w)' = Arrived(k, w)
        BY <1>1 DEF SentOff, Arrived, Moving, InTransit, Received
    <2>9. /\ OnTheWay(k, w) \in Int /\ SentOff(k, w) \in Int /\ Arrived(k, w) \in Int
          /\ Found(k, w) \in Int
        BY <2>5, SumTypes
    <2>10. adjusted'[b] = adjusted[b] /\ adjusted[b] \in Int
        BY <1>1, <2>1, Facts
    <2>11. /\ OnTheWay(k, w)' \in Int /\ SentOff(k, w)' \in Int /\ Arrived(k, w)' \in Int
           /\ Found(k, w)' \in Int
           /\ book'[b].transit \in Int /\ book'[b].avail \in Int
        BY <2>1, <2>3, <2>4, <2>6, <2>7, <2>8, <2>9
    <2>12. book'[b].transit - book[b].transit = OnTheWay(k, w)' - OnTheWay(k, w)
        BY <2>4, <2>7, <2>9
    <2>13. (book'[b].avail - book[b].avail) + (SentOff(k, w)' - SentOff(k, w))
              = (adjusted'[b] - adjusted[b]) + (Arrived(k, w)' - Arrived(k, w))
                + (Found(k, w)' - Found(k, w))
        <3>1. book'[b].avail - book[b].avail = q
            BY <2>1, <2>4
        <3>2. SentOff(k, w)' - SentOff(k, w) = 0 /\ Arrived(k, w)' - Arrived(k, w) = 0
            BY <2>8, <2>9
        <3>3. Found(k, w)' - Found(k, w) = q /\ adjusted'[b] - adjusted[b] = 0
            BY <2>1, <2>3, <2>6, <2>9, <2>10
        <3> QED
            BY <2>1, <3>1, <3>2, <3>3
    <2> QED
        BY <2>10, <2>11, <2>12, <2>13, Explained DEF b
<1> QED
    BY <1>1, <1>8, <1>9, <1>10, <1>11, <1>12, CommitStep

\* The commit of a direct adjustment (adjust).
LEMMA FinishAdjust ==
    ASSUME IndInv, NEW s \in Session, Finish(s), job[s].op = "adjust"
    PROVE  IndInv'
<1> DEFINE bin == job[s].on
           q == cart[s][bin].avail
<1>1. /\ Book!Settle(s) /\ job' = [job EXCEPT ![s] = Idle] /\ UNCHANGED gone
      /\ adjusted' = [adjusted EXCEPT ![bin] = @ + q]
      /\ slip' = slip /\ sheet' = sheet
      /\ Acting(s) /\ Drafted(s)
    BY DEF Finish, Acting, Drafted, Book!Settle, TransferOps, TakingOps
<1>2. bin \in Bin
    BY Facts DEF JobInv
<1>3. PICK d \in [Bin -> Book!Amount] : Fits(s, d) /\ \A b \in Bin : cart[s][b] = d[b]
    BY <1>1, FullCart
<1>4. \A b \in Bin : cart[s][b].transit = 0 /\ (b # bin => cart[s][b].avail = 0)
    BY <1>3 DEF Fits
<1>5. q \in Int
    BY <1>1, <1>2, Settled
<1>6. /\ adjusted' \in [Bin -> Int]
      /\ \A b \in Bin : adjusted'[b] = adjusted[b] + cart[s][b].avail
    <2>1. \A b \in Bin : adjusted[b] \in Int
        BY Facts
    <2> QED
        BY <1>1, <1>2, <1>4, <1>5, <2>1, Facts
<1>7. slip' \in [Transfer -> Slip \cup {None}] /\ sheet' \in [Taking -> Sheet \cup {None}]
    BY <1>1, Facts
<1>8. DocumentInv'
    BY <1>1 DEF IndInv, DocumentInv
<1>9. \A u \in Session \ {s} : Undisturbed(u)
    BY <1>1, SameDocuments
<1>10. DocumentsExplainStock'
    <2> SUFFICES ASSUME NEW k \in Sku, NEW w \in Warehouse
                 PROVE  /\ book'[<<k, w>>].transit = Stock[<<k, w>>].transit + OnTheWay(k, w)'
                        /\ book'[<<k, w>>].avail + SentOff(k, w)'
                             = Stock[<<k, w>>].avail + adjusted'[<<k, w>>]
                               + Arrived(k, w)' + Found(k, w)'
        BY DEF DocumentsExplainStock
    <2> DEFINE b == <<k, w>>
    <2>1. b \in Bin
        BY DEF Bin
    <2> HIDE DEF b, q
    <2> DEFINE a == cart[s][b].avail
    <2>2. /\ book'[b].avail = book[b].avail + a /\ book'[b].transit = book[b].transit + 0
          /\ book[b].avail \in Int /\ book[b].transit \in Int /\ a \in Int
        BY <1>1, <1>4, <2>1, Settled
    <2>3. adjusted'[b] = adjusted[b] + a /\ adjusted[b] \in Int
        BY <1>6, <2>1, Facts
    <2> HIDE DEF a
    <2>4. TypeOK
        BY DEF IndInv
    <2>5. OnTheWay(k, w)' = OnTheWay(k, w)
        BY <1>1 DEF OnTheWay, Moving, InTransit
    <2>6. SentOff(k, w)' = SentOff(k, w) /\ Arrived(k, w)' = Arrived(k, w)
        BY <1>1 DEF SentOff, Arrived, Moving, InTransit, Received
    <2>7. Found(k, w)' = Found(k, w)
        BY <1>1 DEF Found
    <2>8. /\ OnTheWay(k, w) \in Int /\ SentOff(k, w) \in Int /\ Arrived(k, w) \in Int
          /\ Found(k, w) \in Int
        BY <2>4, SumTypes
    <2>9. /\ OnTheWay(k, w)' \in Int /\ SentOff(k, w)' \in Int /\ Arrived(k, w)' \in Int
          /\ Found(k, w)' \in Int
          /\ book'[b].transit \in Int /\ book'[b].avail \in Int /\ adjusted'[b] \in Int
        BY <2>2, <2>3, <2>5, <2>6, <2>7, <2>8
    <2>10. book'[b].transit - book[b].transit = OnTheWay(k, w)' - OnTheWay(k, w)
        BY <2>2, <2>5, <2>8
    <2>11. (book'[b].avail - book[b].avail) + (SentOff(k, w)' - SentOff(k, w))
              = (adjusted'[b] - adjusted[b]) + (Arrived(k, w)' - Arrived(k, w))
                + (Found(k, w)' - Found(k, w))
        <3>1. book'[b].avail - book[b].avail = a /\ adjusted'[b] - adjusted[b] = a
            BY <2>2, <2>3
        <3>2. /\ SentOff(k, w)' - SentOff(k, w) = 0 /\ Arrived(k, w)' - Arrived(k, w) = 0
              /\ Found(k, w)' - Found(k, w) = 0
            BY <2>6, <2>7, <2>8
        <3> QED
            BY <2>2, <3>1, <3>2
    <2> QED
        BY <2>9, <2>10, <2>11, Explained DEF b
<1> QED
    BY <1>1, <1>6, <1>7, <1>8, <1>9, <1>10, CommitStep

\* The commit at the end of a request (get_db).
LEMMA FinishStep ==
    ASSUME IndInv, NEW s \in Session, Finish(s)
    PROVE  IndInv'
<1>1. job[s] \in Job /\ JobInv(s) /\ Acting(s)
    BY Facts DEF Finish, Acting
<1>2. job[s].op \in TransferOps \cup TakingOps \cup {"adjust"}
    BY <1>1 DEF JobInv, Job
<1> QED
    BY <1>2, FinishTransfer, FinishTaking, FinishAdjust

-----------------------------------------------------------------------------
(* The invariant.                                                           *)

\* Documents that are not there carry nothing.
LEMMA NothingYet ==
    ASSUME slip = [t \in Transfer |-> None], sheet = [g \in Taking |-> None],
           NEW k \in Sku, NEW w \in Warehouse
    PROVE  OnTheWay(k, w) = 0 /\ SentOff(k, w) = 0 /\ Arrived(k, w) = 0 /\ Found(k, w) = 0
<1> DEFINE none == [t \in Transfer |-> 0]
           nothing == [g \in Taking |-> 0]
<1>1. none = [t \in Transfer |-> IF t \in {} THEN slip[t].qty[k] ELSE 0]
    OBVIOUS
<1>2. nothing = [g \in Taking |-> IF sheet[g] # None /\ sheet[g].house = w
                                  THEN sheet[g].posted[k] ELSE 0]
    OBVIOUS
<1>3. /\ {t \in Transfer : InTransit(t) /\ slip[t].to = w} = {}
      /\ {t \in Transfer : (InTransit(t) \/ Received(t)) /\ slip[t].from = w} = {}
      /\ {t \in Transfer : Received(t) /\ slip[t].to = w} = {}
    BY DEF InTransit, Received
<1>4. /\ DOMAIN none = Transfer /\ DOMAIN nothing = Taking
      /\ \A t \in Transfer : none[t] = 0
      /\ \A g \in Taking : nothing[g] = 0
    OBVIOUS
<1> HIDE DEF none, nothing
<1>5. Moving(k, {}) = SumFunction(none)
    BY <1>1 DEF Moving
<1>6. /\ OnTheWay(k, w) = SumFunction(none) /\ SentOff(k, w) = SumFunction(none)
      /\ Arrived(k, w) = SumFunction(none) /\ Found(k, w) = SumFunction(nothing)
    BY <1>2, <1>3, <1>5 DEF OnTheWay, SentOff, Arrived, Found
<1>7. SumFunctionOnSet(none, Transfer) = 0 /\ SumFunctionOnSet(nothing, Taking) = 0
    BY <1>4, SumZero, DocumentsAssumption
<1> QED
    BY <1>4, <1>6, <1>7 DEF SumFunction

\* Nothing has happened yet.
LEMMA InitInv == Init => IndInv
<1> SUFFICES ASSUME Init PROVE IndInv
    OBVIOUS
<1>1. /\ book = Stock /\ cart = [s \in Session |-> Book!EmptyCart]
      /\ plan = [s \in Session |-> <<>>] /\ pos = [s \in Session |-> 1]
      /\ slip = [t \in Transfer |-> None] /\ sheet = [g \in Taking |-> None]
      /\ gone = {} /\ adjusted = [b \in Bin |-> 0] /\ job = [s \in Session |-> Idle]
    BY DEF Init, Book!BookInit
<1>2. Book!EmptyCart \in [Bin -> Book!Amount] /\ <<>> \in Seq(AnyLeg) /\ 1 \in Nat
    BY DEF Book!EmptyCart, Book!Zero, Book!Amount
<1>3. TypeOK
    BY <1>1, IdleType, AmountsAssumption DEF TypeOK
<1>4. StockInv
    BY <1>1, <1>2, AmountsAssumption DEF StockInv
<1>5. DocumentInv
    BY <1>1 DEF DocumentInv
<1>6. ASSUME NEW s \in Session
      PROVE  SessionInv(s) /\ ~Acting(s)
    <2>1. job[s] = Idle /\ ~Acting(s)
        BY <1>1, IdleType DEF Acting
    <2>2. JobInv(s)
        BY <2>1, IdleType DEF JobInv, TransferOps, TakingOps
    <2>3. RestingInv(s) /\ pos[s] \in 1..(Len(plan[s]) + 1)
        BY <1>1 DEF RestingInv
    <2> QED
        BY <2>1, <2>2, <2>3 DEF SessionInv
<1>7. \A s \in Session : \A u \in Session \ {s} : Alone(s, u)
    BY <1>6 DEF Alone
<1>8. DocumentsExplainStock
    <2> SUFFICES ASSUME NEW k \in Sku, NEW w \in Warehouse
                 PROVE  LET there == book[<<k, w>>]
                            start == Stock[<<k, w>>]
                        IN  /\ there.transit = start.transit + OnTheWay(k, w)
                            /\ there.avail + SentOff(k, w)
                                 = start.avail + adjusted[<<k, w>>] + Arrived(k, w) + Found(k, w)
        BY DEF DocumentsExplainStock
    <2>1. <<k, w>> \in Bin
        BY DEF Bin
    <2>2. Stock[<<k, w>>] \in Book!Amount
        BY <2>1, AmountsAssumption
    <2>3. Stock[<<k, w>>].avail \in Int /\ Stock[<<k, w>>].transit \in Int
        BY <2>2 DEF Book!Amount
    <2>4. /\ book[<<k, w>>] = Stock[<<k, w>>] /\ adjusted[<<k, w>>] = 0
        BY <1>1, <2>1
    <2>5. OnTheWay(k, w) = 0 /\ SentOff(k, w) = 0 /\ Arrived(k, w) = 0 /\ Found(k, w) = 0
        BY <1>1, NothingYet
    <2> QED
        BY <2>3, <2>4, <2>5
<1> QED
    BY <1>3, <1>4, <1>5, <1>6, <1>7, <1>8 DEF IndInv

\* Every request keeps it.
LEMMA NextInv == IndInv /\ [Next]_vars => IndInv'
<1> SUFFICES ASSUME IndInv, [Next]_vars PROVE IndInv'
    OBVIOUS
<1>1. CASE UNCHANGED vars
    <2>1. UNCHANGED <<book, cart, plan, pos, slip, sheet, gone, adjusted, job>>
        BY <1>1 DEF vars, stock, docs
    <2>2. CASE Session = {}
        <3>1. TypeOK' /\ StockInv' /\ DocumentInv'
            BY <2>1 DEF IndInv, TypeOK, StockInv, DocumentInv
        <3>2. DocumentsExplainStock'
            BY <2>1, SameStock DEF IndInv
        <3> QED
            BY <2>2, <3>1, <3>2 DEF IndInv
    <2>3. CASE Session # {}
        <3>1. PICK s \in Session : TRUE
            BY <2>3
        <3>2. TypeOK' /\ StockInv' /\ DocumentInv'
            BY <2>1 DEF IndInv, TypeOK, StockInv, DocumentInv
        <3>3. \A u \in Session : SessionInv(u)'
            <4> SUFFICES ASSUME NEW u \in Session
                         PROVE  SessionInv(u)'
                OBVIOUS
            <4>1. SessionInv(u) /\ Undisturbed(u)
                BY <2>1, SameDocuments, Facts
            <4> QED
                BY <2>1, <4>1, OtherGoesOn
        <3>4. (\A u \in Session : \A v \in Session \ {u} : Alone(u, v))'
            BY <2>1 DEF IndInv, Alone, Acting
        <3>5. DocumentsExplainStock'
            BY <2>1, SameStock DEF IndInv
        <3> QED
            BY <3>2, <3>3, <3>4, <3>5 DEF IndInv
    <2> QED
        BY <2>2, <2>3
<1>2. CASE Next
    <2>1. PICK s \in Session : Start(s) \/ Proceed(s) \/ Refuse(s) \/ Crash(s)
        BY <1>2 DEF Next
    <2>2. CASE Start(s)
        BY <2>2, CreateTransferStep, ReadTransferStep, CreateTakingStep, ReadForCountStep,
           ReadForPostStep, ReadForVoidStep, StartAdjustStep, ReadForDeleteStep DEF Start
    <2>3. CASE Proceed(s)
        BY <2>3, ClaimStep, ClaimLostStep, PostStep, ViewStep, FinishStep, SaveCountsStep,
           SaveDeleteStep DEF Proceed
    <2>4. CASE Refuse(s)
        BY <2>4, DropStep DEF Refuse
    <2>5. CASE Crash(s)
        BY <2>5, DropStep DEF Crash
    <2> QED
        BY <2>1, <2>2, <2>3, <2>4, <2>5
<1> QED
    BY <1>1, <1>2

\* Every state of the specification has it.
THEOREM DocumentsInvariant == Spec => []IndInv
BY InitInv, NextInv, PTL DEF Spec

(***************************************************************************)
(* The committed transfers, takings and adjustments account for every      *)
(* piece, however requests interleave, fail or crash (transition,          *)
(* ship_transfer, receive_transfer, cancel_transfer, post_taking).         *)
(***************************************************************************)
THEOREM DocumentsAlwaysHold == Spec => []DocumentsHold
<1>1. IndInv => DocumentsHold
    BY DEF IndInv, DocumentsHold
<1> QED
    BY <1>1, DocumentsInvariant, PTL

\* The legs of a receipt or of a cancellation can always be booked (receive_move,
\* cancel_transit_moves): what is in transit to a warehouse covers each transfer on the way.
LEMMA RoomToComeBack ==
    ASSUME IndInv, NEW s \in Session, job[s].op \in {"receive", "cancel"}, Drafted(s)
    PROVE  InBounds(s)
<1> SUFFICES ASSUME NEW b \in Bin
             PROVE  Book!InBounds(Book!Sum2(book[b], cart[s][b]))
    BY DEF InBounds
<1>1. book[b] \in Book!Amount /\ Book!InBounds(book[b])
    BY Facts
<1>2. CASE ~Acting(s)
    <2>1. cart[s][b] = Book!Zero
        BY <1>2, Facts DEF SessionInv, RestingInv, Book!EmptyCart
    <2>2. Book!Sum2(book[b], cart[s][b]) = book[b]
        BY <1>1, <2>1 DEF Book!Amount, Book!Sum2, Book!Zero
    <2> QED
        BY <1>1, <2>2
<1>3. CASE Acting(s)
    <2> DEFINE doc == slip[job[s].on]
               op == job[s].op
               k == b[1]
               w == b[2]
               q == doc.qty[k]
    <2>1. /\ JobInv(s) /\ ActingInv(s) /\ op \in TransferOps
        BY <1>3, Facts DEF SessionInv, TransferOps
    <2>2. /\ job[s].on \in Transfer /\ doc \in Slip /\ doc.status = job[s].was
          /\ doc.status \in WasRead[op]
        BY <2>1, Facts DEF JobInv, ActingInv
    <2>3. k \in Sku /\ w \in Warehouse /\ b = <<k, w>> /\ q \in Nat
        BY <2>2, BinType DEF Slip
    <2>4. PICK d \in [Bin -> Book!Amount] : Fits(s, d) /\ \A c \in Bin : cart[s][c] = d[c]
        BY <1>3, FullCart
    <2>5. cart[s][b] = TransferEffect(op, doc.status, doc)[b]
        BY <2>1, <2>2, <2>4 DEF Fits
    <2>6. \/ cart[s][b] \in {Amount(0, 0), Amount(q, 0)}
          \/ /\ cart[s][b] \in {Amount(0, -q), Amount(q, -q)}
             /\ doc.status = "IN_TRANSIT" /\ doc.to = w
        <3> HIDE DEF doc, op, k, w, q
        <3>1. /\ cart[s][b] = TransferEffect(op, doc.status, doc)[b]
              /\ op = "receive" \/ op = "cancel"
              /\ b \in Bin /\ k = b[1] /\ w = b[2] /\ q = doc.qty[b[1]]
            BY <2>5 DEF doc, op, k, w, q
        <3>2. doc.status \in {"DRAFT", "IN_TRANSIT"}
            BY <2>2, <3>1 DEF WasRead
        <3>3. CASE doc.status = "DRAFT" /\ op = "cancel"
            BY <3>1, <3>3 DEF TransferEffect
        <3>4. CASE ~(doc.status = "DRAFT" /\ op = "cancel") /\ w = doc.from
            BY <3>1, <3>4 DEF TransferEffect
        <3>5. CASE ~(doc.status = "DRAFT" /\ op = "cancel") /\ w # doc.from /\ w = doc.to
            <4>1. doc.status = "IN_TRANSIT"
                BY <2>2, <3>1, <3>2, <3>5 DEF WasRead
            <4>2. cart[s][b] = Amount(IF op = "receive" THEN q ELSE 0, -q)
                BY <3>1, <3>5 DEF TransferEffect
            <4> QED
                BY <3>1, <3>5, <4>1, <4>2
        <3>6. CASE ~(doc.status = "DRAFT" /\ op = "cancel") /\ w # doc.from /\ w # doc.to
            BY <3>1, <3>6 DEF TransferEffect
        <3> QED
            BY <3>3, <3>4, <3>5, <3>6
    <2>7. doc.status = "IN_TRANSIT" /\ doc.to = w => q <= book[b].transit
        <3> SUFFICES ASSUME doc.status = "IN_TRANSIT", doc.to = w
                     PROVE  q <= book[b].transit
            OBVIOUS
        <3>1. TypeOK /\ DocumentsExplainStock
            BY DEF IndInv
        <3>2. Way(doc, k, w) = q
            BY <2>2, AbsentAssumption DEF Way
        <3> HIDE DEF q, k, w
        <3>3. q <= OnTheWay(k, w) /\ OnTheWay(k, w) \in Int
            BY <2>2, <2>3, <3>1, <3>2, SumTypes
        <3>4. book[b].transit = Stock[b].transit + OnTheWay(k, w)
            BY <2>3, <3>1 DEF DocumentsExplainStock
        <3>5. Stock[b] \in Book!Amount /\ Book!InBounds(Stock[b])
            BY AmountsAssumption
        <3>6. Stock[b].transit \in Int /\ Stock[b].transit >= 0
            BY <3>5 DEF Book!Amount, Book!InBounds
        <3> QED
            BY <2>3, <3>3, <3>4, <3>6
    <2> HIDE DEF q, doc
    <2>8. CASE cart[s][b] \in {Amount(0, 0), Amount(q, 0)}
        BY <1>1, <2>3, <2>8 DEF Amount, Book!Amount, Book!Sum2, Book!InBounds
    <2>9. CASE cart[s][b] \in {Amount(0, -q), Amount(q, -q)} /\ q <= book[b].transit
        BY <1>1, <2>3, <2>9 DEF Amount, Book!Amount, Book!Sum2, Book!InBounds
    <2> QED
        BY <2>6, <2>7, <2>8, <2>9
<1> QED
    BY <1>2, <1>3

(***************************************************************************)
(* Goods in transit are never refused for want of stock, whatever the      *)
(* other requests have done since the transfer was read (receive_transfer, *)
(* cancel_transfer).                                                       *)
(***************************************************************************)
THEOREM GoodsAlwaysComeBack == Spec => []GoodsComeBack
<1>1. IndInv => GoodsComeBack
    BY RoomToComeBack DEF GoodsComeBack
<1> QED
    BY <1>1, DocumentsInvariant, PTL
=============================================================================

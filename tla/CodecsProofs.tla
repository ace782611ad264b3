----------------------------- MODULE CodecsProofs ------------------------------
(* Proofs that every structure whose lengths are sendable (Codecs) is encoded  *)
(* within its size, accepted by its decoder and read where it was written, and *)
(* that every chain is followed as its links allow. First come lists of items  *)
(* one after the other and the chains made of them, then the structures one by *)
(* one, and last the messages and the properties.                              *)
EXTENDS Codecs, WellFoundedInduction, TLAPS

-----------------------------------------------------------------------------
(* Rounding, and items one after the other.                                    *)

Less == {p \in Nat \X Nat : p[1] < p[2]}

\* A set of naturals has a smallest element.
LEMMA Smallest ==
  ASSUME NEW S, S \subseteq Nat, S # {}
  PROVE  \E x \in S : \A y \in S : ~(y < x)
<1>1. IsWellFoundedOn(Less, Nat)
  BY NatLessThanWellFounded DEF OpToRel, Less
<1>2. \E x \in S : \A y \in S : ~(<<y, x>> \in Less)
  BY <1>1, WFMin, Zenon
<1> QED BY <1>2 DEF Less

LEMMA RoundupUp ==
  ASSUME NEW x \in Nat, NEW align \in {1, 2, 4, 8, 16}
  PROVE  Roundup(x, align) \in Nat /\ Roundup(x, align) >= x /\ Roundup(x, 1) = x
<1>1. CASE align = 1
  BY <1>1 DEF Roundup
<1>2. CASE align = 2
  BY <1>2 DEF Roundup
<1>3. CASE align = 4
  BY <1>3 DEF Roundup
<1>4. CASE align = 8
  BY <1>4 DEF Roundup
<1>5. CASE align = 16
  BY <1>5 DEF Roundup
<1> QED BY <1>1, <1>2, <1>3, <1>4, <1>5

\* What is rounded to 8 is a multiple of 8, and from a multiple of 8 on only the
\* rest is rounded.
LEMMA RoundupEight ==
  ASSUME NEW x \in Nat, NEW y \in Nat
  PROVE  /\ Roundup(x, 8) % 8 = 0
         /\ x % 8 = 0 => Roundup(x, 8) = x /\ Roundup(x + y, 8) = x + Roundup(y, 8)
BY DEF Roundup

LEMMA RoundupAfter ==
  ASSUME NEW x \in Nat, NEW y \in Nat, NEW align \in {1, 8}, align = 8 => x % 8 = 0
  PROVE  Roundup(x + y, align) = x + Roundup(y, align)
<1>1. CASE align = 1
  BY <1>1 DEF Roundup
<1>2. CASE align = 8
  BY <1>2 DEF Roundup
<1> QED BY <1>1, <1>2

\* A list of sizes.
IsSizes(sizes) ==
  /\ Len(sizes) \in Nat /\ DOMAIN sizes = 1..Len(sizes)
  /\ sizes = <<>> \/ Len(sizes) # 0
  /\ \A i \in 1..Len(sizes) : sizes[i] \in Nat

\* The positions of the items are those their definition describes.
LEMMA StartsDef ==
  ASSUME NEW from, NEW sizes, NEW align, Len(sizes) \in Nat, DOMAIN sizes = 1..Len(sizes)
  PROVE  Starts(from, sizes, align) =
           [i \in 1..Len(sizes) |->
              Roundup(IF i = 1 THEN from
                      ELSE Starts(from, sizes, align)[i - 1] + sizes[i - 1], align)]
<1> DEFINE At(f, i) == Roundup(IF i = 1 THEN from ELSE f[i - 1] + sizes[i - 1], align)
           Fits(f, n) == f = [i \in 1..n |-> At(f, i)]
           Bad == {n \in Nat : ~\E f : Fits(f, n)}
<1>1. ASSUME Bad # {} PROVE FALSE
  <2>1. PICK n \in Bad : \A m \in Bad : ~(m < n)
    BY <1>1, Smallest
  <2>2. n # 0
    <3>1. Fits([i \in 1..0 |-> 0], 0)
      OBVIOUS
    <3> QED BY <2>1, <3>1
  <2>3. n - 1 \in Nat /\ n - 1 < n
    BY <2>1, <2>2
  <2>4. PICK f : Fits(f, n - 1)
    BY <2>1, <2>3
  <2> DEFINE g == [i \in 1..n |-> IF i = n THEN At(f, n) ELSE f[i]]
  <2>5. \A i \in 1..n : At(g, i) = At(f, i)
    <3>1. \A i \in 1..n : i # 1 => i - 1 \in 1..n /\ i - 1 # n
      BY <2>1
    <3> QED BY <3>1
  <2>6. \A i \in 1..n : g[i] = At(f, i)
    <3>1. \A i \in 1..n : i # n => i \in 1..(n - 1)
      BY <2>1
    <3> QED BY <2>4, <3>1
  <2>7. g = [i \in 1..n |-> At(g, i)]
    BY <2>5, <2>6
  <2> HIDE DEF g
  <2> QED BY <2>1, <2>7
<1>2. \E f : Fits(f, Len(sizes))
  BY <1>1
<1>3. Starts(from, sizes, align) = CHOOSE f : Fits(f, Len(sizes))
  BY DEF Starts
<1> QED BY <1>2, <1>3

\* Each item begins where the one before it has ended, at a multiple of the
\* alignment.
Placed(at, from, sizes, align) ==
  /\ at = [i \in 1..Len(sizes) |-> at[i]]
  /\ \A i \in 1..Len(sizes) :
       /\ at[i] \in Nat /\ (align = 8 => at[i] % 8 = 0)
       /\ i = 1 => at[i] = Roundup(from, align)
       /\ i > 1 => at[i] = Roundup(at[i - 1] + sizes[i - 1], align)
       /\ i > 1 => at[i] >= at[i - 1] + sizes[i - 1]

LEMMA StartsPlaced ==
  ASSUME NEW from \in Nat, NEW sizes, NEW align \in {1, 8}, IsSizes(sizes)
  PROVE  Placed(Starts(from, sizes, align), from, sizes, align)
<1> USE DEF IsSizes
<1> DEFINE at == Starts(from, sizes, align)
           Bad == {i \in 1..Len(sizes) : at[i] \notin Nat}
<1>1. at = [i \in 1..Len(sizes) |-> Roundup(IF i = 1 THEN from ELSE at[i - 1] + sizes[i - 1], align)]
  BY StartsDef
<1> HIDE DEF at
<1>2. \A i \in 1..Len(sizes) : /\ i = 1 => at[i] = Roundup(from, align)
                               /\ i > 1 => at[i] = Roundup(at[i - 1] + sizes[i - 1], align)
  BY <1>1
<1>3. align \in {1, 2, 4, 8, 16}
  OBVIOUS
<1>4. ASSUME Bad # {} PROVE FALSE
  <2>1. PICK i \in Bad : \A j \in Bad : ~(j < i)
    <3>1. Bad \subseteq Nat
      OBVIOUS
    <3> QED BY <1>4, <3>1, Smallest
  <2>2. i \in 1..Len(sizes) /\ at[i] \notin Nat
    BY <2>1
  <2>3. \A j \in 1..Len(sizes) : j < i => at[j] \in Nat
    BY <2>1
  <2> HIDE DEF Bad
  <2>4. CASE i = 1
    <3>1. at[i] = Roundup(from, align)
      BY <1>2, <2>2, <2>4
    <3>2. Roundup(from, align) \in Nat
      BY <1>3, RoundupUp
    <3> QED BY <2>2, <3>1, <3>2
  <2>5. CASE i > 1
    <3>1. i - 1 \in 1..Len(sizes) /\ i - 1 < i
      BY <2>2, <2>5
    <3>2. at[i - 1] + sizes[i - 1] \in Nat
      BY <2>3, <3>1
    <3>3. at[i] = Roundup(at[i - 1] + sizes[i - 1], align)
      BY <1>2, <2>2, <2>5
    <3> QED BY <1>3, <2>2, <3>2, <3>3, RoundupUp
  <2> QED BY <2>2, <2>4, <2>5
<1>5. \A i \in 1..Len(sizes) : at[i] \in Nat
  BY <1>4
<1>6. ASSUME NEW i \in 1..Len(sizes), i > 1
      PROVE  /\ at[i - 1] + sizes[i - 1] \in Nat
             /\ at[i] = Roundup(at[i - 1] + sizes[i - 1], align)
  <2>1. i - 1 \in 1..Len(sizes)
    BY <1>6
  <2> QED BY <1>2, <1>5, <1>6, <2>1
<1>7. ASSUME NEW i \in 1..Len(sizes), i > 1 PROVE at[i] >= at[i - 1] + sizes[i - 1]
  BY <1>3, <1>6, <1>7, RoundupUp
<1>8. ASSUME NEW i \in 1..Len(sizes), align = 8 PROVE at[i] % 8 = 0
  <2>1. CASE i = 1
    BY <1>2, <1>8, <2>1, RoundupEight
  <2>2. CASE i > 1
    BY <1>6, <1>8, <2>2, RoundupEight
  <2> QED BY <2>1, <2>2
<1>9. at = [i \in 1..Len(sizes) |-> at[i]]
  BY <1>1
<1>10. Placed(at, from, sizes, align)
  BY <1>2, <1>5, <1>7, <1>8, <1>9, Zenon DEF Placed
<1> QED BY <1>10 DEF at

\* The whole ends behind each of its items.
LEMMA EndsBehind ==
  ASSUME NEW from \in Nat, NEW sizes, NEW align \in {1, 8}, sizes # <<>>,
         IsSizes(sizes), Len(sizes) # 0
  PROVE  /\ Ends(from, sizes, align) = Starts(from, sizes, align)[Len(sizes)] + sizes[Len(sizes)]
         /\ Ends(from, sizes, align) \in Nat
         /\ \A i \in 1..Len(sizes) :
              Starts(from, sizes, align)[i] + sizes[i] <= Ends(from, sizes, align)
<1> DEFINE at == Starts(from, sizes, align)
           end == Ends(from, sizes, align)
           Bad == {n \in 0..(Len(sizes) - 1) :
                     ~(at[Len(sizes) - n] + sizes[Len(sizes) - n] <= end)}
<1> USE DEF IsSizes
<1>1. end = at[Len(sizes)] + sizes[Len(sizes)]
  BY DEF Ends
<1>2. /\ \A i \in 1..Len(sizes) : at[i] \in Nat
      /\ \A i \in 1..Len(sizes) : i > 1 => at[i] >= at[i - 1] + sizes[i - 1]
  BY StartsPlaced DEF Placed
<1> HIDE DEF at, end
<1>3. end \in Nat
  BY <1>1, <1>2
<1>4. ASSUME Bad # {} PROVE FALSE
  <2>1. PICK n \in Bad : \A m \in Bad : ~(m < n)
    <3>1. Bad \subseteq Nat
      OBVIOUS
    <3> QED BY <1>4, <3>1, Smallest
  <2>2. n # 0
    <3>1. Len(sizes) - 0 = Len(sizes)
      OBVIOUS
    <3> QED BY <1>1, <1>3, <2>1, <3>1
  <2>3. n - 1 \in 0..(Len(sizes) - 1) /\ n - 1 < n
    BY <2>1, <2>2
  <2> DEFINE i == Len(sizes) - n
  <2>4. i \in 1..Len(sizes) /\ i + 1 \in 1..Len(sizes) /\ i + 1 > 1 /\ i + 1 = Len(sizes) - (n - 1)
    BY <2>1, <2>3
  <2>5. at[i + 1] + sizes[i + 1] <= end
    BY <2>1, <2>3, <2>4
  <2>6. at[i + 1] >= at[i] + sizes[i]
    <3>1. (i + 1) - 1 = i
      BY <2>4
    <3> QED BY <1>2, <2>4, <3>1
  <2>7. at[i] \in Nat /\ at[i + 1] \in Nat /\ sizes[i] \in Nat /\ sizes[i + 1] \in Nat
    BY <1>2, <2>4
  <2>8. at[i] + sizes[i] <= end
    BY <1>3, <2>5, <2>6, <2>7
  <2> QED BY <2>1, <2>8
<1>5. \A i \in 1..Len(sizes) : at[i] + sizes[i] <= end
  <2> SUFFICES ASSUME NEW i \in 1..Len(sizes) PROVE at[i] + sizes[i] <= end
    OBVIOUS
  <2>1. Len(sizes) - i \in 0..(Len(sizes) - 1) /\ Len(sizes) - (Len(sizes) - i) = i
    OBVIOUS
  <2> QED BY <1>4, <2>1
<1> QED BY <1>1, <1>3, <1>5 DEF at, end

LEMMA EndsIsNat ==
  ASSUME NEW from \in Nat, NEW sizes, NEW align \in {1, 8}, IsSizes(sizes)
  PROVE  Ends(from, sizes, align) \in Nat
<1>1. CASE sizes = <<>>
  BY <1>1 DEF Ends
<1>2. CASE sizes # <<>>
  <2>1. Len(sizes) # 0
    BY <1>2 DEF IsSizes
  <2> QED BY <1>2, <2>1, EndsBehind
<1> QED BY <1>1, <1>2

-----------------------------------------------------------------------------
(* Chains.                                                                     *)

\* Links that are the rounded sizes, but for the last.
Linked(links, sizes, align) ==
  /\ Len(links) = Len(sizes)
  /\ \A i \in 1..(Len(sizes) - 1) : links[i] = Roundup(sizes[i], align)

\* Each position is the one before plus its link.
Steps(at, first, links) ==
  at = [i \in 1..Len(links) |-> IF i = 1 THEN first ELSE at[i - 1] + links[i - 1]]

\* A decoder that starts at `first' and adds the links visits the positions of
\* which each is the one before plus its link.
LEMMA VisitedAre ==
  ASSUME NEW first, NEW links, NEW at, Len(links) \in Nat, Steps(at, first, links)
  PROVE  Visited(first, links) = at
<1>1. Visited(first, links) = CHOOSE p : Steps(p, first, links)
  BY DEF Visited, Steps
<1>2. Steps(at, first, links)
  OBVIOUS
<1>3. ASSUME NEW p, Steps(p, first, links) PROVE p = at
  <2> DEFINE Bad == {i \in 1..Len(links) : p[i] # at[i]}
  <2>1. \A i \in 1..Len(links) : p[i] = IF i = 1 THEN first ELSE p[i - 1] + links[i - 1]
    BY <1>3 DEF Steps
  <2>2. \A i \in 1..Len(links) : at[i] = IF i = 1 THEN first ELSE at[i - 1] + links[i - 1]
    BY <1>2 DEF Steps
  <2>3. DOMAIN p = 1..Len(links) /\ DOMAIN at = 1..Len(links)
    BY <1>2, <1>3 DEF Steps
  <2>4. p = [i \in 1..Len(links) |-> p[i]] /\ at = [i \in 1..Len(links) |-> at[i]]
    BY <1>2, <1>3 DEF Steps
  <2>5. ASSUME Bad # {} PROVE FALSE
    <3>1. PICK i \in Bad : \A j \in Bad : ~(j < i)
      <4>1. Bad \subseteq Nat
        OBVIOUS
      <4> QED BY <2>5, <4>1, Smallest
    <3>2. i # 1
      BY <2>1, <2>2, <3>1
    <3>3. i - 1 \in 1..Len(links) /\ i - 1 < i
      BY <3>1, <3>2
    <3>4. p[i - 1] = at[i - 1]
      BY <3>1, <3>3
    <3>5. p[i] = p[i - 1] + links[i - 1] /\ at[i] = at[i - 1] + links[i - 1]
      BY <2>1, <2>2, <3>1, <3>2
    <3> QED BY <3>1, <3>4, <3>5
  <2>6. \A i \in 1..Len(links) : p[i] = at[i]
    BY <2>5
  <2> QED BY <2>4, <2>6
<1> QED BY <1>1, <1>2, <1>3

\* Aligned items that are linked by their rounded sizes are visited.
LEMMA RoundedVisited ==
  ASSUME NEW from \in Nat, NEW sizes, NEW align \in {1, 8}, NEW links,
         IsSizes(sizes), Linked(links, sizes, align)
  PROVE  LET at == Starts(from, sizes, align) IN Visited(at[1], links) = at
<1> DEFINE at == Starts(from, sizes, align)
<1>1. /\ Len(sizes) \in Nat /\ DOMAIN sizes = 1..Len(sizes)
      /\ \A i \in 1..Len(sizes) : sizes[i] \in Nat
  BY DEF IsSizes
<1>2. Placed(at, from, sizes, align)
  BY StartsPlaced
<1> HIDE DEF at
<1>3. /\ at = [i \in 1..Len(sizes) |-> at[i]]
      /\ \A i \in 1..Len(sizes) :
           /\ at[i] \in Nat /\ (align = 8 => at[i] % 8 = 0)
           /\ i > 1 => at[i] = Roundup(at[i - 1] + sizes[i - 1], align)
  BY <1>2 DEF Placed
<1>4. ASSUME NEW i \in 1..Len(sizes), i # 1 PROVE at[i] = at[i - 1] + links[i - 1]
  <2>1. i - 1 \in 1..Len(sizes) /\ i - 1 \in 1..(Len(sizes) - 1) /\ i > 1
    <3>1. Len(sizes) \in Nat
      BY <1>1
    <3> QED BY <1>4, <3>1
  <2>2. /\ at[i - 1] \in Nat /\ sizes[i - 1] \in Nat /\ (align = 8 => at[i - 1] % 8 = 0)
        /\ at[i] = Roundup(at[i - 1] + sizes[i - 1], align)
    BY <1>1, <1>3, <2>1, Zenon
  <2>3. links[i - 1] = Roundup(sizes[i - 1], align)
    BY <2>1, Zenon DEF Linked
  <2>4. Roundup(at[i - 1] + sizes[i - 1], align) = at[i - 1] + Roundup(sizes[i - 1], align)
    BY <2>2, RoundupAfter, Zenon
  <2> QED BY <2>2, <2>3, <2>4
<1>5. Len(links) = Len(sizes)
  BY DEF Linked
<1>6. Steps(at, at[1], links)
  BY <1>3, <1>4, <1>5 DEF Steps
<1>7. Visited(at[1], links) = at
  BY <1>1, <1>5, <1>6, VisitedAre
<1> QED BY <1>7 DEF at

\* The decoder of a chain arrives at each item as long as the links taken are
\* those of `exact', and not by another link; no item reaches into the next.
Reached(c, exact, sizes) ==
  LET visited == Visited(c.at[1], c.links) IN
  /\ DOMAIN visited = 1..Len(sizes) /\ DOMAIN c.at = 1..Len(sizes) /\ Len(sizes) \in Nat
  /\ \A k \in DOMAIN c.at :
       (\A i \in 1..(k - 2) : i \in exact) =>
         (visited[k] = c.at[k] <=> \A i \in 1..(k - 1) : i \in exact)

Separate(c, sizes) ==
  \A i \in DOMAIN c.at : c.at[i] + sizes[i] <= IF i = Len(sizes) THEN c.size ELSE c.at[i + 1]

LEMMA SeparateItems ==
  ASSUME NEW from \in Nat, NEW sizes, NEW align \in {1, 8}, NEW c, IsSizes(sizes),
         c.at = Starts(from, sizes, align),
         sizes # <<>> => c.size \in Nat /\ c.size >= Ends(from, sizes, align)
  PROVE  Separate(c, sizes)
<1> DEFINE at == Starts(from, sizes, align)
<1>0. Len(sizes) \in Nat
  BY DEF IsSizes
<1>1. /\ Len(sizes) \in Nat /\ DOMAIN sizes = 1..Len(sizes)
      /\ \A i \in 1..Len(sizes) : sizes[i] \in Nat
  BY DEF IsSizes
<1>3. /\ DOMAIN at = 1..Len(sizes)
      /\ \A i \in 1..Len(sizes) : at[i] \in Nat /\ (i > 1 => at[i] >= at[i - 1] + sizes[i - 1])
  <2>1. Placed(at, from, sizes, align)
    BY StartsPlaced
  <2> HIDE DEF at
  <2> QED BY <2>1 DEF Placed
<1>4. ASSUME NEW i \in 1..Len(sizes)
      PROVE  at[i] + sizes[i] <= IF i = Len(sizes) THEN c.size ELSE at[i + 1]
  <2>1. CASE i = Len(sizes)
    <3>1. sizes # <<>> /\ Len(sizes) # 0
      BY <1>1, <1>4
    <3>2. at[i] + sizes[i] <= Ends(from, sizes, align) /\ Ends(from, sizes, align) \in Nat
      BY <1>4, <3>1, EndsBehind
    <3> HIDE DEF at
    <3>3. at[i] + sizes[i] \in Nat
      BY <1>1, <1>3, <1>4
    <3> QED BY <2>1, <3>1, <3>2, <3>3
  <2>2. CASE i # Len(sizes)
    <3>1. i + 1 \in 1..Len(sizes) /\ i + 1 > 1 /\ (i + 1) - 1 = i
      BY <1>0, <1>4, <2>2
    <3> HIDE DEF at
    <3>2. at[i + 1] >= at[(i + 1) - 1] + sizes[(i + 1) - 1]
      BY <1>3, <3>1
    <3>3. at[i] \in Nat /\ at[i + 1] \in Nat /\ sizes[i] \in Nat
      BY <1>1, <1>3, <1>4, <3>1
    <3> QED BY <2>2, <3>1, <3>2, <3>3
  <2> QED BY <2>1, <2>2
<1>5. c.at = at
  OBVIOUS
<1> HIDE DEF at
<1> QED BY <1>3, <1>4, <1>5 DEF Separate

\* A chain that is linked by the rounded sizes: every link is exact.
LEMMA FollowedChain ==
  ASSUME NEW from \in Nat, NEW sizes, NEW align \in {1, 8}, NEW c,
         IsSizes(sizes), Linked(c.links, sizes, align),
         c.at = Starts(from, sizes, align),
         sizes # <<>> => c.size \in Nat /\ c.size >= Ends(from, sizes, align)
  PROVE  Reached(c, 1..Len(sizes), sizes) /\ Separate(c, sizes)
<1> DEFINE at == Starts(from, sizes, align)
<1>1. Visited(at[1], c.links) = at
  BY RoundedVisited
<1>2. DOMAIN at = 1..Len(sizes) /\ Len(sizes) \in Nat
  BY StartsPlaced DEF Placed, IsSizes
<1>3. c.at = at
  OBVIOUS
<1>4. \A k \in 1..Len(sizes) : \A i \in 1..(k - 1) : i \in 1..Len(sizes)
  BY <1>2
<1>5. Separate(c, sizes)
  BY SeparateItems
<1> HIDE DEF at
<1> QED BY <1>1, <1>2, <1>3, <1>4, <1>5 DEF Reached

\* The positions a decoder visits are those their definition describes.
LEMMA VisitedDef ==
  ASSUME NEW first, NEW links, Len(links) \in Nat
  PROVE  Steps(Visited(first, links), first, links)
<1> DEFINE At(f, i) == IF i = 1 THEN first ELSE f[i - 1] + links[i - 1]
           Fits(f, n) == f = [i \in 1..n |-> At(f, i)]
           Bad == {n \in Nat : ~\E f : Fits(f, n)}
<1>1. ASSUME Bad # {} PROVE FALSE
  <2>1. PICK n \in Bad : \A m \in Bad : ~(m < n)
    BY <1>1, Smallest
  <2>2. n # 0
    <3>1. Fits([i \in 1..0 |-> 0], 0)
      OBVIOUS
    <3> QED BY <2>1, <3>1
  <2>3. n - 1 \in Nat /\ n - 1 < n
    BY <2>1, <2>2
  <2>4. PICK f : Fits(f, n - 1)
    BY <2>1, <2>3
  <2> DEFINE g == [i \in 1..n |-> IF i = n THEN At(f, n) ELSE f[i]]
  <2>5. \A i \in 1..n : At(g, i) = At(f, i)
    <3>1. \A i \in 1..n : i # 1 => i - 1 \in 1..n /\ i - 1 # n
      BY <2>1
    <3> QED BY <3>1
  <2>6. \A i \in 1..n : g[i] = At(f, i)
    <3>1. \A i \in 1..n : i # n => i \in 1..(n - 1)
      BY <2>1
    <3> QED BY <2>4, <3>1
  <2>7. g = [i \in 1..n |-> At(g, i)]
    BY <2>5, <2>6
  <2> HIDE DEF g
  <2> QED BY <2>1, <2>7
<1>2. \E f : Fits(f, Len(links))
  BY <1>1
<1>3. Visited(first, links) = CHOOSE f : Fits(f, Len(links))
  BY DEF Visited
<1> QED BY <1>2, <1>3 DEF Steps

LEMMA ListIsSizes ==
  ASSUME NEW sizes \in Seq(Nat)
  PROVE  IsSizes(sizes)
BY DEF IsSizes

LEMMA InnerIndex ==
  ASSUME NEW sizes, IsSizes(sizes), NEW i \in 1..(Len(sizes) - 1)
  PROVE  i \in 1..Len(sizes) /\ i # Len(sizes) /\ i \in DOMAIN sizes /\ sizes[i] \in Nat
<1>1. Len(sizes) \in Nat
  BY DEF IsSizes
<1>2. i \in 1..Len(sizes) /\ i # Len(sizes)
  BY <1>1
<1> QED BY <1>2, Zenon DEF IsSizes

LEMMA LinkedBy ==
  ASSUME NEW sizes, IsSizes(sizes), NEW align, NEW links, DOMAIN links = 1..Len(sizes),
         \A i \in 1..(Len(sizes) - 1) : links[i] = Roundup(sizes[i], align)
  PROVE  Linked(links, sizes, align)
<1>1. Len(sizes) \in Nat
  BY DEF IsSizes
<1>2. Len(links) = Len(sizes)
  BY <1>1
<1> QED BY <1>2 DEF Linked

\* Create contexts are linked by their sizes: the link of one of a multiple of 8
\* bytes is exact, and the link of another leads to where no context begins.
LEMMA CreateContextsReached ==
  ASSUME NEW sizes, IsSizes(sizes)
  PROVE  /\ Reached(CreateContexts(sizes), {i \in 1..Len(sizes) : sizes[i] % 8 = 0}, sizes)
         /\ Separate(CreateContexts(sizes), sizes)
<1> DEFINE c == CreateContexts(sizes)
           exact == {i \in 1..Len(sizes) : sizes[i] % 8 = 0}
           at == Starts(88, sizes, 8)
           visited == Visited(at[1], c.links)
           Bad == {k \in 1..Len(sizes) : /\ \A i \in 1..(k - 1) : i \in exact
                                         /\ visited[k] # at[k]}
<1>1. /\ c.at = at /\ c.size = Ends(88, sizes, 8)
      /\ c.links = [i \in DOMAIN sizes |-> IF i = Len(sizes) THEN 0 ELSE sizes[i]]
  BY DEF CreateContexts, Links
<1>2. /\ Len(sizes) \in Nat /\ DOMAIN sizes = 1..Len(sizes)
      /\ \A i \in 1..Len(sizes) : sizes[i] \in Nat
  BY DEF IsSizes
<1> HIDE DEF c
<1>3. Len(c.links) = Len(sizes)
  BY <1>1, <1>2
<1>4. Steps(visited, at[1], c.links)
  BY <1>2, <1>3, VisitedDef, Zenon
<1>5. Placed(at, 88, sizes, 8)
  BY StartsPlaced
<1> HIDE DEF at, visited
<1>6. DOMAIN visited = 1..Len(sizes) /\ DOMAIN at = 1..Len(sizes)
  BY <1>3, <1>4, <1>5 DEF Steps, Placed
<1>7. \A k \in 1..Len(sizes) : k = 1 => visited[k] = at[k]
  BY <1>3, <1>4 DEF Steps
<1>8. ASSUME NEW k \in 1..Len(sizes), k > 1
      PROVE  /\ k - 1 \in 1..Len(sizes) /\ k - 1 < k
             /\ visited[k] = visited[k - 1] + sizes[k - 1]
             /\ at[k] = at[k - 1] + Roundup(sizes[k - 1], 8)
             /\ at[k - 1] \in Nat /\ sizes[k - 1] \in Nat
  <2>1. k - 1 \in 1..Len(sizes) /\ k - 1 < k /\ k - 1 # Len(sizes) /\ k # 1
    BY <1>2, <1>8
  <2>2. visited[k] = visited[k - 1] + c.links[k - 1]
    BY <1>3, <1>4, <2>1 DEF Steps
  <2>3. c.links[k - 1] = sizes[k - 1]
    BY <1>1, <1>2, <2>1
  <2>4. /\ at[k] = Roundup(at[k - 1] + sizes[k - 1], 8)
        /\ at[k - 1] \in Nat /\ at[k - 1] % 8 = 0
    BY <1>5, <1>8, <2>1 DEF Placed
  <2>5. sizes[k - 1] \in Nat
    BY <1>2, <2>1
  <2>6. at[k] = at[k - 1] + Roundup(sizes[k - 1], 8)
    BY <2>4, <2>5, RoundupEight
  <2> QED BY <2>1, <2>2, <2>3, <2>4, <2>5, <2>6
<1>9. ASSUME Bad # {} PROVE FALSE
  <2>1. PICK k \in Bad : \A j \in Bad : ~(j < k)
    <3>1. Bad \subseteq Nat
      OBVIOUS
    <3> QED BY <1>9, <3>1, Smallest
  <2>2. k \in 1..Len(sizes) /\ visited[k] # at[k] /\ \A i \in 1..(k - 1) : i \in exact
    BY <2>1
  <2>3. k > 1
    BY <1>7, <2>2
  <2>4. k - 1 \in 1..Len(sizes) /\ k - 1 < k /\ k - 1 \in 1..(k - 1)
    BY <2>2, <2>3
  <2>5. k - 1 \notin Bad
    BY <2>1, <2>4
  <2>6. \A i \in 1..((k - 1) - 1) : i \in 1..(k - 1)
    BY <2>2
  <2>7. visited[k - 1] = at[k - 1]
    BY <2>2, <2>4, <2>5, <2>6
  <2>8. sizes[k - 1] % 8 = 0
    BY <2>2, <2>4
  <2> HIDE DEF Bad, exact
  <2>9. Roundup(sizes[k - 1], 8) = sizes[k - 1]
    BY <1>2, <2>4, <2>8, RoundupEight
  <2> QED BY <1>8, <2>2, <2>3, <2>7, <2>9
<1>10. ASSUME NEW k \in 1..Len(sizes), \A i \in 1..(k - 1) : i \in exact
       PROVE  visited[k] = at[k]
  BY <1>9, <1>10
<1> HIDE DEF Bad
<1>11. ASSUME NEW k \in 1..Len(sizes), \A i \in 1..(k - 2) : i \in exact, visited[k] = at[k],
              NEW i \in 1..(k - 1)
       PROVE  i \in exact
  <2>1. CASE i \in 1..(k - 2)
    BY <1>11, <2>1
  <2>2. CASE i \notin 1..(k - 2)
    <3>1. i = k - 1 /\ k > 1 /\ k - 1 \in 1..Len(sizes)
      BY <1>2, <2>2
    <3>2. \A j \in 1..((k - 1) - 1) : j \in 1..(k - 2)
      OBVIOUS
    <3>3. visited[k - 1] = at[k - 1]
      BY <1>10, <1>11, <3>1, <3>2
    <3>4. at[k - 1] + sizes[k - 1] = at[k - 1] + Roundup(sizes[k - 1], 8)
      BY <1>8, <1>11, <3>1, <3>3
    <3>5. at[k - 1] \in Nat /\ sizes[k - 1] \in Nat
      BY <1>8, <3>1
    <3>6. sizes[k - 1] = Roundup(sizes[k - 1], 8)
      <4>1. Roundup(sizes[k - 1], 8) \in Nat
        BY <3>5, RoundupUp
      <4> QED BY <3>4, <3>5, <4>1
    <3>7. sizes[k - 1] % 8 = 0
      BY <3>5, <3>6, RoundupEight
    <3> QED BY <3>1, <3>7
  <2> QED BY <2>1, <2>2
<1> HIDE DEF exact
<1>12. Reached(c, exact, sizes)
  BY <1>1, <1>2, <1>6, <1>10, <1>11 DEF Reached, visited
<1>13. Separate(c, sizes)
  <2>1. Ends(88, sizes, 8) \in Nat
    BY EndsIsNat
  <2>2. sizes # <<>> => c.size \in Nat /\ c.size >= Ends(88, sizes, 8)
    BY <1>1, <2>1
  <2> QED BY <1>1, <2>2, SeparateItems DEF at
<1> QED BY <1>12, <1>13 DEF c, exact

LEMMA NegotiateContextsFollowed ==
  ASSUME NEW sizes, IsSizes(sizes)
  PROVE  /\ Reached(NegotiateContexts(sizes), 1..Len(sizes), sizes)
         /\ Separate(NegotiateContexts(sizes), sizes)
<1> DEFINE c == NegotiateContexts(sizes)
<1>1. /\ c.at = Starts(64, sizes, 8) /\ c.size = Ends(64, sizes, 8)
      /\ c.links = [i \in DOMAIN sizes |-> IF i = Len(sizes) THEN 0 ELSE Roundup(sizes[i], 8)]
  BY DEF NegotiateContexts, Links
<1> HIDE DEF c
<1>2. DOMAIN sizes = 1..Len(sizes)
      /\ \A i \in 1..(Len(sizes) - 1) : i \in DOMAIN sizes /\ i # Len(sizes)
  BY InnerIndex, Zenon DEF IsSizes
<1>3. Linked(c.links, sizes, 8)
  BY <1>1, <1>2, LinkedBy
<1>4. sizes # <<>> => c.size \in Nat /\ c.size >= Ends(64, sizes, 8)
  <2>1. Ends(64, sizes, 8) \in Nat
    BY EndsIsNat
  <2> QED BY <1>1, <2>1
<1> QED BY <1>1, <1>3, <1>4, FollowedChain DEF c

LEMMA ErrorContextsFollowed ==
  ASSUME NEW sizes, IsSizes(sizes), \A i \in 1..Len(sizes) : sizes[i] >= 8
  PROVE  /\ Reached(ErrorContextListResponse(sizes), 1..Len(sizes), sizes)
         /\ Separate(ErrorContextListResponse(sizes), sizes)
<1> DEFINE c == ErrorContextListResponse(sizes)
<1>1. /\ c.at = Starts(0, sizes, 8) /\ c.size = Ends(0, sizes, 8)
      /\ c.links = [i \in DOMAIN sizes |-> IF i = Len(sizes) THEN 0 ELSE 8 + Roundup(sizes[i] - 8, 8)]
  BY DEF ErrorContextListResponse, Links
<1> HIDE DEF c
<1>2. DOMAIN sizes = 1..Len(sizes)
      /\ \A i \in 1..(Len(sizes) - 1) :
           i \in DOMAIN sizes /\ i # Len(sizes) /\ sizes[i] \in Nat /\ sizes[i] >= 8
  BY InnerIndex, Zenon DEF IsSizes
<1>3. ASSUME NEW s \in Nat, s >= 8 PROVE 8 + Roundup(s - 8, 8) = Roundup(s, 8)
  BY <1>3 DEF Roundup
<1>4. Linked(c.links, sizes, 8)
  BY <1>1, <1>2, <1>3, LinkedBy
<1>5. sizes # <<>> => c.size \in Nat /\ c.size >= Ends(0, sizes, 8)
  <2>1. Ends(0, sizes, 8) \in Nat
    BY EndsIsNat
  <2> QED BY <1>1, <2>1
<1> QED BY <1>1, <1>4, <1>5, FollowedChain DEF c

LEMMA FileInformationFollowed ==
  ASSUME NEW sizes, IsSizes(sizes)
  PROVE  /\ Reached(FileInformationInfoResponse(sizes), 1..Len(sizes), sizes)
         /\ Separate(FileInformationInfoResponse(sizes), sizes)
<1> DEFINE c == FileInformationInfoResponse(sizes)
<1>1. /\ c.at = Starts(0, sizes, 1) /\ c.size = Ends(0, sizes, 1)
      /\ c.links = [i \in DOMAIN sizes |-> IF i = Len(sizes) THEN 0 ELSE sizes[i]]
  BY DEF FileInformationInfoResponse, Links
<1> HIDE DEF c
<1>2. DOMAIN sizes = 1..Len(sizes)
      /\ \A i \in 1..(Len(sizes) - 1) : i \in DOMAIN sizes /\ i # Len(sizes) /\ sizes[i] \in Nat
  BY InnerIndex, Zenon DEF IsSizes
<1>3. \A i \in 1..(Len(sizes) - 1) : Roundup(sizes[i], 1) = sizes[i]
  BY <1>2, RoundupUp
<1>4. Linked(c.links, sizes, 1)
  BY <1>1, <1>2, <1>3, LinkedBy
<1>5. sizes # <<>> => c.size \in Nat /\ c.size >= Ends(0, sizes, 1)
  <2>1. Ends(0, sizes, 1) \in Nat
    BY EndsIsNat
  <2> QED BY <1>1, <2>1
<1> QED BY <1>1, <1>4, <1>5, FollowedChain DEF c

\* The size of a compound is the sum of the padded sizes; the packets begin where
\* they begin when each is padded.
LEMMA CompoundFollowed ==
  ASSUME NEW sizes, IsSizes(sizes)
  PROVE  /\ Reached(CompoundResponse(sizes), 1..Len(sizes), sizes)
         /\ Separate(CompoundResponse(sizes), sizes)
<1> DEFINE c == CompoundResponse(sizes)
           padded == [i \in DOMAIN sizes |-> Roundup(sizes[i], 8)]
<1>1. /\ c.at = Starts(0, sizes, 8) /\ c.size = Ends(0, padded, 1)
      /\ c.links = [i \in DOMAIN sizes |-> IF i = Len(sizes) THEN 0 ELSE padded[i]]
  BY DEF CompoundResponse, Links
<1>2. /\ DOMAIN padded = 1..Len(sizes) /\ \A i \in 1..Len(sizes) : padded[i] = Roundup(sizes[i], 8)
      /\ \A i \in 1..Len(sizes) : sizes[i] \in Nat
      /\ DOMAIN sizes = 1..Len(sizes) /\ Len(sizes) \in Nat
  BY DEF IsSizes
<1> HIDE DEF c, padded
<1>3. \A i \in 1..Len(sizes) : padded[i] \in Nat /\ padded[i] >= sizes[i]
  BY <1>2, RoundupUp
<1>4. Len(padded) = Len(sizes) /\ IsSizes(padded)
  BY <1>2, <1>3 DEF IsSizes
<1>5. Linked(c.links, sizes, 8)
  <2>1. \A i \in 1..(Len(sizes) - 1) : i \in 1..Len(sizes) /\ i \in DOMAIN sizes /\ i # Len(sizes)
    BY InnerIndex, Zenon
  <2> QED BY <1>1, <1>2, <2>1, LinkedBy
<1>6. Linked(padded, padded, 1) /\ Linked(padded, sizes, 8)
  <2>1. \A i \in 1..(Len(padded) - 1) : padded[i] = Roundup(padded[i], 1)
    <3>1. ASSUME NEW i \in 1..(Len(padded) - 1) PROVE padded[i] \in Nat
      BY <1>4, InnerIndex, Zenon
    <3> QED BY <3>1, RoundupUp
  <2>2. \A i \in 1..(Len(sizes) - 1) : padded[i] = Roundup(sizes[i], 8)
    BY <1>2, InnerIndex, Zenon
  <2> QED BY <1>4, <2>1, <2>2 DEF Linked
<1>7. CASE sizes # <<>>
  <2>1. Len(sizes) # 0 /\ padded # <<>>
    BY <1>2, <1>4, <1>7
  <2>2. /\ Visited(Starts(0, padded, 1)[1], padded) = Starts(0, padded, 1)
        /\ Visited(Starts(0, sizes, 8)[1], padded) = Starts(0, sizes, 8)
    BY <1>4, <1>6, RoundedVisited
  <2>3. Starts(0, padded, 1)[1] = 0 /\ Starts(0, sizes, 8)[1] = 0
    <3>1. Placed(Starts(0, padded, 1), 0, padded, 1) /\ Placed(Starts(0, sizes, 8), 0, sizes, 8)
      BY <1>4, StartsPlaced
    <3>2. 1 \in 1..Len(padded) /\ 1 \in 1..Len(sizes)
      BY <1>2, <1>4, <2>1
    <3>3. Roundup(0, 1) = 0 /\ Roundup(0, 8) = 0
      BY DEF Roundup
    <3> QED BY <3>1, <3>2, <3>3 DEF Placed
  <2>4. Starts(0, padded, 1) = Starts(0, sizes, 8)
    BY <2>2, <2>3
  <2>5. /\ Ends(0, padded, 1) = Starts(0, padded, 1)[Len(padded)] + padded[Len(padded)]
        /\ Ends(0, sizes, 8) = Starts(0, sizes, 8)[Len(sizes)] + sizes[Len(sizes)]
        /\ Ends(0, padded, 1) \in Nat
    BY <1>4, <1>7, <2>1, EndsBehind
  <2>6. /\ Starts(0, sizes, 8)[Len(sizes)] \in Nat
        /\ padded[Len(sizes)] \in Nat /\ padded[Len(sizes)] >= sizes[Len(sizes)]
        /\ sizes[Len(sizes)] \in Nat
    <3>1. Len(sizes) \in 1..Len(sizes)
      BY <1>2, <2>1
    <3>2. Placed(Starts(0, sizes, 8), 0, sizes, 8)
      BY StartsPlaced
    <3> QED BY <1>2, <1>3, <3>1, <3>2 DEF Placed
  <2>7. Ends(0, padded, 1) >= Ends(0, sizes, 8)
    BY <1>4, <2>4, <2>5, <2>6
  <2>8. c.size \in Nat /\ c.size >= Ends(0, sizes, 8)
    BY <1>1, <2>5, <2>7
  <2> QED BY <1>1, <1>5, <2>8, FollowedChain DEF c
<1>8. CASE sizes = <<>>
  BY <1>1, <1>5, <1>8, FollowedChain DEF c
<1> QED BY <1>7, <1>8

LEMMA ChainFollowed ==
  ASSUME NEW x, Linkable(x)
  PROVE  LET exact == {i \in 1..Len(x.list) : x.kind = "CreateContexts" => x.list[i] % 8 = 0}
         IN  Reached(Chain(x), exact, x.list) /\ Separate(Chain(x), x.list)
<1> DEFINE exact == {i \in 1..Len(x.list) : x.kind = "CreateContexts" => x.list[i] % 8 = 0}
<1> SUFFICES Reached(Chain(x), exact, x.list) /\ Separate(Chain(x), x.list)
  OBVIOUS
<1>1. x.kind \in ChainKinds /\ IsSizes(x.list)
  BY ListIsSizes DEF Linkable
<1>2. x.kind # "CreateContexts" => exact = 1..Len(x.list)
  OBVIOUS
<1>3. CASE x.kind = "CreateContexts"
  <2>1. Chain(x) = CreateContexts(x.list)
    BY <1>3 DEF Chain
  <2>2. exact = {i \in 1..Len(x.list) : x.list[i] % 8 = 0}
    BY <1>3
  <2> QED BY <1>1, <2>1, <2>2, CreateContextsReached
<1> HIDE DEF exact
<1>4. CASE x.kind = "NegotiateContexts"
  <2>1. Chain(x) = NegotiateContexts(x.list) /\ exact = 1..Len(x.list)
    BY <1>2, <1>4 DEF Chain
  <2> QED BY <1>1, <2>1, NegotiateContextsFollowed
<1>5. CASE x.kind = "ErrorContexts"
  <2>1. Chain(x) = ErrorContextListResponse(x.list) /\ exact = 1..Len(x.list)
    BY <1>2, <1>5 DEF Chain
  <2>2. \A i \in 1..Len(x.list) : x.list[i] >= 8
    BY <1>5 DEF Linkable
  <2> QED BY <1>1, <2>1, <2>2, ErrorContextsFollowed
<1>6. CASE x.kind = "FileInformation"
  <2>1. Chain(x) = FileInformationInfoResponse(x.list) /\ exact = 1..Len(x.list)
    BY <1>2, <1>6 DEF Chain
  <2> QED BY <1>1, <2>1, FileInformationFollowed
<1>7. CASE x.kind = "Compound"
  <2>1. Chain(x) = CompoundResponse(x.list) /\ exact = 1..Len(x.list)
    BY <1>2, <1>7 DEF Chain
  <2> QED BY <1>1, <2>1, CompoundFollowed
<1> QED BY <1>1, <1>3, <1>4, <1>5, <1>6, <1>7, Zenon DEF ChainKinds

-----------------------------------------------------------------------------
(* Structures: the fields are apart, the decoder accepts what is encoded, and  *)
(* reads the bytes that were written.                                          *)

Apart(s) ==
  \A f \in DOMAIN s.enc :
    /\ s.enc[f] \in Interval
    /\ s.enc[f][2] > 0 => s.enc[f][1] + s.enc[f][2] <= s.size
    /\ \A g \in DOMAIN s.enc \ {f} : Disjoint(s.enc[f], s.enc[g])

Agrees(s) == \A f \in DOMAIN s.dec \cap DOMAIN s.enc : SameBytes(s.dec[f], s.enc[f])

Sound(s) == Apart(s) /\ s.valid /\ Agrees(s)

LEMMA BareSound ==
  ASSUME NEW n \in Nat, n >= 2
  PROVE  Sound(Bare(n))
<1>1. Bare(n).valid
  BY Zenon DEF Bare
<1>2. Apart(Bare(n)) /\ Agrees(Bare(n))
  BY DEF Apart, Agrees, Bare, Interval, Disjoint, Below, SameBytes
<1> QED BY <1>1, <1>2 DEF Sound

LEMMA FixedRequestsSound ==
  /\ Sound(LogoffRequest) /\ Sound(TreeDisconnectRequest) /\ Sound(CloseRequest)
  /\ Sound(FlushRequest) /\ Sound(CancelRequest)
<1>1. Sound(LogoffRequest) /\ Sound(TreeDisconnectRequest) /\ Sound(CancelRequest)
  BY BareSound DEF LogoffRequest, TreeDisconnectRequest, CancelRequest
<1> USE DEF Sound, Apart, Agrees, Interval, Disjoint, Below, SameBytes
<1>2. Sound(CloseRequest)
  BY DEF CloseRequest
<1>3. Sound(FlushRequest)
  BY DEF FlushRequest
<1> QED BY <1>1, <1>2, <1>3, Zenon

LEMMA FixedResponsesSound ==
  /\ Sound(SmallBufferErrorResponse) /\ Sound(LogoffResponse) /\ Sound(TreeConnectResponse)
  /\ Sound(TreeDisconnectResponse) /\ Sound(CloseResponse) /\ Sound(FlushResponse)
  /\ Sound(WriteResponse) /\ Sound(LockResponse) /\ Sound(EchoResponse) /\ Sound(SetInfoResponse)
<1>1. /\ Sound(LogoffResponse) /\ Sound(TreeDisconnectResponse) /\ Sound(FlushResponse)
      /\ Sound(SetInfoResponse)
  BY BareSound DEF LogoffResponse, TreeDisconnectResponse, FlushResponse, SetInfoResponse
<1> USE DEF Sound, Apart, Agrees, Interval, Disjoint, Below, SameBytes, NoDecoder
<1>2. Sound(SmallBufferErrorResponse)
  BY DEF SmallBufferErrorResponse
<1>3. Sound(TreeConnectResponse)
  BY DEF TreeConnectResponse
<1>4. Sound(CloseResponse)
  BY DEF CloseResponse
<1>5. Sound(WriteResponse)
  BY DEF WriteResponse
<1>6. Sound(LockResponse) /\ Sound(EchoResponse)
  BY DEF LockResponse, EchoResponse
<1> QED BY <1>1, <1>2, <1>3, <1>4, <1>5, <1>6, Zenon

LEMMA FixedContextsSound ==
  /\ Sound(CreateContextMaximalAccessResponse) /\ Sound(DurableHandleResponse2)
  /\ Sound(LeaseResponse) /\ Sound(LeaseResponse2) /\ Sound(DiskIdResponse)
<1> USE DEF Sound, Apart, Agrees, Interval, Disjoint, Below, SameBytes, NoDecoder
<1>1. Sound(CreateContextMaximalAccessResponse) /\ Sound(DiskIdResponse)
  BY DEF CreateContextMaximalAccessResponse, DiskIdResponse
<1>2. Sound(DurableHandleResponse2)
  BY DEF DurableHandleResponse2, DurableHandleRequest2Decoder
<1>3. Sound(LeaseResponse)
  BY DEF LeaseResponse, LeaseRequestDecoder
<1>4. Sound(LeaseResponse2)
  BY DEF LeaseResponse2, LeaseRequest2Decoder
<1> QED BY <1>1, <1>2, <1>3, <1>4, Zenon

LEMMA FixedInformationSound ==
  /\ Sound(FileBasicInformationInfo) /\ Sound(FileStandardInformationInfo)
  /\ Sound(FileInternalInformationInfo) /\ Sound(FileEaInformationInfo)
  /\ Sound(FileAccessInformationInfo) /\ Sound(FilePositionInformationInfo)
  /\ Sound(FileModeInformationInfo) /\ Sound(FileAlignmentInformationInfo)
  /\ Sound(FileNetworkOpenInformationInfo)
<1> USE DEF Sound, Apart, Agrees, Interval, Disjoint, Below, SameBytes, NoDecoder
<1>1. Sound(FileBasicInformationInfo)
  BY DEF FileBasicInformationInfo, FileBasicInformationDecoder
<1>2. Sound(FileStandardInformationInfo)
  BY DEF FileStandardInformationInfo, FileStandardInformationDecoder
<1>3. Sound(FileInternalInformationInfo) /\ Sound(FileEaInformationInfo)
  BY DEF FileInternalInformationInfo, FileEaInformationInfo, NumberDecoders
<1>4. Sound(FileAccessInformationInfo) /\ Sound(FilePositionInformationInfo)
  BY DEF FileAccessInformationInfo, FilePositionInformationInfo, NumberDecoders
<1>5. Sound(FileModeInformationInfo) /\ Sound(FileAlignmentInformationInfo)
  BY DEF FileModeInformationInfo, FileAlignmentInformationInfo, NumberDecoders
<1>6. Sound(FileNetworkOpenInformationInfo)
  BY DEF FileNetworkOpenInformationInfo
<1> QED BY <1>1, <1>2, <1>3, <1>4, <1>5, <1>6, Zenon

LEMMA FixedRecordsSound ==
  /\ Sound(FileFsDeviceInformationInfo) /\ Sound(FileFsSizeInformationInfo) /\ Sound(AfpInfo)
  /\ Sound(FileObjectId1) /\ Sound(FileBasicInformationEncoder)
  /\ Sound(FileEndOfFileInformationEncoder) /\ Sound(FileDispositionInformationEncoder)
  /\ Sound(TransformHeader) /\ Sound(FileId) /\ Sound(Filetime) /\ Sound(DCEHeader)
<1> USE DEF Sound, Apart, Agrees, Interval, Disjoint, Below, SameBytes, NoDecoder
<1>1. Sound(FileFsDeviceInformationInfo) /\ Sound(FileFsSizeInformationInfo)
  BY DEF FileFsDeviceInformationInfo, FileFsSizeInformationInfo
<1>2. Sound(AfpInfo) /\ Sound(FileObjectId1)
  BY DEF AfpInfo, FileObjectId1
<1>3. Sound(FileBasicInformationEncoder)
  BY DEF FileBasicInformationEncoder, FileBasicInformationInfoDecoder
<1>4. Sound(FileEndOfFileInformationEncoder) /\ Sound(FileDispositionInformationEncoder)
  BY DEF FileEndOfFileInformationEncoder, FileEndOfFileInformationInfoDecoder,
         FileDispositionInformationEncoder, FileDispositionInformationInfoDecoder
<1>5. Sound(TransformHeader)
  BY DEF TransformHeader
<1>6. Sound(FileId) /\ Sound(Filetime)
  BY DEF FileId, Filetime
<1>7. Sound(DCEHeader)
  BY DEF DCEHeader
<1> QED BY <1>1, <1>2, <1>3, <1>4, <1>5, <1>6, <1>7, Zenon

LEMMA FixedSound ==
  ASSUME NEW x, x.kind \in FixedKinds
  PROVE  Sound(Structure(x))
<1> USE DEF Structure
<1>1. CASE x.kind \in {"LogoffRequest", "TreeDisconnectRequest", "CloseRequest", "FlushRequest",
                       "CancelRequest"}
  BY <1>1, FixedRequestsSound
<1>2. CASE x.kind \in {"SmallBufferErrorResponse", "LogoffResponse", "TreeConnectResponse",
                       "TreeDisconnectResponse", "CloseResponse", "FlushResponse",
                       "WriteResponse", "LockResponse", "EchoResponse", "SetInfoResponse"}
  BY <1>2, FixedResponsesSound
<1>3. CASE x.kind \in {"MaximalAccess", "DurableHandle2", "Lease", "Lease2", "DiskId"}
  BY <1>3, FixedContextsSound
<1>4. CASE x.kind \in {"FileBasic", "FileStandard", "FileInternal", "FileEa", "FileAccess",
                       "FilePosition", "FileMode", "FileAlignment", "FileNetworkOpen"}
  BY <1>4, FixedInformationSound
<1>5. CASE x.kind \in {"FsDevice", "FsSize", "AfpInfo", "FileObjectId1", "SetBasic",
                       "SetEndOfFile", "SetDisposition", "TransformHeader", "FileId",
                       "Filetime", "DCEHeader"}
  BY <1>5, FixedRecordsSound
<1> HIDE DEF Structure
<1> QED BY <1>1, <1>2, <1>3, <1>4, <1>5, Zenon DEF FixedKinds

\* A structure without a variable part is longer than its fixed part.
LEMMA OrOneMore == \A n \in Nat : OrOne(n) \in Nat /\ OrOne(n) >= n
BY DEF OrOne

\* A length that fits in its field is sent as it is.
LEMMA FitsInField ==
  /\ \A n \in 0..(U16 - 1) : n \in Nat /\ n % U16 = n
  /\ \A n \in 0..(U8 - 1) : n \in Nat /\ n % U8 = n
BY DEF U8, U16

\* A part that ends within 16 bits is sliced as it was written.
LEMMA SliceFits ==
  ASSUME NEW base \in Nat, NEW off \in Nat, NEW len \in Nat, off + len < U16
  PROVE  len % U16 = len /\ Slice16(base, off, len) = <<base + off, len>>
<1>1. len % U16 = len /\ ((off + len) % U16) - off = len
  BY DEF U16
<1> QED BY <1>1 DEF Slice16

\* What is cut to 16 bits is no larger.
LEMMA CutIsLess == \A k \in Nat : k % U16 \in Nat /\ k % U16 <= k
BY DEF U16

\* A string takes twelve bytes and two for each character.
LEMMA StringSize ==
  ASSUME NEW chars \in Nat
  PROVE  UnicodeStrSize(chars) \in Nat /\ UnicodeStrSize(chars) >= 12
BY RoundupUp DEF UnicodeStrSize

LEMMA RoundedNames ==
  ASSUME NEW n \in Nat
  PROVE  \A fixed \in {24, 40, 64, 68, 80, 82, 104}, align \in {8, 16} :
           Roundup(fixed + n, align) \in Nat /\ Roundup(fixed + n, align) >= fixed + n
BY RoundupUp

\* Structures that nothing decodes.
LEMMA EntriesSound ==
  ASSUME NEW n \in Nat
  PROVE  /\ Sound(FileFullDirectoryInformationInfo(n)) /\ Sound(FileBothDirectoryInformationInfo(n))
         /\ Sound(FileIdBothDirectoryInformationInfo(n))
         /\ Sound(FileIdBothDirectoryInformationInfo2(n))
         /\ Sound(FileIdFullDirectoryInformationInfo(n)) /\ Sound(FileNotifyInformationInfo(n))
<1> USE RoundedNames DEF Sound, Apart, Agrees, Interval, Disjoint, Below, SameBytes, NoDecoder
<1>1. Sound(FileFullDirectoryInformationInfo(n))
  BY DEF FileFullDirectoryInformationInfo
<1>2. Sound(FileBothDirectoryInformationInfo(n))
  BY DEF FileBothDirectoryInformationInfo
<1>3. Sound(FileIdBothDirectoryInformationInfo(n))
  BY DEF FileIdBothDirectoryInformationInfo
<1>4. Sound(FileIdBothDirectoryInformationInfo2(n))
  BY DEF FileIdBothDirectoryInformationInfo2
<1>5. Sound(FileIdFullDirectoryInformationInfo(n))
  BY DEF FileIdFullDirectoryInformationInfo
<1>6. Sound(FileNotifyInformationInfo(n))
  BY DEF FileNotifyInformationInfo
<1> QED BY <1>1, <1>2, <1>3, <1>4, <1>5, <1>6, Zenon

LEMMA AnswersSound ==
  ASSUME NEW n \in Nat
  PROVE  /\ Sound(FileStreamInformationInfo(n)) /\ Sound(FileFsAttributeInformationInfo(n))
         /\ Sound(FileFsVolumeInformationInfo(n)) /\ Sound(ChangeNotifyResponse(n))
         /\ Sound(SrvCopychunkCopy(n)) /\ Sound(CompressionContext(n))
         /\ Sound(DCEBindAck(13, n)) /\ Sound(UnicodeStr(n))
<1> USE OrOneMore DEF Sound, Apart, Agrees, Interval, Disjoint, Below, SameBytes, NoDecoder
<1>1. Sound(FileStreamInformationInfo(n))
  BY RoundedNames DEF FileStreamInformationInfo
<1>2. Sound(FileFsAttributeInformationInfo(n))
  BY DEF FileFsAttributeInformationInfo
<1>3. Sound(FileFsVolumeInformationInfo(n))
  BY DEF FileFsVolumeInformationInfo
<1>4. Sound(ChangeNotifyResponse(n))
  BY DEF ChangeNotifyResponse
<1>5. Sound(SrvCopychunkCopy(n))
  BY DEF SrvCopychunkCopy
<1>6. Sound(CompressionContext(n))
  BY DEF CompressionContext
<1>7. Sound(DCEBindAck(13, n))
  <2>1. Roundup(30 + 13, 2) = 44
    BY DEF Roundup
  <2> QED BY <2>1 DEF DCEBindAck
<1>8. Sound(UnicodeStr(n))
  <2>1. Roundup(2 * n, 4) \in Nat /\ Roundup(2 * n, 4) >= 2 * n
    BY RoundupUp
  <2> QED BY <2>1 DEF UnicodeStr, UnicodeStrSize
<1> QED BY <1>1, <1>2, <1>3, <1>4, <1>5, <1>6, <1>7, <1>8, Zenon

\* A decoder that accepts everything, and finds the name by a length of 32 bits.
LEMMA NamesSound ==
  ASSUME NEW n \in Nat
  PROVE  /\ Sound(FileAlternateNameInformationInfo(n)) /\ Sound(AAPLServerQueryResponse(n))
         /\ Sound(FileRenameInformationType2Encoder(n)) /\ Sound(ErrorContextResponse(n))
         /\ Sound(DCERequestRes(n))
<1> USE DEF Sound, Apart, Agrees, Interval, Disjoint, Below, SameBytes, Slice
<1>1. Sound(FileAlternateNameInformationInfo(n))
  BY DEF FileAlternateNameInformationInfo, FileNameInformationDecoder
<1>2. Sound(AAPLServerQueryResponse(n))
  BY RoundedNames DEF AAPLServerQueryResponse, AAPLServerQueryRequestDecoder
<1>3. Sound(FileRenameInformationType2Encoder(n))
  BY DEF FileRenameInformationType2Encoder, FileRenameInformationInfoDecoder
<1>4. Sound(ErrorContextResponse(n))
  BY DEF ErrorContextResponse
<1>5. Sound(DCERequestRes(n))
  BY DEF DCERequestRes
<1> QED BY <1>1, <1>2, <1>3, <1>4, <1>5, Zenon

LEMMA FileDirectorySound ==
  ASSUME NEW n \in Nat
  PROVE  Sound(FileDirectoryInformationInfo(n))
<1>1. FileDirectoryInformationInfo(n).valid
  <2>1. Roundup(64 + n, 8) >= 64 + n
    BY RoundedNames
  <2> QED BY <2>1, Zenon DEF FileDirectoryInformationInfo
<1>2. Apart(FileDirectoryInformationInfo(n))
  BY RoundedNames DEF Apart, FileDirectoryInformationInfo, Interval, Disjoint, Below
<1>3. Agrees(FileDirectoryInformationInfo(n))
  BY DEF Agrees, FileDirectoryInformationInfo, FileDirectoryInformationDecoder, SameBytes, Slice
<1> QED BY <1>1, <1>2, <1>3 DEF Sound

-----------------------------------------------------------------------------
(* Requests and responses with one variable part.                              *)

LEMMA SessionSetupRequestSound ==
  ASSUME NEW n \in Nat, 24 + n < U16
  PROVE  Sound(SessionSetupRequest(n))
<1> DEFINE s == SessionSetupRequest(n)
<1>1. n % U16 = n /\ Slice16(0, 24, n) = <<24, n>>
  BY SliceFits
<1>2. s.valid
  <2>1. 24 + OrOne(n) >= 24 /\ 24 + OrOne(n) >= ((64 + 24 + (n % U16)) % U16) - 64
    BY <1>1, OrOneMore, CutIsLess
  <2> QED BY <2>1, Zenon DEF SessionSetupRequest
<1>3. Apart(s)
  BY <1>1, OrOneMore DEF Apart, SessionSetupRequest, Interval, Disjoint, Below
<1>4. Agrees(s)
  BY <1>1 DEF Agrees, SessionSetupRequest, SameBytes
<1> QED BY <1>2, <1>3, <1>4 DEF Sound

LEMMA TreeConnectRequestSound ==
  ASSUME NEW n \in Nat, 8 + n < U16
  PROVE  Sound(TreeConnectRequest(n))
<1> DEFINE s == TreeConnectRequest(n)
<1>1. n % U16 = n /\ Slice16(0, 8, n) = <<8, n>>
  BY SliceFits
<1>2. s.valid
  <2>1. 8 + OrOne(n) >= 8 /\ 8 + OrOne(n) >= ((8 + 64 + (n % U16)) % U16) - 64
    BY <1>1, OrOneMore, CutIsLess
  <2> QED BY <2>1, Zenon DEF TreeConnectRequest
<1>3. Apart(s)
  BY <1>1, OrOneMore DEF Apart, TreeConnectRequest, Interval, Disjoint, Below
<1>4. Agrees(s)
  BY <1>1 DEF Agrees, TreeConnectRequest, SameBytes
<1> QED BY <1>2, <1>3, <1>4 DEF Sound

LEMMA QueryDirectoryRequestSound ==
  ASSUME NEW n \in Nat, 32 + n < U16
  PROVE  Sound(QueryDirectoryRequest(n))
<1> DEFINE s == QueryDirectoryRequest(n)
<1>1. n % U16 = n /\ Slice16(0, 32, n) = <<32, n>>
  BY SliceFits
<1>2. s.valid
  <2>1. 32 + OrOne(n) >= 32 /\ 32 + OrOne(n) >= ((32 + 64 + (n % U16)) % U16) - 64
    BY <1>1, OrOneMore, CutIsLess
  <2> QED BY <2>1, Zenon DEF QueryDirectoryRequest
<1>3. Apart(s)
  BY <1>1, OrOneMore DEF Apart, QueryDirectoryRequest, Interval, Disjoint, Below
<1>4. Agrees(s)
  BY <1>1 DEF Agrees, QueryDirectoryRequest, SameBytes
<1> QED BY <1>2, <1>3, <1>4 DEF Sound

LEMMA SessionSetupResponseSound ==
  ASSUME NEW n \in Nat, 8 + n < U16
  PROVE  Sound(SessionSetupResponse(n))
<1> DEFINE s == SessionSetupResponse(n)
<1>1. n % U16 = n /\ Slice16(0, 8, n) = <<8, n>>
  BY SliceFits
<1>2. s.valid
  <2>1. /\ 8 + OrOne(n) >= 8
        /\ 8 + OrOne(n) >= (((IF n = 0 THEN 0 ELSE 8 + 64) + (n % U16)) % U16) - 64
    BY <1>1, OrOneMore, CutIsLess
  <2> QED BY <2>1, Zenon DEF SessionSetupResponse
<1>3. Apart(s)
  BY <1>1, OrOneMore DEF Apart, SessionSetupResponse, Interval, Disjoint, Below
<1>4. Agrees(s)
  BY <1>1 DEF Agrees, SessionSetupResponse, SameBytes, Nothing
<1> QED BY <1>2, <1>3, <1>4 DEF Sound

LEMMA QueryInfoRequestSound ==
  ASSUME NEW n \in Nat
  PROVE  Sound(QueryInfoRequest(n))
<1> DEFINE s == QueryInfoRequest(n)
<1>1. s.valid
  <2>1. 40 + OrOne(n) >= 40 /\ 40 + OrOne(n) >= (IF n = 0 THEN 0 ELSE 40 + 64) + n - 64
    BY OrOneMore
  <2> QED BY <2>1, Zenon DEF QueryInfoRequest
<1>2. Apart(s)
  BY OrOneMore DEF Apart, QueryInfoRequest, Interval, Disjoint, Below
<1>3. Agrees(s)
  BY DEF Agrees, QueryInfoRequest, SameBytes
<1> QED BY <1>1, <1>2, <1>3 DEF Sound

\* The decoders of IOCTL and SET_INFO take the rest of the packet.
LEMMA RestOfPacketSound ==
  ASSUME NEW n \in Nat \ {0}
  PROVE  Sound(IoctlRequest(n)) /\ Sound(SetInfoRequest(n))
<1>1. OrOne(n) = n
  BY DEF OrOne
<1>2. IoctlRequest(n).valid /\ SetInfoRequest(n).valid
  <2>1. /\ 56 + OrOne(n) >= 56 /\ 56 + OrOne(n) >= (IF n = 0 THEN 0 ELSE 56 + 64) + n - 64
        /\ 32 + OrOne(n) >= 32 /\ 32 + OrOne(n) >= (IF n = 0 THEN 0 ELSE 32 + 64) + n - 64
    BY <1>1
  <2> QED BY <2>1, Zenon DEF IoctlRequest, SetInfoRequest
<1>3. Apart(IoctlRequest(n)) /\ Apart(SetInfoRequest(n))
  <2>1. Apart(IoctlRequest(n))
    BY <1>1 DEF Apart, IoctlRequest, Interval, Disjoint, Below
  <2>2. Apart(SetInfoRequest(n))
    BY <1>1 DEF Apart, SetInfoRequest, Interval, Disjoint, Below
  <2> QED BY <2>1, <2>2, Zenon
<1>4. Agrees(IoctlRequest(n)) /\ Agrees(SetInfoRequest(n))
  <2>1. (56 + OrOne(n)) - 56 = n /\ (32 + OrOne(n)) - 32 = n
    BY <1>1
  <2>2. Agrees(IoctlRequest(n))
    BY <2>1 DEF Agrees, IoctlRequest, SameBytes, Slice
  <2>3. Agrees(SetInfoRequest(n))
    BY <2>1 DEF Agrees, SetInfoRequest, SameBytes, Slice
  <2> QED BY <2>2, <2>3, Zenon
<1> QED BY <1>2, <1>3, <1>4 DEF Sound

LEMMA ReadResponseSound ==
  ASSUME NEW n \in Nat
  PROVE  Sound(ReadResponse(n))
<1> DEFINE s == ReadResponse(n)
<1>1. s.valid
  <2>1. 16 + OrOne(n) >= 16 /\ 16 + OrOne(n) >= 16 + 64 + n - 64
    BY OrOneMore
  <2> QED BY <2>1, Zenon DEF ReadResponse
<1>2. Apart(s)
  BY OrOneMore DEF Apart, ReadResponse, Interval, Disjoint, Below
<1>3. (16 + 64 - 64) % U8 = 16
  BY DEF U8
<1>4. Agrees(s)
  BY <1>3 DEF Agrees, ReadResponse, SameBytes, SliceIf, Slice
<1> QED BY <1>1, <1>2, <1>4 DEF Sound

LEMMA OutputResponseSound ==
  ASSUME NEW n \in Nat
  PROVE  Sound(QueryDirectoryResponse(n)) /\ Sound(QueryInfoResponse(n))
<1> DEFINE s == OutputResponse(n)
<1>1. s.valid
  <2>1. 8 + OrOne(n) >= 8 /\ 8 + OrOne(n) >= (IF n = 0 THEN 0 ELSE 8 + 64) + n - 64
    BY OrOneMore
  <2> QED BY <2>1, Zenon DEF OutputResponse
<1>2. Apart(s)
  BY OrOneMore DEF Apart, OutputResponse, Interval, Disjoint, Below
<1>3. Agrees(s)
  BY DEF Agrees, OutputResponse, SameBytes, SliceIf, Slice, Nothing
<1>4. Sound(s)
  BY <1>1, <1>2, <1>3 DEF Sound
<1> QED BY <1>4 DEF QueryDirectoryResponse, QueryInfoResponse

\* Without data nothing is written behind the structure's size.
LEMMA ErrorResponseSound == Sound(ErrorResponse(0))
<1> DEFINE s == ErrorResponse(0)
<1>1. OrOne(0) = 1
  BY DEF OrOne
<1>2. s.valid
  <2>1. 8 + OrOne(0) >= 8
    BY <1>1
  <2> QED BY <2>1, Zenon DEF ErrorResponse
<1>3. Apart(s)
  BY <1>1 DEF Apart, ErrorResponse, Interval, Disjoint, Below
<1>4. Agrees(s)
  BY DEF Agrees, ErrorResponse, SameBytes
<1> QED BY <1>2, <1>3, <1>4 DEF Sound

-----------------------------------------------------------------------------
(* Structures with several variable parts.                                     *)

LEMMA IoctlResponseSound ==
  ASSUME NEW in \in Nat, NEW out \in Nat
  PROVE  Sound(IoctlResponse(in, out))
<1> DEFINE s == IoctlResponse(in, out)
<1>1. OrOne(in + out) \in Nat /\ OrOne(in + out) >= in + out
  BY OrOneMore
<1>2. s.valid
  <2>1. /\ 48 + OrOne(in + out) >= 48
        /\ 48 + OrOne(in + out) >= (IF in = 0 THEN 0 ELSE 48 + 64) + in - 64
        /\ 48 + OrOne(in + out) >= (IF out = 0 THEN 0 ELSE 48 + in + 64) + out - 64
    BY <1>1
  <2> QED BY <2>1, Zenon DEF IoctlResponse
<1>3. Apart(s)
  BY <1>1 DEF Apart, IoctlResponse, Interval, Disjoint, Below
<1>4. Agrees(s)
  BY DEF Agrees, IoctlResponse, SameBytes, SliceIf, Slice, Nothing
<1> QED BY <1>2, <1>3, <1>4 DEF Sound

LEMMA CreateContextSound ==
  ASSUME NEW n \in Nat, NEW data \in Nat, Roundup(16 + n, 8) + data < U16
  PROVE  Sound(CreateContext(n, data))
<1> DEFINE s == CreateContext(n, data)
<1>1. Roundup(16 + n, 8) \in Nat /\ Roundup(16 + n, 8) >= 16 + n
  BY RoundupUp
<1>2. /\ data % U16 = data
      /\ Slice16(0, Roundup(16 + n, 8), data) = <<Roundup(16 + n, 8), data>>
      /\ Slice16(0, 16, n) = <<16, n>>
  <2> DEFINE off == Roundup(16 + n, 8)
  <2>1. 16 + n < U16
    BY <1>1 DEF U16
  <2>2. Slice16(0, 16, n) = <<16, n>>
    BY <2>1, SliceFits
  <2> HIDE DEF off
  <2>3. off \in Nat /\ off + data < U16
    BY <1>1 DEF off
  <2>4. data % U16 = data /\ Slice16(0, off, data) = <<off, data>>
    BY <2>3, SliceFits
  <2> QED BY <2>2, <2>4 DEF off
<1>3. s.valid
  BY Zenon DEF CreateContext
<1>4. Apart(s)
  BY <1>1 DEF Apart, CreateContext, Interval, Disjoint, Below
<1>5. Agrees(s)
  BY <1>2 DEF Agrees, CreateContext, CreateContextDecoder, SameBytes
<1> QED BY <1>3, <1>4, <1>5 DEF Sound

LEMMA SymbolicLinkReparseSound ==
  ASSUME NEW slen \in Nat, NEW plen \in Nat, slen % 2 = 0, 12 + slen + plen < U16
  PROVE  Sound(SymbolicLinkReparseDataBuffer(slen, plen))
<1> DEFINE s == SymbolicLinkReparseDataBuffer(slen, plen)
           rlen == ((20 + slen + plen) - 8) % U16
<1>1. slen % U16 = slen /\ plen % U16 = plen /\ rlen = 12 + slen + plen
  BY DEF U16
<1>2. s.valid
  <2>1. /\ 20 + slen + plen >= 20 /\ 20 + slen + plen >= 8 + rlen
        /\ rlen >= 12 + slen /\ rlen >= 12 + slen + plen
    BY <1>1
  <2> QED BY <2>1, Zenon DEF SymbolicLinkReparseDataBuffer
<1>3. Apart(s)
  BY DEF Apart, SymbolicLinkReparseDataBuffer, Interval, Disjoint, Below
<1>4. Agrees(s)
  <2>1. Slice16(20, 0, slen) = <<20, slen>> /\ Slice16(20, slen, plen) = <<20 + slen, plen>>
    <3>1. 0 + slen < U16 /\ slen + plen < U16
      BY DEF U16
    <3>2. Slice16(20, 0, slen) = <<20, slen>>
      BY <3>1, SliceFits
    <3>3. Slice16(20, slen, plen) = <<20 + slen, plen>>
      BY <3>1, SliceFits
    <3> QED BY <3>2, <3>3
  <2> QED BY <1>1, <2>1 DEF Agrees, SymbolicLinkReparseDataBuffer,
                        SymbolicLinkReparseDataBufferDecoder, SameBytes
<1> QED BY <1>2, <1>3, <1>4 DEF Sound

LEMMA HashContextSound ==
  ASSUME NEW n \in Nat, NEW m \in Nat, 12 + 2 * n + m < U16
  PROVE  Sound(HashContext(n, m))
<1> DEFINE s == HashContext(n, m)
<1>1. /\ (4 + 2 * n + m) % U16 = 4 + 2 * n + m /\ m % U16 = m
      /\ (4 + 2 * n) % U16 = 4 + 2 * n /\ 8 + (4 + 2 * n) = 12 + 2 * n
  BY DEF U16
<1>2. s.valid
  <2>1. /\ 8 + 4 + 2 * n + m >= 8 + ((4 + 2 * n + m) % U16)
        /\ (4 + 2 * n + m) % U16 >= 4 + 2 * n + m
    BY <1>1
  <2> QED BY <2>1, Zenon DEF HashContext
<1>3. Apart(s)
  BY DEF Apart, HashContext, Interval, Disjoint, Below
<1>4. Agrees(s)
  <2>1. 8 + ((4 + 2 * n + m) % U16) < U16
    BY <1>1
  <2>2. Slice16(8, 4 + 2 * n, m) = <<12 + 2 * n, m>>
    <3>1. (4 + 2 * n) + m < U16 /\ 4 + 2 * n \in Nat
      BY DEF U16
    <3>2. Slice16(8, 4 + 2 * n, m) = <<8 + (4 + 2 * n), m>>
      BY <3>1, SliceFits, Zenon
    <3> QED BY <1>1, <3>2
  <2> QED BY <1>1, <2>1, <2>2 DEF Agrees, HashContext, SameBytes, SliceIf, Slice
<1> QED BY <1>2, <1>3, <1>4 DEF Sound

LEMMA CipherContextSound ==
  ASSUME NEW n \in Nat, 10 + 2 * n < U16
  PROVE  Sound(CipherContext(n))
<1> DEFINE s == CipherContext(n)
<1>1. (2 + 2 * n) % U16 = 2 + 2 * n
  BY DEF U16
<1>2. s.valid
  <2>1. /\ 8 + 2 + 2 * n >= 8 + ((2 + 2 * n) % U16)
        /\ (2 + 2 * n) % U16 >= 2 + 2 * n
    BY <1>1
  <2> QED BY <2>1, Zenon DEF CipherContext
<1>3. Apart(s)
  BY DEF Apart, CipherContext, Interval, Disjoint, Below
<1>4. Agrees(s)
  <2>1. 8 + ((2 + 2 * n) % U16) < U16
    BY <1>1
  <2> QED BY <2>1 DEF Agrees, CipherContext, SameBytes, SliceIf, Slice
<1> QED BY <1>2, <1>3, <1>4 DEF Sound

LEMMA PacketHeaderSound ==
  ASSUME NEW n \in Nat, NEW m \in Nat
  PROVE  Sound(PacketHeader(n > 0, m > 0))
<1> DEFINE s == PacketHeader(n > 0, m > 0)
<1>1. s.valid
  BY Zenon DEF PacketHeader
<1>2. Apart(s)
  BY DEF Apart, PacketHeader, Interval, Disjoint, Below
<1>3. Agrees(s)
  BY DEF Agrees, PacketHeader, PacketCodec, SameBytes
<1> QED BY <1>1, <1>2, <1>3 DEF Sound

LEMMA NetShareGetInfoSound ==
  ASSUME NEW name \in Nat, NEW comment \in Nat
  PROVE  Sound(NetShareGetInfoResponse(name, comment))
<1> DEFINE s == NetShareGetInfoResponse(name, comment)
<1>1. /\ UnicodeStrSize(name) \in Nat /\ UnicodeStrSize(name) >= 12
      /\ UnicodeStrSize(comment) \in Nat /\ UnicodeStrSize(comment) >= 12
  BY StringSize
<1>2. s.valid
  BY Zenon DEF NetShareGetInfoResponse
<1>3. Apart(s)
  BY <1>1 DEF Apart, NetShareGetInfoResponse, Interval, Disjoint, Below
<1>4. Agrees(s)
  BY DEF Agrees, NetShareGetInfoResponse, NoDecoder
<1> QED BY <1>2, <1>3, <1>4 DEF Sound

-----------------------------------------------------------------------------
(* Structures with a list of items.                                            *)

\* The first of the items and the end of the last.
LEMMA ListEnds ==
  ASSUME NEW from \in Nat, NEW list \in Seq(Nat), list # <<>>, NEW align \in {1, 8}
  PROVE  LET first == Starts(from, list, align)[1]
             end == Ends(from, list, align)
         IN  /\ first \in Nat /\ end \in Nat /\ list[1] \in Nat
             /\ first = Roundup(from, align) /\ first >= from
             /\ align = 8 => first % 8 = 0
             /\ end >= first + list[1]
<1> DEFINE at == Starts(from, list, align)
<1>1. IsSizes(list)
  BY ListIsSizes
<1>2. Placed(at, from, list, align)
  BY <1>1, StartsPlaced
<1>3. Len(list) \in Nat /\ Len(list) # 0
  BY <1>1 DEF IsSizes
<1>4. 1 \in 1..Len(list)
  BY <1>3
<1>5. at[1] + list[1] <= Ends(from, list, align) /\ Ends(from, list, align) \in Nat
  BY <1>1, <1>3, <1>4, EndsBehind
<1> HIDE DEF at
<1>6. /\ at[1] \in Nat /\ at[1] = Roundup(from, align) /\ (align = 8 => at[1] % 8 = 0)
      /\ list[1] \in Nat
  BY <1>1, <1>2, <1>4 DEF Placed, IsSizes
<1>7. at[1] >= from
  <2>1. align \in {1, 2, 4, 8, 16}
    OBVIOUS
  <2> QED BY <1>6, <2>1, RoundupUp
<1> QED BY <1>5, <1>6, <1>7 DEF at

\* No items.
LEMMA EmptyEnds ==
  ASSUME NEW from, NEW align
  PROVE  Ends(from, <<>>, align) = from
BY DEF Ends

\* The sizes of contexts, and that those of a CREATE follow an aligned name: named,
\* for they disturb the provers where they are not needed.
AreSizes(cs) == cs \in Seq(Nat)
AlignedBefore(cs, n) == cs # <<>> => n % 8 = 0

\* Contexts behind a part that ends at `from': they take the bytes c from a
\* multiple of 8 to the end, and their offset is off.
Behind(from, cs, end, off, c) ==
  /\ end \in Nat /\ end >= from
  /\ off \in Nat /\ off % 8 = 0
  /\ c \in Interval /\ c[1] \in Nat /\ c[2] \in Nat
  /\ c[2] > 0 => c[1] >= from /\ c[1] + c[2] = end
  /\ cs = <<>> => off = 0 /\ c = <<0, 0>> /\ end = from
  /\ cs # <<>> => /\ off - 64 >= from /\ end >= (off - 64) + cs[1] /\ cs[1] \in Nat
                  /\ c = <<off - 64, end - (off - 64)>>
                  /\ from % 8 = 0 => off - 64 = from

LEMMA ContextsPlaced ==
  ASSUME NEW from \in Nat, NEW cs, AreSizes(cs)
  PROVE  Behind(from, cs, Ends(from, cs, 8), ContextsOffset(from, cs), Contexts(from, cs))
<1>1. CASE cs = <<>>
  BY <1>1 DEF Ends, ContextsOffset, Contexts, Nothing, Interval, Behind
<1>2. CASE cs # <<>>
  <2> DEFINE first == Starts(from, cs, 8)[1]
             end == Ends(from, cs, 8)
  <2>1. /\ first \in Nat /\ end \in Nat /\ cs[1] \in Nat /\ first >= from /\ first % 8 = 0
        /\ end >= first + cs[1]
    BY <1>2, ListEnds DEF AreSizes
  <2>2. ContextsOffset(from, cs) = first + 64 /\ Contexts(from, cs) = <<first, end - first>>
    BY <1>2 DEF ContextsOffset, Contexts
  <2> HIDE DEF first, end
  <2>3. (first + 64) % 8 = 0 /\ (first + 64) - 64 = first /\ first + 64 \in Nat
    BY <2>1
  <2>4. end - first \in Nat /\ end >= from /\ first + (end - first) = end
    BY <2>1
  <2>5. <<first, end - first>> \in Interval
    BY <2>1, <2>4 DEF Interval
  <2>6. from % 8 = 0 => first = from
    <3>1. first = Roundup(from, 8)
      BY <1>2, ListEnds DEF AreSizes, first
    <3> QED BY <3>1, RoundupEight
  <2> QED BY <1>2, <2>1, <2>2, <2>3, <2>4, <2>5, <2>6 DEF end, Behind
<1> QED BY <1>1, <1>2

\* The other fields of a structure with contexts lie before `from', and apart.
Before(enc, from) ==
  /\ "Contexts" \in DOMAIN enc
  /\ \A f \in DOMAIN enc \ {"Contexts"} :
       /\ enc[f] \in Interval /\ enc[f][1] \in Nat /\ enc[f][2] \in Nat
       /\ enc[f][2] > 0 => enc[f][1] + enc[f][2] <= from
       /\ \A g \in DOMAIN enc \ {f, "Contexts"} : Disjoint(enc[f], enc[g])

LEMMA ContextsApart ==
  ASSUME NEW s, NEW from \in Nat, NEW cs, NEW end, NEW off, Before(s.enc, from),
         Behind(from, cs, end, off, s.enc["Contexts"]), s.size \in Nat, s.size >= end
  PROVE  Apart(s)
<1> DEFINE enc == s.enc
           c == enc["Contexts"]
           size == s.size
<1>1. /\ end \in Nat /\ end >= from /\ c \in Interval /\ c[1] \in Nat /\ c[2] \in Nat
      /\ c[2] > 0 => c[1] >= from /\ c[1] + c[2] = end
  BY DEF Behind
<1>2. size \in Nat /\ size >= end
  OBVIOUS
<1>3. Before(enc, from)
  OBVIOUS
<1> HIDE DEF enc, c, size
<1>4. ASSUME NEW f \in DOMAIN enc \ {"Contexts"}
      PROVE  /\ enc[f] \in Interval /\ enc[f][1] \in Nat /\ enc[f][2] \in Nat
             /\ enc[f][2] > 0 => enc[f][1] + enc[f][2] <= from
             /\ \A g \in DOMAIN enc \ {f, "Contexts"} : Disjoint(enc[f], enc[g])
  BY <1>3, Zenon DEF Before
<1>5. ASSUME NEW f \in DOMAIN enc \ {"Contexts"}
      PROVE  /\ enc[f][2] > 0 => enc[f][1] + enc[f][2] <= size
             /\ Disjoint(enc[f], c) /\ Disjoint(c, enc[f])
  <2>1. /\ enc[f][1] \in Nat /\ enc[f][2] \in Nat
        /\ enc[f][2] > 0 => enc[f][1] + enc[f][2] <= from
    BY <1>4
  <2> QED BY <2>1, <1>1, <1>2 DEF Disjoint, Below
<1>6. c[2] > 0 => c[1] + c[2] <= size
  BY <1>1, <1>2
<1> QED BY <1>1, <1>4, <1>5, <1>6, Zenon DEF Apart, enc, c, size

LEMMA NegotiateRequestSound ==
  ASSUME NEW n \in Nat, 36 + 2 * n < U16, NEW cs, AreSizes(cs), cs = <<>> \/ cs[1] >= 28
  PROVE  Sound(NegotiateRequest(n, cs))
<1> DEFINE s == NegotiateRequest(n, cs)
           from == 36 + 2 * n
           end == Ends(from, cs, 8)
           off == ContextsOffset(from, cs)
           c == Contexts(from, cs)
<1>1. n % U16 = n /\ Slice16(0, 36, 2 * n) = <<36, 2 * n>>
  <2> DEFINE len == 2 * n
  <2>1. n % U16 = n /\ len \in Nat
    BY DEF U16
  <2>2. 36 + len < U16
    OBVIOUS
  <2> HIDE DEF len
  <2>3. Slice16(0, 36, len) = <<0 + 36, len>>
    <3>1. 0 \in Nat /\ 36 \in Nat
      OBVIOUS
    <3> QED BY <2>1, <2>2, <3>1, SliceFits, Zenon
  <2> QED BY <2>1, <2>3 DEF len
<1>2. Behind(from, cs, end, off, c) /\ from \in Nat
  BY ContextsPlaced
<1> HIDE DEF end, off, c
<1>3. s.valid
  <2>1. end >= 36 /\ off % 8 = 0 /\ end >= off - 36
    BY <1>2 DEF Behind
  <2> QED BY <2>1, Zenon DEF NegotiateRequest, end, off
<1>4. Apart(s)
  <2>1. /\ s.size = end
        /\ s.enc = [StructureSize |-> <<0, 2>>, DialectCount |-> <<2, 2>>,
                    SecurityMode |-> <<4, 2>>, Capabilities |-> <<8, 4>>,
                    ClientGuid |-> <<12, 16>>, NegotiateContextOffset |-> <<28, 4>>,
                    NegotiateContextCount |-> <<32, 2>>, Dialects |-> <<36, 2 * n>>,
                    Contexts |-> c]
    BY DEF NegotiateRequest, end, c
  <2> HIDE DEF s
  <2>2. Before(s.enc, from)
    BY <2>1 DEF Before, Interval, Disjoint, Below
  <2>3. s.enc["Contexts"] = c
    BY <2>1
  <2>4. Behind(from, cs, end, off, s.enc["Contexts"])
    BY <1>2, <2>3
  <2>5. s.size \in Nat /\ s.size >= end
    BY <1>2, <2>1 DEF Behind
  <2> QED BY <1>2, <2>2, <2>4, <2>5, ContextsApart, Zenon
<1>5. Agrees(s)
  <2>1. SliceIf(off >= 64, off - 64, end - (off - 64)) = c
    BY <1>2 DEF Behind, SliceIf, Slice, Nothing
  <2> QED BY <1>1, <2>1 DEF Agrees, NegotiateRequest, SameBytes, end, off, c
<1> QED BY <1>3, <1>4, <1>5 DEF Sound

LEMMA NegotiateResponseSound ==
  ASSUME NEW n \in Nat, 64 + n < U16, NEW cs, AreSizes(cs)
  PROVE  Sound(NegotiateResponse(n, cs))
<1> DEFINE s == NegotiateResponse(n, cs)
           from == 64 + n
           end == Ends(from, cs, 8)
           off == ContextsOffset(from, cs)
           c == Contexts(from, cs)
           size == IF n = 0 /\ cs = <<>> THEN 65 ELSE end
<1>1. n % U16 = n /\ Slice16(0, 64, n) = <<64, n>>
  BY SliceFits
<1>2. Behind(from, cs, end, off, c) /\ from \in Nat
  BY ContextsPlaced
<1> HIDE DEF end, off, c
<1>3. size \in Nat /\ size >= end
  BY <1>2 DEF Behind
<1>4. s.valid
  <2>1. /\ ((64 + 64 + (n % U16)) % U16) - 64 \in Int
        /\ ((64 + 64 + (n % U16)) % U16) - 64 <= 64 + n
    <3> DEFINE k == 64 + 64 + (n % U16)
    <3>1. k \in Nat /\ k - 64 <= 64 + n
      BY <1>1
    <3> HIDE DEF k
    <3>2. k % U16 \in Nat /\ k % U16 <= k
      BY <3>1, CutIsLess, Zenon
    <3>3. (k % U16) - 64 \in Int /\ (k % U16) - 64 <= 64 + n
      BY <3>1, <3>2
    <3> QED BY <3>3 DEF k
  <2>2. /\ size >= 64 /\ size >= ((64 + 64 + (n % U16)) % U16) - 64
        /\ off % 8 = 0 /\ size >= off - 64
    <3>1. end \in Nat /\ end >= 64 + n /\ off % 8 = 0 /\ off \in Nat /\ end >= off - 64
      BY <1>2 DEF Behind
    <3> QED BY <1>3, <2>1, <3>1
  <2> QED BY <2>2, Zenon DEF NegotiateResponse, end, off
<1>5. Apart(s)
  <2>1. s.enc = [StructureSize |-> <<0, 2>>, SecurityMode |-> <<2, 2>>,
                 DialectRevision |-> <<4, 2>>, NegotiateContextCount |-> <<6, 2>>,
                 ServerGuid |-> <<8, 16>>, Capabilities |-> <<24, 4>>,
                 MaxTransactSize |-> <<28, 4>>, MaxReadSize |-> <<32, 4>>,
                 MaxWriteSize |-> <<36, 4>>, SystemTime |-> <<40, 8>>,
                 ServerStartTime |-> <<48, 8>>, SecurityBufferOffset |-> <<56, 2>>,
                 SecurityBufferLength |-> <<58, 2>>, NegotiateContextOffset |-> <<60, 4>>,
                 SecurityBuffer |-> <<64, n>>, Contexts |-> c]
    BY DEF NegotiateResponse, c
  <2>2. s.size = size
    BY DEF NegotiateResponse, end
  <2> HIDE DEF s
  <2>3. Before(s.enc, from)
    BY <2>1 DEF Before, Interval, Disjoint, Below
  <2>4. s.enc["Contexts"] = c
    BY <2>1
  <2>5. Behind(from, cs, end, off, s.enc["Contexts"])
    BY <1>2, <2>4
  <2>6. s.size \in Nat /\ s.size >= end
    BY <1>3, <2>2
  <2> QED BY <1>2, <2>3, <2>5, <2>6, ContextsApart, Zenon
<1>6. Agrees(s)
  <2> DEFINE d == SliceIf(off >= 64, off - 64, size - (off - 64))
  <2>1. SameBytes(d, c)
    BY <1>2 DEF Behind, SliceIf, Slice, Nothing, SameBytes
  <2>2. s.enc = [StructureSize |-> <<0, 2>>, SecurityMode |-> <<2, 2>>,
                 DialectRevision |-> <<4, 2>>, NegotiateContextCount |-> <<6, 2>>,
                 ServerGuid |-> <<8, 16>>, Capabilities |-> <<24, 4>>,
                 MaxTransactSize |-> <<28, 4>>, MaxReadSize |-> <<32, 4>>,
                 MaxWriteSize |-> <<36, 4>>, SystemTime |-> <<40, 8>>,
                 ServerStartTime |-> <<48, 8>>, SecurityBufferOffset |-> <<56, 2>>,
                 SecurityBufferLength |-> <<58, 2>>, NegotiateContextOffset |-> <<60, 4>>,
                 SecurityBuffer |-> <<64, n>>, Contexts |-> c]
    BY DEF NegotiateResponse, c
  <2>3. s.dec = [StructureSize |-> <<0, 2>>, SecurityMode |-> <<2, 2>>,
                 DialectRevision |-> <<4, 2>>, NegotiateContextCount |-> <<6, 2>>,
                 ServerGuid |-> <<8, 16>>, Capabilities |-> <<24, 4>>,
                 MaxTransactSize |-> <<28, 4>>, MaxReadSize |-> <<32, 4>>,
                 MaxWriteSize |-> <<36, 4>>, SystemTime |-> <<40, 8>>,
                 ServerStartTime |-> <<48, 8>>, SecurityBufferOffset |-> <<56, 2>>,
                 SecurityBufferLength |-> <<58, 2>>, NegotiateContextOffset |-> <<60, 4>>,
                 SecurityBuffer |-> <<64, n>>,
                 Contexts |-> d]
    <3>1. (IF 64 + 64 >= 64 + 64 THEN Slice16(0, (64 + 64) - 64, n % U16) ELSE Nothing)
            = <<64, n>>
      BY <1>1
    <3> QED BY <3>1, Zenon DEF NegotiateResponse, end, off
  <2> HIDE DEF s, d
  <2>4. \A f \in DOMAIN s.enc : f = "Contexts" \/ s.dec[f] = s.enc[f]
    BY <2>2, <2>3
  <2>5. s.dec["Contexts"] = d /\ s.enc["Contexts"] = c
    BY <2>2, <2>3
  <2> QED BY <2>1, <2>4, <2>5, Zenon DEF Agrees, SameBytes
<1> QED BY <1>4, <1>5, <1>6 DEF Sound

\* The decoder counts the contexts of a CREATE from the end of the name.
LEMMA CreateRequestSound ==
  ASSUME NEW n \in Nat, 56 + n < U16, NEW cs, AreSizes(cs), AlignedBefore(cs, n)
  PROVE  Sound(CreateRequest(n, cs))
<1> DEFINE s == CreateRequest(n, cs)
           from == 56 + n
           end == Ends(from, cs, 8)
           off == ContextsOffset(from, cs)
           c == Contexts(from, cs)
           size == IF n = 0 /\ cs = <<>> THEN 57 ELSE end
<1>1. n % U16 = n /\ Slice16(0, 56, n) = <<56, n>>
  BY SliceFits
<1>2. Behind(from, cs, end, off, c) /\ from \in Nat
  BY ContextsPlaced
<1>3. cs # <<>> => from % 8 = 0
  BY DEF AlignedBefore
<1> HIDE DEF end, off, c
<1>4. size \in Nat /\ size >= end
  BY <1>2 DEF Behind
<1>5. s.valid
  <2>1. /\ ((56 + 64 + (n % U16)) % U16) - 64 \in Int
        /\ ((56 + 64 + (n % U16)) % U16) - 64 <= 56 + n
    <3> DEFINE k == 56 + 64 + (n % U16)
    <3>1. k \in Nat /\ k - 64 <= 56 + n
      BY <1>1
    <3> HIDE DEF k
    <3>2. k % U16 \in Nat /\ k % U16 <= k
      BY <3>1, CutIsLess, Zenon
    <3>3. (k % U16) - 64 \in Int /\ (k % U16) - 64 <= 56 + n
      BY <3>1, <3>2
    <3> QED BY <3>3 DEF k
  <2>2. /\ size >= 56 /\ (56 + 64) % 8 = 0 /\ size >= ((56 + 64 + (n % U16)) % U16) - 64
        /\ off % 8 = 0 /\ size >= off + ((end - from) - 64)
    <3>1. /\ end \in Nat /\ end >= 56 + n /\ off % 8 = 0 /\ off \in Nat
          /\ end >= off + ((end - from) - 64)
      <4> HIDE DEF from
      <4>1. cs = <<>> => end - from = 0 /\ off = 0
        BY <1>2 DEF Behind
      <4>2. cs # <<>> => off - 64 = from
        BY <1>2, <1>3 DEF Behind
      <4> QED BY <1>2, <4>1, <4>2 DEF Behind, from
    <3> QED BY <1>4, <2>1, <3>1
  <2> QED BY <2>2, Zenon DEF CreateRequest, end, off
<1>6. Apart(s)
  <2>1. s.enc = [StructureSize |-> <<0, 2>>, SecurityFlags |-> <<2, 1>>,
                 RequestedOplockLevel |-> <<3, 1>>, ImpersonationLevel |-> <<4, 4>>,
                 SmbCreateFlags |-> <<8, 8>>, DesiredAccess |-> <<24, 4>>,
                 FileAttributes |-> <<28, 4>>, ShareAccess |-> <<32, 4>>,
                 CreateDisposition |-> <<36, 4>>, CreateOptions |-> <<40, 4>>,
                 NameOffset |-> <<44, 2>>, NameLength |-> <<46, 2>>,
                 CreateContextsOffset |-> <<48, 4>>, CreateContextsLength |-> <<52, 4>>,
                 Name |-> <<56, n>>, Contexts |-> c]
    BY DEF CreateRequest, c
  <2>2. s.size = size
    BY DEF CreateRequest, end
  <2> HIDE DEF s
  <2>3. Before(s.enc, from)
    BY <2>1 DEF Before, Interval, Disjoint, Below
  <2>4. s.enc["Contexts"] = c
    BY <2>1
  <2>5. Behind(from, cs, end, off, s.enc["Contexts"])
    BY <1>2, <2>4
  <2>6. s.size \in Nat /\ s.size >= end
    BY <1>4, <2>2
  <2> QED BY <1>2, <2>3, <2>5, <2>6, ContextsApart, Zenon
<1>7. Agrees(s)
  <2> DEFINE d == SliceIf(end - from # 0, off - 64, end - from)
  <2>1. SameBytes(d, c)
    <3> HIDE DEF from
    <3> QED BY <1>2, <1>3 DEF Behind, SliceIf, Slice, Nothing, SameBytes
  <2>2. s.enc = [StructureSize |-> <<0, 2>>, SecurityFlags |-> <<2, 1>>,
                 RequestedOplockLevel |-> <<3, 1>>, ImpersonationLevel |-> <<4, 4>>,
                 SmbCreateFlags |-> <<8, 8>>, DesiredAccess |-> <<24, 4>>,
                 FileAttributes |-> <<28, 4>>, ShareAccess |-> <<32, 4>>,
                 CreateDisposition |-> <<36, 4>>, CreateOptions |-> <<40, 4>>,
                 NameOffset |-> <<44, 2>>, NameLength |-> <<46, 2>>,
                 CreateContextsOffset |-> <<48, 4>>, CreateContextsLength |-> <<52, 4>>,
                 Name |-> <<56, n>>, Contexts |-> c]
    BY DEF CreateRequest, c
  <2>3. s.dec = [StructureSize |-> <<0, 2>>, SecurityFlags |-> <<2, 1>>,
                 RequestedOplockLevel |-> <<3, 1>>, ImpersonationLevel |-> <<4, 4>>,
                 SmbCreateFlags |-> <<8, 8>>, DesiredAccess |-> <<24, 4>>,
                 FileAttributes |-> <<28, 4>>, ShareAccess |-> <<32, 4>>,
                 CreateDisposition |-> <<36, 4>>, CreateOptions |-> <<40, 4>>,
                 NameOffset |-> <<44, 2>>, NameLength |-> <<46, 2>>,
                 CreateContextsOffset |-> <<48, 4>>, CreateContextsLength |-> <<52, 4>>,
                 Name |-> <<56, n>>,
                 Contexts |-> d]
    <3>1. Slice16(0, (56 + 64) - 64, n % U16) = <<56, n>>
      BY <1>1
    <3> QED BY <3>1, Zenon DEF CreateRequest, end, off
  <2> HIDE DEF s, d
  <2>4. \A f \in DOMAIN s.enc : f = "Contexts" \/ s.dec[f] = s.enc[f]
    BY <2>2, <2>3
  <2>5. s.dec["Contexts"] = d /\ s.enc["Contexts"] = c
    BY <2>2, <2>3
  <2> QED BY <2>1, <2>4, <2>5, Zenon DEF Agrees, SameBytes
<1> QED BY <1>5, <1>6, <1>7 DEF Sound

LEMMA CreateResponseSound ==
  ASSUME NEW cs, AreSizes(cs)
  PROVE  Sound(CreateResponse(cs))
<1> DEFINE s == CreateResponse(cs)
           end == Ends(88, cs, 8)
           off == ContextsOffset(88, cs)
           c == Contexts(88, cs)
           size == IF cs = <<>> THEN 89 ELSE end
<1>1. Behind(88, cs, end, off, c)
  BY ContextsPlaced
<1>2. 88 % 8 = 0
  OBVIOUS
<1> HIDE DEF end, off, c
<1>3. size \in Nat /\ size >= end
  BY <1>1 DEF Behind
<1>4. s.valid
  <2>1. size >= 88 /\ off % 8 = 0 /\ size >= off + ((end - 88) - 64)
    <3>1. cs = <<>> => end = 88 /\ off = 0
      BY <1>1 DEF Behind
    <3>2. cs # <<>> => off = 88 + 64
      BY <1>1, <1>2 DEF Behind
    <3>3. end \in Nat /\ end >= 88 /\ off % 8 = 0
      BY <1>1 DEF Behind
    <3> QED BY <1>3, <3>1, <3>2, <3>3
  <2> QED BY <2>1, Zenon DEF CreateResponse, end, off
<1>5. Apart(s)
  <2>1. s.enc = [StructureSize |-> <<0, 2>>, OplockLevel |-> <<2, 1>>, Flags |-> <<3, 1>>,
                 CreateAction |-> <<4, 4>>, CreationTime |-> <<8, 8>>,
                 LastAccessTime |-> <<16, 8>>, LastWriteTime |-> <<24, 8>>,
                 ChangeTime |-> <<32, 8>>, AllocationSize |-> <<40, 8>>,
                 EndofFile |-> <<48, 8>>, FileAttributes |-> <<56, 4>>, FileId |-> <<64, 16>>,
                 CreateContextsOffset |-> <<80, 4>>, CreateContextsLength |-> <<84, 4>>,
                 Contexts |-> c]
    BY DEF CreateResponse, c
  <2>2. s.size = size
    BY DEF CreateResponse, end
  <2> HIDE DEF s
  <2>3. Before(s.enc, 88)
    BY <2>1 DEF Before, Interval, Disjoint, Below
  <2>4. s.enc["Contexts"] = c
    BY <2>1
  <2>5. Behind(88, cs, end, off, s.enc["Contexts"])
    BY <1>1, <2>4
  <2>6. s.size \in Nat /\ s.size >= end /\ 88 \in Nat
    BY <1>3, <2>2
  <2> QED BY <2>3, <2>5, <2>6, ContextsApart, Zenon
<1>6. Agrees(s)
  <2> DEFINE d == SliceIf(off >= 88 + 64, off - 64, end - 88)
  <2>1. SameBytes(d, c)
    BY <1>1, <1>2 DEF Behind, SliceIf, Slice, Nothing, SameBytes
  <2>2. s.enc = [StructureSize |-> <<0, 2>>, OplockLevel |-> <<2, 1>>, Flags |-> <<3, 1>>,
                 CreateAction |-> <<4, 4>>, CreationTime |-> <<8, 8>>,
                 LastAccessTime |-> <<16, 8>>, LastWriteTime |-> <<24, 8>>,
                 ChangeTime |-> <<32, 8>>, AllocationSize |-> <<40, 8>>,
                 EndofFile |-> <<48, 8>>, FileAttributes |-> <<56, 4>>, FileId |-> <<64, 16>>,
                 CreateContextsOffset |-> <<80, 4>>, CreateContextsLength |-> <<84, 4>>,
                 Contexts |-> c]
    BY DEF CreateResponse, c
  <2>3. s.dec = [StructureSize |-> <<0, 2>>, OplockLevel |-> <<2, 1>>, Flags |-> <<3, 1>>,
                 CreateAction |-> <<4, 4>>, CreationTime |-> <<8, 8>>,
                 LastAccessTime |-> <<16, 8>>, LastWriteTime |-> <<24, 8>>,
                 ChangeTime |-> <<32, 8>>, AllocationSize |-> <<40, 8>>,
                 EndofFile |-> <<48, 8>>, FileAttributes |-> <<56, 4>>, FileId |-> <<64, 16>>,
                 CreateContextsOffset |-> <<80, 4>>, CreateContextsLength |-> <<84, 4>>,
                
                 Contexts |-> d]
    BY DEF CreateResponse, end, off
  <2> HIDE DEF s, d
  <2>4. \A f \in DOMAIN s.enc : f = "Contexts" \/ s.dec[f] = s.enc[f]
    BY <2>2, <2>3
  <2>5. s.dec["Contexts"] = d /\ s.enc["Contexts"] = c
    BY <2>2, <2>3
  <2> QED BY <2>1, <2>4, <2>5, Zenon DEF Agrees, SameBytes
<1> QED BY <1>4, <1>5, <1>6 DEF Sound

\* Requests that can carry channel information, which the client here leaves out.
LEMMA ReadRequestSound == Sound(ReadRequest(<<>>))
<1> DEFINE s == ReadRequest(<<>>)
           end == Ends(48, <<>>, 1)
<1>1. end = 48
  BY EmptyEnds
<1> HIDE DEF end
<1>2. s.valid
  <2>1. /\ (IF <<>> = <<>> THEN 49 ELSE end) >= 48
        /\ (IF <<>> = <<>> THEN 49 ELSE end)
             >= ((IF <<>> = <<>> THEN 0 ELSE 64 + 48) + ((end - 48) % U16)) % U16
    BY <1>1 DEF U16
  <2> QED BY <2>1, Zenon DEF ReadRequest, end
<1>3. Apart(s)
  <2>1. s.size = 49
    BY DEF ReadRequest
  <2>2. s.enc = [StructureSize |-> <<0, 2>>, Padding |-> <<2, 1>>, Flags |-> <<3, 1>>,
                 Length |-> <<4, 4>>, Offset |-> <<8, 8>>, FileId |-> <<16, 16>>,
                 MinimumCount |-> <<32, 4>>, Channel |-> <<36, 4>>,
                 RemainingBytes |-> <<40, 4>>, ReadChannelInfoOffset |-> <<44, 2>>,
                 ReadChannelInfoLength |-> <<46, 2>>, ReadChannelInfo |-> <<48, end - 48>>]
    BY DEF ReadRequest, end
  <2>3. end - 48 = 0
    BY <1>1
  <2> HIDE DEF s
  <2> QED BY <2>1, <2>2, <2>3 DEF Apart, Interval, Disjoint, Below
<1>4. Agrees(s)
  BY DEF Agrees, ReadRequest, SameBytes
<1> QED BY <1>2, <1>3, <1>4 DEF Sound

LEMMA WriteRequestSound ==
  ASSUME NEW n \in Nat
  PROVE  Sound(WriteRequest(n, <<>>))
<1> DEFINE s == WriteRequest(n, <<>>)
           end == Ends(48, <<>>, 1)
           size == IF n = 0 /\ <<>> = <<>> THEN 49 ELSE end + n
<1>1. end = 48
  BY EmptyEnds
<1> HIDE DEF end
<1>2. size \in Nat /\ size >= 48 + n /\ size >= 48
  BY <1>1
<1>3. s.valid
  <2>1. /\ size >= 48
        /\ size >= (((IF <<>> = <<>> THEN 0 ELSE 64 + 48) + ((end - 48) % U16)) % U16) - 64
        /\ size >= ((64 + end) % U16) + (n - 64)
    <3>1. (((IF <<>> = <<>> THEN 0 ELSE 64 + 48) + ((end - 48) % U16)) % U16) - 64 = -64
      BY <1>1 DEF U16
    <3>2. (64 + end) % U16 = 112
      BY <1>1 DEF U16
    <3> HIDE DEF size
    <3> QED BY <1>2, <3>1, <3>2
  <2> QED BY <2>1, Zenon DEF WriteRequest, end
<1>4. Apart(s)
  <2>1. s.size = size
    BY DEF WriteRequest, end
  <2>2. s.enc = [StructureSize |-> <<0, 2>>, DataOffset |-> <<2, 2>>, Length |-> <<4, 4>>,
                 Offset |-> <<8, 8>>, FileId |-> <<16, 16>>, Channel |-> <<32, 4>>,
                 RemainingBytes |-> <<36, 4>>, WriteChannelInfoOffset |-> <<40, 2>>,
                 WriteChannelInfoLength |-> <<42, 2>>, Flags |-> <<44, 4>>,
                 WriteChannelInfo |-> <<48, end - 48>>, Data |-> <<end, n>>]
    BY DEF WriteRequest, end
  <2>3. end - 48 = 0
    BY <1>1
  <2> HIDE DEF s, size
  <2> QED BY <1>1, <1>2, <2>1, <2>2, <2>3 DEF Apart, Interval, Disjoint, Below
<1>5. Agrees(s)
  BY <1>1 DEF Agrees, WriteRequest, SameBytes, Slice, end
<1> QED BY <1>3, <1>4, <1>5 DEF Sound

-----------------------------------------------------------------------------
(* Security descriptors, and the answer that holds nine structures.            *)

LEMMA SIDSound ==
  ASSUME NEW n \in 0..(U8 - 1)
  PROVE  /\ Sound(SID(n)) /\ Sound(ACE(n)) /\ SIDSize(n) \in Nat /\ ACESize(n) \in Nat
<1>1. n \in Nat /\ n % U8 = n
  BY FitsInField
<1>2. SIDSize(n) = 8 + 4 * n
  BY <1>1 DEF SIDSize
<1>3. ACESize(n) = 16 + 4 * n
  BY <1>1, <1>2 DEF ACESize
<1>4. SID(n).valid
  <2>1. SIDSize(n) >= 8 + 4 * (n % U8)
    BY <1>1, <1>2
  <2> QED BY <2>1, Zenon DEF SID
<1>5. Apart(SID(n)) /\ Agrees(SID(n))
  <2>1. Apart(SID(n))
    BY <1>1, <1>2 DEF SID, Apart, Interval, Disjoint, Below
  <2>2. Agrees(SID(n))
    BY <1>1 DEF SID, SidDecoder, Agrees, SameBytes, Slice
  <2> QED BY <2>1, <2>2
<1>6. Apart(ACE(n)) /\ Agrees(ACE(n))
  <2>1. Apart(ACE(n))
    BY <1>1, <1>2, <1>3 DEF ACE, Apart, Interval, Disjoint, Below
  <2>2. Agrees(ACE(n))
    BY <1>1 DEF ACE, Agrees, SameBytes, Slice
  <2> QED BY <2>1, <2>2
<1>7. ACE(n).valid
  BY Zenon DEF ACE
<1> QED BY <1>1, <1>2, <1>3, <1>4, <1>5, <1>6, <1>7 DEF Sound

LEMMA ACLIsBehind ==
  ASSUME NEW aces \in Seq(0..(U8 - 1))
  PROVE  ACLSize(aces) \in Nat /\ ACLSize(aces) >= 8
<1> DEFINE sizes == [i \in DOMAIN aces |-> ACESize(aces[i])]
<1>1. \A i \in DOMAIN aces : ACESize(aces[i]) \in Nat
  <2> DEFINE Subs == 0..(U8 - 1)
  <2>1. \A i \in DOMAIN aces : aces[i] \in Subs
    <3>1. aces \in Seq(Subs)
      OBVIOUS
    <3> HIDE DEF Subs
    <3> QED BY <3>1
  <2> QED BY <2>1, SIDSound
<1>2. Len(aces) \in Nat /\ DOMAIN aces = 1..Len(aces)
  OBVIOUS
<1>3. sizes \in Seq(Nat)
  BY <1>1, <1>2
<1>4. ACLSize(aces) = Ends(8, sizes, 1)
  BY DEF ACLSize
<1> HIDE DEF sizes
<1>5. CASE sizes = <<>>
  BY <1>4, <1>5, EmptyEnds
<1>6. CASE sizes # <<>>
  <2> DEFINE first == Starts(8, sizes, 1)[1]
             end == Ends(8, sizes, 1)
  <2>1. first \in Nat /\ end \in Nat /\ sizes[1] \in Nat /\ first >= 8 /\ end >= first + sizes[1]
    BY <1>3, <1>6, ListEnds
  <2> HIDE DEF first, end
  <2>2. end \in Nat /\ end >= 8
    BY <2>1
  <2> QED BY <1>4, <2>2 DEF end
<1> QED BY <1>5, <1>6

LEMMA ACLSound ==
  ASSUME NEW aces \in Seq(0..(U8 - 1)), ACLSize(aces) < U16
  PROVE  Sound(ACL(aces))
<1> DEFINE s == ACL(aces)
           size == ACLSize(aces)
<1>1. size \in Nat /\ size >= 8 /\ size < U16
  BY ACLIsBehind
<1> HIDE DEF size
<1>2. size % U16 = size
  BY <1>1 DEF U16
<1>3. s.valid
  BY Zenon DEF ACL
<1>4. Apart(s)
  BY <1>1 DEF ACL, Apart, Interval, Disjoint, Below, size
<1>5. Agrees(s)
  BY <1>2 DEF ACL, Agrees, SameBytes, Slice, size
<1> QED BY <1>3, <1>4, <1>5 DEF Sound

\* Without alignment each item begins where the one before it ends.
Touching(at, from, sizes, end) ==
  /\ at[1] = from
  /\ \A i \in 1..Len(sizes) : i > 1 => at[i] = at[i - 1] + sizes[i - 1]
  /\ \A i \in 1..Len(sizes) : at[i] \in Nat
  /\ end = at[Len(sizes)] + sizes[Len(sizes)]

LEMMA Adjacent ==
  ASSUME NEW from \in Nat, NEW sizes, IsSizes(sizes), sizes # <<>>
  PROVE  Touching(Starts(from, sizes, 1), from, sizes, Ends(from, sizes, 1))
<1> DEFINE at == Starts(from, sizes, 1)
<1>1. Placed(at, from, sizes, 1)
  BY StartsPlaced
<1>2. Len(sizes) \in Nat /\ Len(sizes) # 0 /\ \A i \in 1..Len(sizes) : sizes[i] \in Nat
  BY DEF IsSizes
<1>3. Ends(from, sizes, 1) = at[Len(sizes)] + sizes[Len(sizes)]
  BY DEF Ends
<1> HIDE DEF at
<1>4. \A i \in 1..Len(sizes) : at[i] \in Nat
  BY <1>1 DEF Placed
<1>5. at[1] = from
  <2>1. 1 \in 1..Len(sizes)
    BY <1>2
  <2>2. at[1] = Roundup(from, 1)
    BY <1>1, <2>1 DEF Placed
  <2> QED BY <2>2, RoundupUp
<1>6. ASSUME NEW i \in 1..Len(sizes), i > 1
      PROVE  at[i] = at[i - 1] + sizes[i - 1]
  <2>1. i - 1 \in 1..Len(sizes)
    BY <1>2, <1>6
  <2>2. at[i - 1] + sizes[i - 1] \in Nat
    BY <1>2, <1>4, <2>1
  <2>3. at[i] = Roundup(at[i - 1] + sizes[i - 1], 1)
    BY <1>1, <1>6 DEF Placed
  <2> QED BY <2>2, <2>3, RoundupUp
<1> QED BY <1>3, <1>4, <1>5, <1>6, Zenon DEF Touching, at

LEMMA SecurityDescriptorSound ==
  ASSUME NEW owner \in -1..(U8 - 1), NEW group \in -1..(U8 - 1),
         NEW aces, ACLSize(aces) \in Nat, ACLSize(aces) >= 8
  PROVE  Sound(SecurityDescriptor(owner, group, aces))
<1> DEFINE s == SecurityDescriptor(owner, group, aces)
           o == SIDSize(owner)
           g == SIDSize(group)
           d == IF aces = <<>> THEN 0 ELSE ACLSize(aces)
           part == <<o, g, d>>
           at == Starts(20, part, 1)
           end == Ends(20, part, 1)
           off == [i \in 1..3 |-> IF part[i] = 0 THEN 0 ELSE at[i]]
<1>1. o \in Nat /\ g \in Nat /\ d \in Nat
  BY DEF SIDSize, U8
<1> HIDE DEF o, g, d
<1>2. IsSizes(part) /\ part # <<>> /\ Len(part) = 3
  BY <1>1 DEF IsSizes
<1>3. at[1] = 20 /\ at[2] = 20 + o /\ at[3] = 20 + o + g /\ end = 20 + o + g + d
  <2>1. part[1] = o /\ part[2] = g /\ part[3] = d
    OBVIOUS
  <2>2. 20 \in Nat
    OBVIOUS
  <2> HIDE DEF part
  <2>3. Touching(at, 20, part, end)
    BY <1>2, <2>2, Adjacent, Zenon
  <2> HIDE DEF at, end
  <2>4. at[2] = at[1] + part[1] /\ at[3] = at[2] + part[2] /\ end = at[3] + part[3]
    BY <1>2, <2>3 DEF Touching
  <2>5. at[1] = 20
    BY <2>3 DEF Touching
  <2> QED BY <1>1, <2>1, <2>4, <2>5
<1> HIDE DEF at, end
<1>4. s.valid
  BY Zenon DEF SecurityDescriptor
<1>5. Apart(s)
  <2>1. s.size = end
    BY DEF SecurityDescriptor, o, g, d, end
  <2>2. s.enc = [Revision |-> <<0, 1>>, Control |-> <<2, 2>>, OffsetOwner |-> <<4, 4>>,
                 OffsetGroup |-> <<8, 4>>, OffsetDacl |-> <<16, 4>>,
                 OwnerSid |-> <<at[1], o>>, GroupSid |-> <<at[2], g>>, Dacl |-> <<at[3], d>>]
    BY DEF SecurityDescriptor, o, g, d, at
  <2> HIDE DEF s
  <2> QED BY <1>1, <1>3, <2>1, <2>2 DEF Apart, Interval, Disjoint, Below
<1>6. Agrees(s)
  <2>1. /\ SameBytes(SliceIf(off[1] # 0, off[1], o), <<at[1], o>>)
        /\ SameBytes(SliceIf(off[2] # 0, off[2], g), <<at[2], g>>)
        /\ SameBytes(SliceIf(off[3] # 0, off[3], d), <<at[3], d>>)
    BY <1>1, <1>3 DEF SameBytes, SliceIf, Slice, Nothing
  <2> HIDE DEF off
  <2>2. s.enc = [Revision |-> <<0, 1>>, Control |-> <<2, 2>>, OffsetOwner |-> <<4, 4>>,
                 OffsetGroup |-> <<8, 4>>, OffsetDacl |-> <<16, 4>>,
                 OwnerSid |-> <<at[1], o>>, GroupSid |-> <<at[2], g>>, Dacl |-> <<at[3], d>>]
    BY DEF SecurityDescriptor, o, g, d, at
  <2>3. s.dec = [Revision |-> <<0, 1>>, Control |-> <<2, 2>>, OffsetOwner |-> <<4, 4>>,
                 OffsetGroup |-> <<8, 4>>, OffsetSacl |-> <<12, 4>>, OffsetDacl |-> <<16, 4>>,
                 OwnerSid |-> SliceIf(off[1] # 0, off[1], o),
                 GroupSid |-> SliceIf(off[2] # 0, off[2], g),
                 Dacl |-> SliceIf(off[3] # 0, off[3], d)]
    BY DEF SecurityDescriptor, o, g, d, at, off
  <2> HIDE DEF s
  <2>4. \A f \in DOMAIN s.enc : f \in {"OwnerSid", "GroupSid", "Dacl"} \/ s.dec[f] = s.enc[f]
    BY <2>2, <2>3
  <2>5. \A f \in {"OwnerSid", "GroupSid", "Dacl"} : SameBytes(s.dec[f], s.enc[f])
    BY <2>1, <2>2, <2>3
  <2> QED BY <2>4, <2>5, Zenon DEF Agrees, SameBytes
<1> QED BY <1>4, <1>5, <1>6 DEF Sound

LEMMA FileAllSound ==
  ASSUME NEW n \in Nat
  PROVE  Sound(FileAllInformationInfo(n))
<1> DEFINE s == FileAllInformationInfo(n)
           part == <<FileBasicInformationInfo.size, FileStandardInformationInfo.size,
                     FileInternalInformationInfo.size, FileEaInformationInfo.size,
                     FileAccessInformationInfo.size, FilePositionInformationInfo.size,
                     FileModeInformationInfo.size, FileAlignmentInformationInfo.size,
                     FileAlternateNameInformationInfo(n).size>>
           at == Starts(0, part, 1)
           end == Ends(0, part, 1)
<1>1. part = <<40, 24, 8, 4, 4, 8, 4, 4, 4 + n>>
  BY DEF FileBasicInformationInfo, FileStandardInformationInfo, FileInternalInformationInfo,
         FileEaInformationInfo, FileAccessInformationInfo, FilePositionInformationInfo,
         FileModeInformationInfo, FileAlignmentInformationInfo, FileAlternateNameInformationInfo
<1> HIDE DEF part
<1>2. Len(part) = 9 /\ IsSizes(part) /\ part # <<>>
  BY <1>1 DEF IsSizes
<1>3. /\ at[1] = 0 /\ at[2] = 40 /\ at[3] = 64 /\ at[4] = 72 /\ at[5] = 76 /\ at[6] = 80
      /\ at[7] = 88 /\ at[8] = 92 /\ at[9] = 96 /\ end = 100 + n
  <2>1. 0 \in Nat
    OBVIOUS
  <2>2. Touching(at, 0, part, end)
    BY <1>2, <2>1, Adjacent, Zenon
  <2> HIDE DEF at, end
  <2>3. /\ at[2] = at[1] + part[1] /\ at[3] = at[2] + part[2] /\ at[4] = at[3] + part[3]
        /\ at[5] = at[4] + part[4] /\ at[6] = at[5] + part[5] /\ at[7] = at[6] + part[6]
        /\ at[8] = at[7] + part[7] /\ at[9] = at[8] + part[8] /\ end = at[9] + part[9]
    BY <1>2, <2>2 DEF Touching
  <2>4. at[1] = 0
    BY <2>2 DEF Touching
  <2> QED BY <1>1, <2>3, <2>4
<1> HIDE DEF at, end
<1>4. s.valid
  <2>1. end >= 96
    BY <1>3
  <2> QED BY <2>1, Zenon DEF FileAllInformationInfo, part, end
<1>5. s.enc = [Basic |-> <<0, 40>>, Standard |-> <<40, 24>>, Internal |-> <<64, 8>>,
               Ea |-> <<72, 4>>, Access |-> <<76, 4>>, Position |-> <<80, 8>>,
               Mode |-> <<88, 4>>, Alignment |-> <<92, 4>>, Name |-> <<96, 4 + n>>]
  <2>1. s.enc = [Basic |-> <<at[1], part[1]>>, Standard |-> <<at[2], part[2]>>,
                 Internal |-> <<at[3], part[3]>>, Ea |-> <<at[4], part[4]>>,
                 Access |-> <<at[5], part[5]>>, Position |-> <<at[6], part[6]>>,
                 Mode |-> <<at[7], part[7]>>, Alignment |-> <<at[8], part[8]>>,
                 Name |-> <<at[9], part[9]>>]
    BY Zenon DEF FileAllInformationInfo, part, at
  <2> HIDE DEF s
  <2> QED BY <1>1, <1>3, <2>1
<1>6. s.size = end /\ s.dec = FileAllInformationDecoder(end)
  BY Zenon DEF FileAllInformationInfo, part, end
<1> HIDE DEF s
<1>7. Apart(s)
  BY <1>3, <1>5, <1>6 DEF Apart, Interval, Disjoint, Below
<1>8. Agrees(s)
  BY <1>3, <1>5, <1>6 DEF Agrees, FileAllInformationDecoder, SameBytes, Slice
<1> QED BY <1>4, <1>7, <1>8 DEF Sound, s

\* The records of the shares and their strings are counted in one pass over the
\* names, the strings alone in another: twelve bytes of a share are between.
LEMMA StringsWithin ==
  ASSUME NEW names \in Seq(Nat)
  PROVE  LET shares == [i \in DOMAIN names |-> UnicodeStrSize(1) + UnicodeStrSize(names[i]) + 12]
         IN  /\ Ends(0, Strings(names), 1) \in Nat
             /\ Ends(0, shares, 1) = 12 * Len(names) + Ends(0, Strings(names), 1)
<1> DEFINE one == UnicodeStrSize(1)
           S(i) == UnicodeStrSize(names[i])
           shares == [i \in DOMAIN names |-> one + S(i) + 12]
           strings == Strings(names)
           n == Len(names)
<1>1. n \in Nat /\ DOMAIN names = 1..n /\ \A i \in 1..n : names[i] \in Nat
  OBVIOUS
<1>2. one \in Nat /\ \A i \in 1..n : S(i) \in Nat
  BY <1>1, StringSize
<1>3. /\ Len(shares) = n /\ IsSizes(shares)
      /\ \A i \in 1..n : shares[i] = one + S(i) + 12
  <2>1. Len(shares) = n
    BY <1>1
  <2> QED BY <1>1, <1>2, <2>1 DEF IsSizes
<1>4. /\ Len(strings) = 2 * n
      /\ \A i \in 1..n : strings[2 * i - 1] = S(i) /\ strings[2 * i] = one
      /\ IsSizes(strings)
  <2>1. strings = [i \in 1..(2 * n) |-> UnicodeStrSize(IF i % 2 = 1 THEN names[(i + 1) \div 2] ELSE 1)]
    BY DEF Strings
  <2> HIDE DEF strings
  <2>2. Len(strings) = 2 * n
    BY <1>1, <2>1
  <2>3. ASSUME NEW i \in 1..n PROVE strings[2 * i - 1] = S(i) /\ strings[2 * i] = one
    <3>1. /\ 2 * i - 1 \in 1..(2 * n) /\ 2 * i \in 1..(2 * n)
          /\ (2 * i - 1) % 2 = 1 /\ (2 * i) % 2 = 0 /\ ((2 * i - 1) + 1) \div 2 = i
      BY <1>1
    <3> QED BY <2>1, <3>1
  <2>4. ASSUME NEW i \in 1..(2 * n) PROVE strings[i] \in Nat
    <3>1. i % 2 = 1 => (i + 1) \div 2 \in 1..n
      BY <1>1
    <3>2. CASE i % 2 = 1
      BY <1>2, <2>1, <3>1, <3>2
    <3>3. CASE i % 2 # 1
      BY <1>2, <2>1, <3>3
    <3> QED BY <3>2, <3>3
  <2>5. IsSizes(strings)
    <3>1. DOMAIN strings = 1..(2 * n)
      BY <2>1
    <3>2. n = 0 => strings = <<>>
      BY <2>1
    <3> QED BY <1>1, <2>2, <2>4, <3>1, <3>2 DEF IsSizes
  <2> QED BY <2>2, <2>3, <2>5
<1>5. CASE n = 0
  <2>1. shares = <<>> /\ strings = <<>>
    <3>1. shares = <<>>
      BY <1>3, <1>5 DEF IsSizes
    <3>2. strings = <<>>
      BY <1>4, <1>5 DEF IsSizes
    <3> QED BY <3>1, <3>2
  <2>2. Ends(0, shares, 1) = 0 /\ Ends(0, strings, 1) = 0
    BY <2>1, EmptyEnds
  <2> QED BY <1>5, <2>2
<1>6. CASE n # 0
  <2> DEFINE sh == Starts(0, shares, 1)
             shEnd == Ends(0, shares, 1)
             st == Starts(0, strings, 1)
             stEnd == Ends(0, strings, 1)
  <2>1. shares # <<>> /\ strings # <<>>
    BY <1>1, <1>3, <1>4, <1>6
  <2>2. 0 \in Nat
    OBVIOUS
  <2> HIDE DEF shares, strings, one, S
  <2>3. Touching(sh, 0, shares, shEnd)
    BY <1>3, <2>1, <2>2, Adjacent, Zenon
  <2>4. Touching(st, 0, strings, stEnd)
    BY <1>4, <2>1, <2>2, Adjacent, Zenon
  <2> HIDE DEF sh, shEnd, st, stEnd
  <2>5. ASSUME NEW i \in 1..n
        PROVE  /\ st[2 * i - 1] \in Nat /\ st[2 * i] = st[2 * i - 1] + S(i)
               /\ i > 1 => /\ st[2 * i - 1] = (st[2 * (i - 1) - 1] + S(i - 1)) + one
                           /\ sh[i] = sh[i - 1] + (one + S(i - 1) + 12)
    <3>1. /\ 2 * i - 1 \in 1..(2 * n) /\ 2 * i \in 1..(2 * n) /\ 2 * i > 1 /\ 2 * i - 1 = (2 * i) - 1
          /\ i > 1 => /\ 2 * i - 1 > 1 /\ i - 1 \in 1..n /\ (2 * i - 1) - 1 = 2 * (i - 1)
                      /\ 2 * (i - 1) \in 1..(2 * n) /\ 2 * (i - 1) > 1
      BY <1>1
    <3>2. st[2 * i - 1] \in Nat
      BY <1>4, <2>4, <3>1 DEF Touching
    <3>3. st[2 * i] = st[2 * i - 1] + S(i)
      BY <1>4, <2>4, <3>1 DEF Touching
    <3>4. ASSUME i > 1
          PROVE  /\ st[2 * i - 1] = st[2 * (i - 1)] + one
                 /\ st[2 * (i - 1)] = st[2 * (i - 1) - 1] + S(i - 1)
      BY <1>4, <2>4, <3>1, <3>4 DEF Touching
    <3>5. ASSUME i > 1 PROVE sh[i] = sh[i - 1] + (one + S(i - 1) + 12)
      BY <1>3, <2>3, <3>1, <3>5 DEF Touching
    <3> QED BY <3>2, <3>3, <3>4, <3>5
  <2> DEFINE Bad == {i \in 1..n : sh[i] # st[2 * i - 1] + 12 * (i - 1)}
  <2>6. ASSUME Bad # {} PROVE FALSE
    <3>1. PICK i \in Bad : \A j \in Bad : ~(j < i)
      <4>1. Bad \subseteq Nat
        BY <1>1
      <4> QED BY <2>6, <4>1, Smallest
    <3>2. i \in 1..n /\ sh[i] # st[2 * i - 1] + 12 * (i - 1)
      BY <3>1
    <3>3. i > 1
      <4>1. sh[1] = 0 /\ st[1] = 0
        BY <2>3, <2>4 DEF Touching
      <4> QED BY <3>2, <4>1
    <3>4. i - 1 \in 1..n
      BY <1>1, <3>2, <3>3
    <3>5. sh[i - 1] = st[2 * (i - 1) - 1] + 12 * ((i - 1) - 1)
      BY <3>1, <3>4
    <3> HIDE DEF Bad
    <3>6. /\ st[2 * i - 1] = (st[2 * (i - 1) - 1] + S(i - 1)) + one
          /\ sh[i] = sh[i - 1] + (one + S(i - 1) + 12)
      BY <2>5, <3>2, <3>3
    <3>7. st[2 * (i - 1) - 1] \in Nat /\ S(i - 1) \in Nat
      BY <1>2, <2>5, <3>4
    <3> DEFINE a == st[2 * (i - 1) - 1]
    <3>8. sh[i] = (a + 12 * ((i - 1) - 1)) + (one + S(i - 1) + 12) /\ st[2 * i - 1] = (a + S(i - 1)) + one
      BY <3>5, <3>6
    <3> HIDE DEF a
    <3>9. a \in Nat
      BY <3>7 DEF a
    <3> QED BY <1>2, <3>2, <3>7, <3>8, <3>9
  <2>7. n \in 1..n
    BY <1>1, <1>6
  <2>8. sh[n] = st[2 * n - 1] + 12 * (n - 1)
    BY <2>6, <2>7
  <2> HIDE DEF Bad
  <2>9. shEnd = sh[n] + (one + S(n) + 12)
    BY <1>3, <2>3, <2>7 DEF Touching
  <2>10. stEnd = st[2 * n] + one /\ st[2 * n] = st[2 * n - 1] + S(n) /\ st[2 * n - 1] \in Nat
    <3>1. stEnd = st[2 * n] + strings[2 * n]
      BY <1>4, <2>4 DEF Touching
    <3>2. strings[2 * n] = one
      BY <1>4, <2>7
    <3> QED BY <2>5, <2>7, <3>1, <3>2
  <2>11. S(n) \in Nat
    BY <1>2, <2>7
  <2> DEFINE b == st[2 * n - 1]
             c == S(n)
             e == st[2 * n]
  <2>12. b \in Nat /\ c \in Nat /\ shEnd = (b + 12 * (n - 1)) + (one + c + 12) /\ stEnd = (b + c) + one
    BY <2>8, <2>9, <2>10, <2>11
  <2> HIDE DEF b, c
  <2>13. stEnd \in Nat /\ shEnd = 12 * n + stEnd
    BY <1>1, <1>2, <2>12
  <2> QED BY <2>13 DEF shEnd, stEnd, shares, strings, one, S
<1> QED BY <1>1, <1>5, <1>6

LEMMA NetSharesSound ==
  ASSUME NEW names \in Seq(Nat)
  PROVE  Sound(NetShareInfo1(names)) /\ Sound(NetShareEnumAllResponse(names))
<1> DEFINE n == Len(names)
           e == Ends(0, Strings(names), 1)
           s == NetShareInfo1(names)
           t == NetShareEnumAllResponse(names)
           ctr == 8 + 8 + s.size
<1>1. n \in Nat /\ e \in Nat /\ s.size = 4 + (12 * n + e)
  BY StringsWithin DEF NetShareInfo1
<1>2. /\ s.enc = [Count |-> <<0, 4>>, Fixed |-> <<4, 12 * n>>, Names |-> <<4 + 12 * n, e>>]
      /\ s.dec = NoDecoder
  BY DEF NetShareInfo1
<1>3. s.valid
  BY Zenon DEF NetShareInfo1
<1>4. /\ t.size = 20 + ctr /\ t.dec = NoDecoder
      /\ t.enc = [Level |-> <<0, 4>>, Ctr |-> <<4, ctr>>, TotalEntries |-> <<4 + ctr, 4>>,
                  ResumeId |-> <<8 + ctr, 4>>, Resume |-> <<12 + ctr, 4>>,
                  WindowsError |-> <<16 + ctr, 4>>]
  BY Zenon DEF NetShareEnumAllResponse
<1>5. t.valid
  BY Zenon DEF NetShareEnumAllResponse
<1> HIDE DEF n, e, s, t
<1>6. ctr \in Nat
  BY <1>1
<1> HIDE DEF ctr
<1>7. Apart(s)
  BY <1>1, <1>2 DEF Apart, Interval, Disjoint, Below
<1>8. Apart(t)
  BY <1>4, <1>6 DEF Apart, Interval, Disjoint, Below
<1>9. Agrees(s) /\ Agrees(t)
  BY <1>2, <1>4 DEF Agrees, NoDecoder
<1> QED BY <1>3, <1>5, <1>7, <1>8, <1>9 DEF Sound, s, t

-----------------------------------------------------------------------------
(* Every structure that is sendable.                                           *)

LEMMA LongSound ==
  ASSUME NEW x, x.kind \in LongKinds, x.n \in Nat, x.kind = "WriteRequest" => x.list = <<>>
  PROVE  Sound(Structure(x))
<1> DEFINE n == x.n
<1>1. n \in Nat
  OBVIOUS
<1> HIDE DEF n
<1>2. CASE x.kind = "WriteRequest"
  <2>1. Structure(x) = WriteRequest(n, <<>>)
    BY <1>2 DEF Structure, n
  <2> QED BY <1>1, <2>1, WriteRequestSound
<1>3. CASE x.kind \in {"FileStream", "FsAttribute", "FsVolume", "ChangeNotifyResponse",
                       "SrvCopychunkCopy", "CompressionContext", "DCEBindAck", "UnicodeStr"}
  <2>1. \/ Structure(x) = FileStreamInformationInfo(n)
        \/ Structure(x) = FileFsAttributeInformationInfo(n)
        \/ Structure(x) = FileFsVolumeInformationInfo(n) \/ Structure(x) = ChangeNotifyResponse(n)
        \/ Structure(x) = SrvCopychunkCopy(n) \/ Structure(x) = CompressionContext(n)
        \/ Structure(x) = DCEBindAck(13, n) \/ Structure(x) = UnicodeStr(n)
    BY <1>3 DEF Structure, n
  <2> QED BY <1>1, <2>1, AnswersSound
<1>4. CASE x.kind \in {"FileName", "AAPLServerQuery", "SetRename", "ErrorContextResponse",
                       "DCERequestRes"}
  <2>1. \/ Structure(x) = FileAlternateNameInformationInfo(n)
        \/ Structure(x) = AAPLServerQueryResponse(n)
        \/ Structure(x) = FileRenameInformationType2Encoder(n)
        \/ Structure(x) = ErrorContextResponse(n) \/ Structure(x) = DCERequestRes(n)
    BY <1>4 DEF Structure, n
  <2> QED BY <1>1, <2>1, NamesSound
<1>5. CASE x.kind \in {"FileFullDirectory", "FileBothDirectory", "FileIdBothDirectory",
                       "FileIdBothDirectory2", "FileIdFullDirectory", "FileNotify"}
  <2>1. \/ Structure(x) = FileFullDirectoryInformationInfo(n)
        \/ Structure(x) = FileBothDirectoryInformationInfo(n)
        \/ Structure(x) = FileIdBothDirectoryInformationInfo(n)
        \/ Structure(x) = FileIdBothDirectoryInformationInfo2(n)
        \/ Structure(x) = FileIdFullDirectoryInformationInfo(n)
        \/ Structure(x) = FileNotifyInformationInfo(n)
    BY <1>5 DEF Structure, n
  <2> QED BY <1>1, <2>1, EntriesSound
<1>6. CASE x.kind \in {"FileDirectory", "FileAll", "QueryInfoRequest", "ReadResponse"}
  <2>1. \/ Structure(x) = FileDirectoryInformationInfo(n)
        \/ Structure(x) = FileAllInformationInfo(n)
        \/ Structure(x) = QueryInfoRequest(n) \/ Structure(x) = ReadResponse(n)
    BY <1>6 DEF Structure, n
  <2> QED BY <1>1, <2>1, FileDirectorySound, FileAllSound, QueryInfoRequestSound,
             ReadResponseSound
<1>7. CASE x.kind \in {"QueryDirectoryResponse", "QueryInfoResponse"}
  <2>1. Structure(x) = QueryDirectoryResponse(n) \/ Structure(x) = QueryInfoResponse(n)
    BY <1>7 DEF Structure, n
  <2> QED BY <1>1, <2>1, OutputResponseSound
<1> QED BY <1>2, <1>3, <1>4, <1>5, <1>6, <1>7, Zenon DEF LongKinds

LEMMA ShortSound ==
  ASSUME NEW x, x.kind \in ShortKinds, x.n \in Nat, FixedPart[x.kind] + x.n < U16,
         x.kind \in {"NegotiateResponse", "CreateRequest"} => x.list \in Seq(Nat),
         x.kind = "CreateRequest" => x.list = <<>> \/ x.n % 8 = 0
  PROVE  Sound(Structure(x))
<1> DEFINE n == x.n
           cs == x.list
           K == x.kind
<1>1. /\ n \in Nat
      /\ K \in {"SessionSetupRequest", "TreeConnectRequest", "QueryDirectoryRequest",
                "SessionSetupResponse", "NegotiateResponse", "CreateRequest"}
  BY DEF ShortKinds, FixedPart
<1>2. /\ K = "SessionSetupRequest" => 24 + n < U16
      /\ K = "TreeConnectRequest" => 8 + n < U16
      /\ K = "QueryDirectoryRequest" => 32 + n < U16
      /\ K = "SessionSetupResponse" => 8 + n < U16
      /\ K = "NegotiateResponse" => 64 + n < U16
      /\ K = "CreateRequest" => 56 + n < U16
  BY DEF FixedPart
<1>3. /\ K = "SessionSetupRequest" => Structure(x) = SessionSetupRequest(n)
      /\ K = "TreeConnectRequest" => Structure(x) = TreeConnectRequest(n)
      /\ K = "QueryDirectoryRequest" => Structure(x) = QueryDirectoryRequest(n)
      /\ K = "SessionSetupResponse" => Structure(x) = SessionSetupResponse(n)
      /\ K = "NegotiateResponse" => Structure(x) = NegotiateResponse(n, cs)
      /\ K = "CreateRequest" => Structure(x) = CreateRequest(n, cs)
  BY DEF Structure
<1>4. K \in {"NegotiateResponse", "CreateRequest"} => AreSizes(cs)
  BY DEF AreSizes
<1>5. K = "CreateRequest" => AlignedBefore(cs, n)
  BY DEF AlignedBefore
<1> HIDE DEF n, cs, K
<1> QED BY <1>1, <1>2, <1>3, <1>4, <1>5, SessionSetupRequestSound, TreeConnectRequestSound,
           QueryDirectoryRequestSound, SessionSetupResponseSound, NegotiateResponseSound,
           CreateRequestSound, Zenon

LEMMA PacketsSound ==
  ASSUME NEW x
  PROVE  /\ x.kind = "NegotiateRequest" /\ x.n \in Nat /\ 36 + 2 * x.n < U16
              /\ x.list \in Seq(Nat) /\ (x.list = <<>> \/ x.list[1] >= 28)
            => Sound(Structure(x))
         /\ x.kind = "CreateContext" /\ x.n \in Nat /\ x.m \in Nat
              /\ Roundup(16 + x.n, 8) + x.m < U16
            => Sound(Structure(x))
         /\ x.kind = "ReadRequest" /\ x.list = <<>> => Sound(Structure(x))
         /\ x.kind = "ErrorResponse" /\ x.n = 0 => Sound(Structure(x))
         /\ x.kind \in {"IoctlRequest", "SetInfoRequest"} /\ x.n \in Nat \ {0}
            => Sound(Structure(x))
         /\ x.kind = "CreateResponse" /\ x.list \in Seq(Nat) => Sound(Structure(x))
<1> DEFINE n == x.n
           m == x.m
           cs == x.list
           s == Structure(x)
<1>1. ASSUME x.kind = "NegotiateRequest", n \in Nat, 36 + 2 * n < U16, cs \in Seq(Nat),
             cs = <<>> \/ cs[1] >= 28
      PROVE  Sound(s)
  <2>1. s = NegotiateRequest(n, cs)
    BY <1>1 DEF Structure
  <2>2. AreSizes(cs)
    BY <1>1 DEF AreSizes
  <2> QED BY <1>1, <2>1, <2>2, NegotiateRequestSound, Zenon
<1>2. ASSUME x.kind = "CreateContext", n \in Nat, m \in Nat, Roundup(16 + n, 8) + m < U16
      PROVE  Sound(s)
  <2>1. s = CreateContext(n, m)
    BY <1>2 DEF Structure
  <2> QED BY <1>2, <2>1, CreateContextSound, Zenon
<1>3. ASSUME x.kind = "ReadRequest", cs = <<>> PROVE Sound(s)
  <2>1. s = ReadRequest(<<>>)
    BY <1>3 DEF Structure
  <2> QED BY <2>1, ReadRequestSound, Zenon
<1>4. ASSUME x.kind = "ErrorResponse", n = 0 PROVE Sound(s)
  <2>1. s = ErrorResponse(0)
    BY <1>4 DEF Structure
  <2> QED BY <2>1, ErrorResponseSound, Zenon
<1>5. ASSUME x.kind \in {"IoctlRequest", "SetInfoRequest"}, n \in Nat \ {0} PROVE Sound(s)
  <2>1. s = IoctlRequest(n) \/ s = SetInfoRequest(n)
    BY <1>5 DEF Structure
  <2> QED BY <1>5, <2>1, RestOfPacketSound, Zenon
<1>6. ASSUME x.kind = "CreateResponse", cs \in Seq(Nat) PROVE Sound(s)
  <2>1. s = CreateResponse(cs)
    BY <1>6 DEF Structure
  <2>2. AreSizes(cs)
    BY <1>6 DEF AreSizes
  <2> QED BY <2>1, <2>2, CreateResponseSound, Zenon
<1> QED BY <1>1, <1>2, <1>3, <1>4, <1>5, <1>6, Zenon

LEMMA RecordsSound ==
  ASSUME NEW x
  PROVE  /\ x.kind = "SymbolicLinkReparse" /\ x.n \in Nat /\ x.m \in Nat
              /\ x.n % 2 = 0 /\ 12 + x.n + x.m < U16
            => Sound(Structure(x))
         /\ x.kind = "HashContext" /\ x.n \in Nat /\ x.m \in Nat /\ 12 + 2 * x.n + x.m < U16
            => Sound(Structure(x))
         /\ x.kind = "CipherContext" /\ x.n \in Nat /\ 10 + 2 * x.n < U16
            => Sound(Structure(x))
         /\ x.kind \in {"IoctlResponse", "PacketHeader", "NetShareGetInfo"}
              /\ x.n \in Nat /\ x.m \in Nat
            => Sound(Structure(x))
<1> DEFINE n == x.n
           m == x.m
           s == Structure(x)
<1>1. ASSUME x.kind = "SymbolicLinkReparse", n \in Nat, m \in Nat, n % 2 = 0, 12 + n + m < U16
      PROVE  Sound(s)
  <2>1. s = SymbolicLinkReparseDataBuffer(n, m)
    BY <1>1 DEF Structure
  <2> QED BY <1>1, <2>1, SymbolicLinkReparseSound, Zenon
<1>2. ASSUME x.kind = "HashContext", n \in Nat, m \in Nat, 12 + 2 * n + m < U16
      PROVE  Sound(s)
  <2>1. s = HashContext(n, m)
    BY <1>2 DEF Structure
  <2> QED BY <1>2, <2>1, HashContextSound, Zenon
<1>3. ASSUME x.kind = "CipherContext", n \in Nat, 10 + 2 * n < U16 PROVE Sound(s)
  <2>1. s = CipherContext(n)
    BY <1>3 DEF Structure
  <2> QED BY <1>3, <2>1, CipherContextSound, Zenon
<1>4. ASSUME x.kind \in {"IoctlResponse", "PacketHeader", "NetShareGetInfo"}, n \in Nat, m \in Nat
      PROVE  Sound(s)
  <2>1. \/ s = IoctlResponse(n, m) \/ s = NetShareGetInfoResponse(n, m)
        \/ s = PacketHeader(n > 0, m > 0)
    BY <1>4, Zenon DEF Structure
  <2> QED BY <1>4, <2>1, IoctlResponseSound, NetShareGetInfoSound, PacketHeaderSound, Zenon
<1> QED BY <1>1, <1>2, <1>3, <1>4, Zenon

LEMMA SecuritySound ==
  ASSUME NEW x
  PROVE  /\ x.kind \in {"SID", "ACE"} /\ x.n \in 0..(U8 - 1) => Sound(Structure(x))
         /\ x.kind = "ACL" /\ x.list \in Seq(0..(U8 - 1)) /\ ACLSize(x.list) < U16
            => Sound(Structure(x))
         /\ x.kind = "SecurityDescriptor" /\ x.n \in -1..(U8 - 1) /\ x.m \in -1..(U8 - 1)
              /\ x.list \in Seq(0..(U8 - 1)) /\ ACLSize(x.list) < U16
            => Sound(Structure(x))
         /\ x.kind \in {"NetShareInfo1", "NetShareEnumAll"} /\ x.list \in Seq(Nat)
            => Sound(Structure(x))
<1> DEFINE n == x.n
           m == x.m
           l == x.list
           s == Structure(x)
<1>1. ASSUME x.kind \in {"SID", "ACE"}, n \in 0..(U8 - 1) PROVE Sound(s)
  <2>1. s = SID(n) \/ s = ACE(n)
    BY <1>1 DEF Structure
  <2> QED BY <1>1, <2>1, SIDSound, Zenon
<1>2. ASSUME x.kind = "ACL", l \in Seq(0..(U8 - 1)), ACLSize(l) < U16 PROVE Sound(s)
  <2>1. s = ACL(l)
    BY <1>2 DEF Structure
  <2> QED BY <1>2, <2>1, ACLSound, Zenon
<1>3. ASSUME x.kind = "SecurityDescriptor", n \in -1..(U8 - 1), m \in -1..(U8 - 1),
             l \in Seq(0..(U8 - 1))
      PROVE  Sound(s)
  <2>1. s = SecurityDescriptor(n, m, l)
    BY <1>3 DEF Structure
  <2>2. ACLSize(l) \in Nat /\ ACLSize(l) >= 8
    BY <1>3, ACLIsBehind, Zenon
  <2> QED BY <1>3, <2>1, <2>2, SecurityDescriptorSound, Zenon
<1>4. ASSUME x.kind \in {"NetShareInfo1", "NetShareEnumAll"}, l \in Seq(Nat) PROVE Sound(s)
  <2>1. s = NetShareInfo1(l) \/ s = NetShareEnumAllResponse(l)
    BY <1>4 DEF Structure
  <2> QED BY <1>4, <2>1, NetSharesSound, Zenon
<1> QED BY <1>1, <1>2, <1>3, <1>4, Zenon

LEMMA AllSound ==
  ASSUME NEW x, Sendable(x)
  PROVE  Sound(Structure(x)) /\ x.kind \notin ChainKinds
<1>1. Sound(Structure(x))
  BY FixedSound, LongSound, ShortSound, PacketsSound, RecordsSound, SecuritySound, Zenon
     DEF Sendable
<1>2. x.kind \notin ChainKinds
  <2> USE DEF ChainKinds
  <2>1. CASE x.kind \in FixedKinds
    BY <2>1 DEF FixedKinds
  <2>2. CASE x.kind \in LongKinds
    BY <2>2 DEF LongKinds
  <2>3. CASE x.kind \in ShortKinds
    BY <2>3 DEF ShortKinds, FixedPart
  <2>4. CASE x.kind \notin FixedKinds \cup LongKinds \cup ShortKinds
    <3>1. x.kind \in {"NegotiateRequest", "CreateContext", "ReadRequest", "ErrorResponse",
                      "IoctlRequest", "SetInfoRequest", "CreateResponse", "SymbolicLinkReparse",
                      "HashContext", "CipherContext", "IoctlResponse", "PacketHeader",
                      "NetShareGetInfo", "SID", "ACE", "ACL", "SecurityDescriptor",
                      "NetShareInfo1", "NetShareEnumAll"}
      BY <2>4, Zenon DEF Sendable
    <3> QED BY <3>1
  <2> QED BY <2>1, <2>2, <2>3, <2>4
<1> QED BY <1>1, <1>2

-----------------------------------------------------------------------------
(* The properties of the runs.                                                 *)

\* What is on the wire and what the decoder has returned.
Carried ==
  /\ msg \in Messages \cup Lists /\ stage \in {"made", "sent", "read"}
  /\ IsMessage /\ stage # "made" =>
       wire = [size |-> Structure(msg).size, fields |-> Structure(msg).enc]
  /\ IsMessage /\ stage = "read" =>
       got = [accepted |-> Structure(msg).valid, fields |-> Structure(msg).dec]
  /\ ~IsMessage /\ stage # "made" => wire = Chain(msg)
  /\ ~IsMessage /\ stage = "read" =>
       got = [visited |-> Visited(wire.at[1], wire.links)]

LEMMA AlwaysCarried == Spec => []Carried
<1>1. Init => Carried
  BY Zenon DEF Init, Carried
<1>2. Carried /\ [Next]_vars => Carried'
  <2> SUFFICES ASSUME Carried, [Next]_vars PROVE Carried'
    OBVIOUS
  <2> USE DEF Carried, IsMessage
  <2>1. CASE Encode
    BY <2>1, Zenon DEF Encode
  <2>2. CASE Decode
    BY <2>2, Zenon DEF Decode
  <2>3. CASE EncodeChain
    BY <2>3, Zenon DEF EncodeChain
  <2>4. CASE DecodeChain
    BY <2>4, Zenon DEF DecodeChain
  <2>5. CASE UNCHANGED vars
    BY <2>5, Zenon DEF vars
  <2> QED BY <2>1, <2>2, <2>3, <2>4, <2>5 DEF Next
<1> QED BY <1>1, <1>2, PTL DEF Spec

\* What is sendable is no chain, and what is linkable is one.
LEMMA RegularMessages ==
  ASSUME Carried
  PROVE  /\ IsMessage => Sound(Structure(msg))
         /\ ~IsMessage => Reached(Chain(msg), {i \in 1..Len(msg.list) : Exact(i)}, msg.list)
                          /\ Separate(Chain(msg), msg.list)
BY RegularAssumption, AllSound, ChainFollowed, Zenon DEF Regular, Carried, IsMessage,
   Linkable, Exact

\* Encode of every structure of smb2, for every length of its variable parts
\* that is sendable, writes within Size() bytes and no field over another.
THEOREM FieldsNeverOverlap == Spec => []FieldsApart
<1>1. Carried => FieldsApart
  <2> SUFFICES ASSUME Carried, IsMessage, stage # "made"
               PROVE  \A f \in DOMAIN wire.fields :
                        /\ wire.fields[f] \in Interval
                        /\ wire.fields[f][2] > 0 => wire.fields[f][1] + wire.fields[f][2] <= wire.size
                        /\ \A g \in DOMAIN wire.fields \ {f} : Disjoint(wire.fields[f], wire.fields[g])
    BY Zenon DEF FieldsApart
  <2>1. Apart(Structure(msg))
    BY RegularMessages DEF Sound
  <2>2. wire.size = Structure(msg).size /\ wire.fields = Structure(msg).enc
    BY DEF Carried
  <2> QED BY <2>1, <2>2, Zenon DEF Apart
<1> QED BY <1>1, AlwaysCarried, PTL

\* IsInvalid of every decoder of smb2 accepts what the encoder made, and the
\* methods of the decoder read each field where it was written.
THEOREM DecodesWhatIsEncoded == Spec => []RoundTrip
<1>1. Carried => RoundTrip
  <2> SUFFICES ASSUME Carried, IsMessage, stage = "read"
               PROVE  /\ got.accepted
                      /\ \A f \in DOMAIN got.fields \cap DOMAIN wire.fields :
                           SameBytes(got.fields[f], wire.fields[f])
    BY Zenon DEF RoundTrip
  <2>1. Structure(msg).valid /\ Agrees(Structure(msg))
    BY RegularMessages, Zenon DEF Sound
  <2>2. wire.fields = Structure(msg).enc /\ got.fields = Structure(msg).dec
    BY DEF Carried
  <2>3. got.accepted
    <3>1. got = [accepted |-> Structure(msg).valid, fields |-> Structure(msg).dec]
      BY Zenon DEF Carried
    <3>2. got.accepted = Structure(msg).valid
      BY <3>1, Zenon
    <3> QED BY <2>1, <3>2, Zenon
  <2> QED BY <2>1, <2>2, <2>3, Zenon DEF Agrees
<1> QED BY <1>1, AlwaysCarried, PTL

\* The Next and NextCommand links of chains of any number of items, of whatever
\* sizes, lead the decoders from item to item, but for the link of a create
\* context of unaligned size, which leads elsewhere; the items do not overlap.
THEOREM EveryItemIsReached == Spec => []ChainsFollowed
<1>1. Carried => ChainsFollowed
  <2> SUFFICES ASSUME Carried, ~IsMessage, stage = "read" PROVE ChainsFollowed
    BY Zenon DEF ChainsFollowed
  <2> DEFINE exact == {i \in 1..Len(msg.list) : Exact(i)}
  <2>1. Reached(Chain(msg), exact, msg.list) /\ Separate(Chain(msg), msg.list)
    BY RegularMessages
  <2>2. wire = Chain(msg) /\ got.visited = Visited(wire.at[1], wire.links)
    BY DEF Carried
  <2>3. DOMAIN wire.at = 1..Len(msg.list) /\ Len(msg.list) \in Nat
    BY <2>1, <2>2, Zenon DEF Reached
  <2>4. \A k \in DOMAIN wire.at :
          /\ \A i \in 1..(k - 1) : Exact(i) <=> i \in exact
          /\ \A i \in 1..(k - 2) : Exact(i) <=> i \in exact
    BY <2>3
  <2> HIDE DEF exact
  <2> QED BY <2>1, <2>2, <2>4, Zenon DEF Reached, Separate, ChainsFollowed
<1> QED BY <1>1, AlwaysCarried, PTL
================================================================================

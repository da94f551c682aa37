---------------------------- MODULE Search_proofs ---------------------------
(***************************************************************************)
(* Proofs about Search, for any index, queries, relations, weights, depths *)
(* and bounds: what the lists of a search say of each other, how full they *)
(* are, and that they leave out what was out of the index before it began. *)
(*                                                                         *)
(* The first half is about Ranking alone.  topPages, fuse and expand are   *)
(* loops over a list; each is given by its values after n elements, so an  *)
(* invariant of the loop (KeptInv, KeywordInv, FusedInv) is proved by      *)
(* induction over n.  The sort is the list of the elements by how many     *)
(* precede them.  The second half carries these facts through a search     *)
(* (AnswerInv), while the index goes on around it (GoneInv), and counts    *)
(* what the branches found (FillsInv).                                     *)
(***************************************************************************)
EXTENDS Search, Index_proofs

LEMMA Induction ==
    ASSUME NEW m \in Nat, NEW T, 0 \in T, \A n \in 0 .. m - 1 : n \in T => n + 1 \in T
    PROVE  \A n \in 0 .. m : n \in T
<1> DEFINE R == {ss \in Nat \X Nat : ss[1] < ss[2]}
           S == {n \in 0 .. m : n \notin T}
<1> SUFFICES ASSUME S # {} PROVE FALSE
  OBVIOUS
<1>1. IsWellFoundedOn(R, Nat)
  BY NatLessThanWellFounded DEF OpToRel
<1>2. S \in SUBSET Nat
  OBVIOUS
<1>3. PICK n \in S : \A k \in S : <<k, n>> \notin R
  <2> HIDE DEF S, R
  <2> QED BY <1>1, <1>2, WFMin
<1>4. \A k \in S : ~(k < n)
  <2> TAKE k \in S
  <2>1. <<k, n>> \in Nat \X Nat /\ <<k, n>> \notin R
    BY <1>2, <1>3
  <2> QED BY <2>1
<1>5. n \in 0 .. m /\ n # 0 /\ n \notin T
  OBVIOUS
<1>6. n - 1 \in 0 .. m - 1 /\ n - 1 < n /\ (n - 1) + 1 = n
  BY <1>5
<1>7. n - 1 \in T
  BY <1>4, <1>6
<1> QED BY <1>5, <1>6, <1>7

\* The values of g are made in m steps.
Follows(g, m, base, step) == g[0] = base /\ \A n \in 1 .. m : g[n] = step[n][g[n - 1]]

\* A recursion over the first m numbers is well defined.
LEMMA Recursion ==
    ASSUME NEW m \in Nat, NEW D, NEW base \in D, NEW step \in [1 .. m -> [D -> D]]
    PROVE  \E g \in [0 .. m -> D] : Follows(g, m, base, step)
<1> DEFINE Q(g, k) == Follows(g, k, base, step)
           T == {k \in 0 .. m : \E g \in [0 .. k -> D] : Q(g, k)}
<1>1. 0 \in T
  <2> DEFINE f == [n \in 0 .. 0 |-> base]
  <2>1. f \in [0 .. 0 -> D] /\ Q(f, 0)
    BY DEF Follows
  <2> HIDE DEF f
  <2> QED BY <2>1
<1>2. ASSUME NEW k \in 0 .. m - 1, k \in T PROVE k + 1 \in T
  <2>1. PICK f \in [0 .. k -> D] : Q(f, k)
    BY <1>2
  <2> DEFINE g == [n \in 0 .. k + 1 |-> IF n <= k THEN f[n] ELSE step[k + 1][f[k]]]
  <2>2. k + 1 \in 1 .. m /\ f[k] \in D /\ step[k + 1] \in [D -> D]
    OBVIOUS
  <2>3. g \in [0 .. k + 1 -> D]
    BY <2>2
  <2>4. ASSUME NEW n \in 1 .. k + 1 PROVE g[n] = step[n][g[n - 1]]
    <3>1. CASE n <= k
      <4>1. n - 1 \in 0 .. k + 1 /\ n - 1 <= k /\ n \in 1 .. k
        BY <3>1
      <4>2. g[n] = f[n] /\ g[n - 1] = f[n - 1]
        BY <3>1, <4>1
      <4> QED BY <4>1, <4>2, <2>1 DEF Follows
    <3>2. CASE n = k + 1
      <4>1. g[n] = step[k + 1][f[k]] /\ g[n - 1] = f[k]
        BY <3>2
      <4> QED BY <4>1, <3>2
    <3> QED BY <3>1, <3>2
  <2>5. g[0] = base
    BY <2>1 DEF Follows
  <2>6. Q(g, k + 1)
    BY <2>4, <2>5 DEF Follows
  <2> HIDE DEF g
  <2> QED BY <2>3, <2>6
<1>3. \A k \in 0 .. m : k \in T
  <2> HIDE DEF T
  <2> QED BY <1>1, <1>2, Induction
<1>4. m \in T
  BY <1>3
<1> QED BY <1>4

LEMMA KeptIs ==
    ASSUME NEW hits, Len(hits) \in Nat, NEW limit, NEW D, <<>> \in D,
           \A kept \in D : \A n \in 1 .. Len(hits) : Keep(kept, hits[n], limit) \in D
    PROVE  /\ Kept(hits, limit)[0] = <<>>
           /\ \A n \in 1 .. Len(hits) :
                 Kept(hits, limit)[n] = Keep(Kept(hits, limit)[n - 1], hits[n], limit)
           /\ \A n \in 0 .. Len(hits) : Kept(hits, limit)[n] \in D
<1> DEFINE m == Len(hits)
           step == [n \in 1 .. m |-> [kept \in D |-> Keep(kept, hits[n], limit)]]
           Q(g) == g = [n \in 0 .. m |-> IF n = 0 THEN <<>> ELSE Keep(g[n - 1], hits[n], limit)]
<1>1. step \in [1 .. m -> [D -> D]]
  OBVIOUS
<1>2. PICK g \in [0 .. m -> D] : Follows(g, m, <<>>, step)
  <2>1. m \in Nat
    OBVIOUS
  <2> HIDE DEF step, m
  <2> QED BY <1>1, <2>1, Recursion
<1>3. \A n \in 1 .. m : g[n] = Keep(g[n - 1], hits[n], limit)
  <2> TAKE n \in 1 .. m
  <2>1. n - 1 \in 0 .. m
    OBVIOUS
  <2>2. g[n - 1] \in D
    BY <2>1
  <2>3. step[n][g[n - 1]] = Keep(g[n - 1], hits[n], limit)
    BY <2>2
  <2> HIDE DEF step
  <2> QED BY <1>2, <2>3 DEF Follows
<1>4. Q(g)
  BY <1>2, <1>3 DEF Follows
<1>5. Kept(hits, limit) = CHOOSE f : Q(f)
  BY DEF Kept
<1>6. Q(Kept(hits, limit))
  BY <1>4, <1>5, Zenon
<1> DEFINE f == Kept(hits, limit)
           T == {n \in 0 .. m : f[n] \in D}
<1>7. f[0] = <<>> /\ \A n \in 1 .. m : f[n] = Keep(f[n - 1], hits[n], limit)
  BY <1>6
<1>8. \A n \in 0 .. m : n \in T
  <2>1. 0 \in T
    BY <1>7
  <2>2. ASSUME NEW n \in 0 .. m - 1, n \in T PROVE n + 1 \in T
    <3>1. n + 1 \in 1 .. m /\ (n + 1) - 1 = n
      OBVIOUS
    <3> QED BY <1>7, <2>2, <3>1
  <2> HIDE DEF T
  <2> QED BY <2>1, <2>2, Induction
<1> QED BY <1>7, <1>8

-----------------------------------------------------------------------------
(* topPages *)

Hits == [page : Pages \cup {0}, chunk : Ids]
Places == [page : Pages \cup {0}, chunk : Ids, rank : Nat]

\* A branch's list: each page once, its rank its place.
InRankOrder(list) ==
    /\ \A n \in 1 .. Len(list) : list[n].rank = n
    /\ \A m, n \in 1 .. Len(list) : list[m].page = list[n].page => m = n

LEMMA AppendIs ==
    ASSUME NEW S, NEW list \in Seq(S), NEW e \in S
    PROVE  /\ Append(list, e) \in Seq(S)
           /\ Len(Append(list, e)) = Len(list) + 1
           /\ \A n \in 1 .. Len(list) : Append(list, e)[n] = list[n]
           /\ Append(list, e)[Len(list) + 1] = e
           /\ DOMAIN list = 1 .. Len(list) /\ Len(list) \in Nat
OBVIOUS

LEMMA Below ==
    ASSUME NEW a \in Nat, NEW b \in Nat
    PROVE  a < b <=> a <= b /\ a # b
OBVIOUS

\* What topPages has kept after n of the hits.
KeptInv(kept, hits, limit, n) ==
    /\ InRankOrder(kept)
    /\ Len(kept) <= limit
    /\ \A k \in 1 .. Len(kept) : \E j \in 1 .. n :
          hits[j].page = kept[k].page /\ hits[j].chunk = kept[k].chunk
    /\ Len(kept) < limit => \A j \in 1 .. n : \E k \in 1 .. Len(kept) : kept[k].page = hits[j].page

LEMMA KeepType ==
    ASSUME NEW kept \in Seq(Places), NEW h \in Hits, NEW limit
    PROVE  Keep(kept, h, limit) \in Seq(Places)
<1>1. [page |-> h.page, chunk |-> h.chunk, rank |-> Len(kept) + 1] \in Places
  BY AppendIs DEF Hits, Places
<1> QED BY <1>1, AppendIs DEF Keep

LEMMA KeepKeeps ==
    ASSUME NEW hits \in Seq(Hits), NEW limit \in Nat,
           NEW kept \in Seq(Places), NEW n \in 0 .. Len(hits) - 1,
           KeptInv(kept, hits, limit, n)
    PROVE  KeptInv(Keep(kept, hits[n + 1], limit), hits, limit, n + 1)
<1> DEFINE h == hits[n + 1]
           e == [page |-> h.page, chunk |-> h.chunk, rank |-> Len(kept) + 1]
<1>1. n + 1 \in 1 .. Len(hits) /\ h \in Hits /\ Len(kept) \in Nat
      /\ DOMAIN kept = 1 .. Len(kept)
  OBVIOUS
<1>2. e \in Places
  BY <1>1 DEF Hits, Places
<1>3. CASE Len(kept) = limit \/ \E k \in DOMAIN kept : kept[k].page = h.page
  <2>1. Keep(kept, h, limit) = kept
    BY <1>3 DEF Keep
  <2>2. Len(kept) < limit =>
          \A j \in 1 .. n + 1 : \E k \in 1 .. Len(kept) : kept[k].page = hits[j].page
    <3> SUFFICES ASSUME Len(kept) < limit, NEW j \in 1 .. n + 1
                 PROVE  \E k \in 1 .. Len(kept) : kept[k].page = hits[j].page
      OBVIOUS
    <3>1. CASE j = n + 1
      <4>1. Len(kept) # limit
        BY <1>1, Below
      <4>2. \E k \in DOMAIN kept : kept[k].page = h.page
        BY <1>3, <4>1
      <4> QED BY <1>1, <3>1, <4>2
    <3>2. CASE j \in 1 .. n
      BY <3>2 DEF KeptInv
    <3> QED BY <3>1, <3>2
  <2>3. \A j \in 1 .. n : j \in 1 .. n + 1
    OBVIOUS
  <2>4. \A k \in 1 .. Len(kept) : \E j \in 1 .. n + 1 :
          hits[j].page = kept[k].page /\ hits[j].chunk = kept[k].chunk
    BY <2>3 DEF KeptInv
  <2>5. InRankOrder(kept) /\ Len(kept) <= limit
    BY DEF KeptInv
  <2>6. KeptInv(kept, hits, limit, n + 1)
    BY <2>2, <2>4, <2>5 DEF KeptInv
  <2> QED BY <2>1, <2>6
<1>4. CASE ~(Len(kept) = limit \/ \E k \in DOMAIN kept : kept[k].page = h.page)
  <2> DEFINE new == Append(kept, e)
  <2>1. Keep(kept, h, limit) = new
    BY <1>4 DEF Keep
  <2>2. /\ Len(new) = Len(kept) + 1
        /\ \A k \in 1 .. Len(kept) : new[k] = kept[k]
        /\ new[Len(kept) + 1] = e
    BY <1>2, AppendIs
  <2> HIDE DEF new
  <2>3. \A k \in 1 .. Len(new) : k \in 1 .. Len(kept) \/ k = Len(kept) + 1
    BY <1>1, <2>2
  <2>4. e.rank = Len(kept) + 1 /\ e.page = h.page /\ e.chunk = h.chunk
    OBVIOUS
  <2>5. \A k \in 1 .. Len(kept) : kept[k].page # h.page
    BY <1>1, <1>4
  <2> HIDE DEF e
  <2>6. InRankOrder(new)
    <3>1. \A k \in 1 .. Len(new) : new[k].rank = k
      BY <2>2, <2>3, <2>4 DEF KeptInv, InRankOrder
    <3>2. ASSUME NEW k \in 1 .. Len(new), NEW m \in 1 .. Len(new), new[k].page = new[m].page
          PROVE  k = m
      <4>1. \A i, j \in 1 .. Len(kept) : kept[i].page = kept[j].page => i = j
        BY DEF KeptInv, InRankOrder
      <4>2. CASE k \in 1 .. Len(kept) /\ m \in 1 .. Len(kept)
        BY <2>2, <3>2, <4>1, <4>2
      <4>3. CASE k \in 1 .. Len(kept) /\ m = Len(kept) + 1
        BY <2>2, <2>4, <2>5, <3>2, <4>3
      <4>4. CASE k = Len(kept) + 1 /\ m \in 1 .. Len(kept)
        BY <2>2, <2>4, <2>5, <3>2, <4>4
      <4> QED BY <2>3, <4>2, <4>3, <4>4
    <3> QED BY <3>1, <3>2 DEF InRankOrder
  <2>t. Len(kept) < limit
    <3>1. Len(kept) # limit
      BY <1>4
    <3>2. Len(kept) <= limit
      BY DEF KeptInv
    <3> QED BY <1>1, <3>1, <3>2, Below
  <2>7. Len(new) <= limit
    BY <1>1, <2>t, <2>2
  <2>8. ASSUME NEW k \in 1 .. Len(new)
        PROVE  \E j \in 1 .. n + 1 : hits[j].page = new[k].page /\ hits[j].chunk = new[k].chunk
    <3>1. CASE k = Len(kept) + 1
      <4>1. n + 1 \in 1 .. n + 1
        OBVIOUS
      <4> QED BY <2>2, <2>4, <3>1, <4>1
    <3>2. CASE k \in 1 .. Len(kept)
      <4>1. PICK j \in 1 .. n : hits[j].page = kept[k].page /\ hits[j].chunk = kept[k].chunk
        BY <3>2 DEF KeptInv
      <4>2. j \in 1 .. n + 1
        OBVIOUS
      <4> QED BY <2>2, <3>2, <4>1, <4>2
    <3> QED BY <2>3, <3>1, <3>2
  <2>9. ASSUME NEW j \in 1 .. n + 1 PROVE \E k \in 1 .. Len(new) : new[k].page = hits[j].page
    <3>1. CASE j = n + 1
      <4>1. Len(kept) + 1 \in 1 .. Len(new)
        BY <1>1, <2>2
      <4> QED BY <2>2, <2>4, <3>1, <4>1
    <3>2. CASE j \in 1 .. n
      <4>1. PICK k \in 1 .. Len(kept) : kept[k].page = hits[j].page
        BY <2>t, <3>2 DEF KeptInv
      <4>2. k \in 1 .. Len(new)
        BY <1>1, <2>2
      <4> QED BY <2>2, <4>1, <4>2
    <3> QED BY <3>1, <3>2
  <2>10. KeptInv(new, hits, limit, n + 1)
    BY <2>6, <2>7, <2>8, <2>9 DEF KeptInv
  <2> QED BY <2>1, <2>10
<1> QED BY <1>3, <1>4

LEMMA TopPagesIs ==
    ASSUME NEW hits \in Seq(Hits), NEW limit \in Nat
    PROVE  /\ TopPages(hits, limit) \in Seq(Places)
           /\ KeptInv(TopPages(hits, limit), hits, limit, Len(hits))
<1> DEFINE m == Len(hits)
           f == Kept(hits, limit)
           D == Seq(Places)
           T == {n \in 0 .. m : KeptInv(f[n], hits, limit, n)}
<1>1. m \in Nat /\ <<>> \in D /\ \A n \in 1 .. m : hits[n] \in Hits
  OBVIOUS
<1>2. \A kept \in D : \A n \in 1 .. m : Keep(kept, hits[n], limit) \in D
  BY <1>1, KeepType
<1>3. /\ f[0] = <<>>
      /\ \A n \in 1 .. m : f[n] = Keep(f[n - 1], hits[n], limit)
      /\ \A n \in 0 .. m : f[n] \in D
  <2> HIDE DEF D
  <2> QED BY <1>1, <1>2, KeptIs
<1> HIDE DEF f, D
<1>4. \A n \in 0 .. m : n \in T
  <2>1. 0 \in T
    <3>1. Len(f[0]) = 0
      BY <1>3
    <3>2. KeptInv(f[0], hits, limit, 0)
      BY <3>1 DEF KeptInv, InRankOrder
    <3> QED BY <1>1, <3>2
  <2>2. ASSUME NEW n \in 0 .. m - 1, n \in T PROVE n + 1 \in T
    <3>1. n + 1 \in 1 .. m /\ (n + 1) - 1 = n /\ n \in 0 .. m
      BY <1>1
    <3>2. f[n + 1] = Keep(f[n], hits[n + 1], limit) /\ f[n] \in D /\ KeptInv(f[n], hits, limit, n)
      BY <1>3, <2>2, <3>1
    <3>3. KeptInv(f[n + 1], hits, limit, n + 1)
      BY <3>2, KeepKeeps DEF D
    <3> QED BY <3>1, <3>3
  <2> HIDE DEF T, m
  <2> QED BY <1>1, <2>1, <2>2, Induction
<1>5. m \in 0 .. m
  BY <1>1
<1> QED BY <1>3, <1>4, <1>5 DEF TopPages, f, D

-----------------------------------------------------------------------------
(* fuse *)

LEMMA KeywordsInIs ==
    ASSUME NEW hits, Len(hits) \in Nat, NEW D, <<>> \in D,
           \A a \in D : \A n \in 1 .. Len(hits) : AddKeyword(a, hits[n]) \in D
    PROVE  /\ KeywordsIn(hits)[0] = <<>>
           /\ \A n \in 1 .. Len(hits) :
                 KeywordsIn(hits)[n] = AddKeyword(KeywordsIn(hits)[n - 1], hits[n])
           /\ \A n \in 0 .. Len(hits) : KeywordsIn(hits)[n] \in D
<1> DEFINE m == Len(hits)
           step == [n \in 1 .. m |-> [a \in D |-> AddKeyword(a, hits[n])]]
           Q(g) == g = [n \in 0 .. m |-> IF n = 0 THEN <<>> ELSE AddKeyword(g[n - 1], hits[n])]
<1>1. step \in [1 .. m -> [D -> D]]
  OBVIOUS
<1>2. PICK g \in [0 .. m -> D] : Follows(g, m, <<>>, step)
  <2>1. m \in Nat
    OBVIOUS
  <2> HIDE DEF step, m
  <2> QED BY <1>1, <2>1, Recursion
<1>3. \A n \in 1 .. m : g[n] = AddKeyword(g[n - 1], hits[n])
  <2> TAKE n \in 1 .. m
  <2>1. n - 1 \in 0 .. m
    OBVIOUS
  <2>2. g[n - 1] \in D
    BY <2>1
  <2>3. step[n][g[n - 1]] = AddKeyword(g[n - 1], hits[n])
    BY <2>2
  <2> HIDE DEF step
  <2> QED BY <1>2, <2>3 DEF Follows
<1>4. Q(g)
  BY <1>2, <1>3 DEF Follows
<1>5. KeywordsIn(hits) = CHOOSE f : Q(f)
  BY DEF KeywordsIn
<1>6. Q(KeywordsIn(hits))
  BY <1>4, <1>5, Zenon
<1> DEFINE f == KeywordsIn(hits)
           T == {n \in 0 .. m : f[n] \in D}
<1>7. f[0] = <<>> /\ \A n \in 1 .. m : f[n] = AddKeyword(f[n - 1], hits[n])
  BY <1>6
<1>8. \A n \in 0 .. m : n \in T
  <2>1. 0 \in T
    BY <1>7
  <2>2. ASSUME NEW n \in 0 .. m - 1, n \in T PROVE n + 1 \in T
    <3>1. n + 1 \in 1 .. m /\ (n + 1) - 1 = n
      OBVIOUS
    <3> QED BY <1>7, <2>2, <3>1
  <2> HIDE DEF T
  <2> QED BY <2>1, <2>2, Induction
<1> QED BY <1>7, <1>8

LEMMA VectorsInIs ==
    ASSUME NEW first, NEW hits, Len(hits) \in Nat, NEW D, first \in D,
           \A a \in D : \A n \in 1 .. Len(hits) : AddVector(a, hits[n]) \in D
    PROVE  /\ VectorsIn(first, hits)[0] = first
           /\ \A n \in 1 .. Len(hits) :
                 VectorsIn(first, hits)[n] = AddVector(VectorsIn(first, hits)[n - 1], hits[n])
           /\ \A n \in 0 .. Len(hits) : VectorsIn(first, hits)[n] \in D
<1> DEFINE m == Len(hits)
           step == [n \in 1 .. m |-> [a \in D |-> AddVector(a, hits[n])]]
           Q(g) == g = [n \in 0 .. m |-> IF n = 0 THEN first ELSE AddVector(g[n - 1], hits[n])]
<1>1. step \in [1 .. m -> [D -> D]]
  OBVIOUS
<1>2. PICK g \in [0 .. m -> D] : Follows(g, m, first, step)
  <2>1. m \in Nat
    OBVIOUS
  <2> HIDE DEF step, m
  <2> QED BY <1>1, <2>1, Recursion
<1>3. \A n \in 1 .. m : g[n] = AddVector(g[n - 1], hits[n])
  <2> TAKE n \in 1 .. m
  <2>1. n - 1 \in 0 .. m
    OBVIOUS
  <2>2. g[n - 1] \in D
    BY <2>1
  <2>3. step[n][g[n - 1]] = AddVector(g[n - 1], hits[n])
    BY <2>2
  <2> HIDE DEF step
  <2> QED BY <1>2, <2>3 DEF Follows
<1>4. Q(g)
  BY <1>2, <1>3 DEF Follows
<1>5. VectorsIn(first, hits) = CHOOSE f : Q(f)
  BY DEF VectorsIn
<1>6. Q(VectorsIn(first, hits))
  BY <1>4, <1>5, Zenon
<1> DEFINE f == VectorsIn(first, hits)
           T == {n \in 0 .. m : f[n] \in D}
<1>7. f[0] = first /\ \A n \in 1 .. m : f[n] = AddVector(f[n - 1], hits[n])
  BY <1>6
<1>8. \A n \in 0 .. m : n \in T
  <2>1. 0 \in T
    BY <1>7
  <2>2. ASSUME NEW n \in 0 .. m - 1, n \in T PROVE n + 1 \in T
    <3>1. n + 1 \in 1 .. m /\ (n + 1) - 1 = n
      OBVIOUS
    <3> QED BY <1>7, <2>2, <3>1
  <2> HIDE DEF T
  <2> QED BY <2>1, <2>2, Induction
<1> QED BY <1>7, <1>8

FusedPages == [page : Pages \cup {0}, chunk : Ids, kw : Nat, vec : Nat]

LEMMA FunctionIsSeq ==
    ASSUME NEW S, NEW m \in Nat, NEW f \in [1 .. m -> S]
    PROVE  f \in Seq(S) /\ Len(f) = m
OBVIOUS

LEMMA EnteredIs ==
    ASSUME NEW fused \in Seq(FusedPages), NEW h \in Places
    PROVE  /\ Entered(fused, h) \in Seq(FusedPages)
           /\ Len(fused) \in Nat /\ DOMAIN fused = 1 .. Len(fused)
           /\ DOMAIN Entered(fused, h) = 1 .. Len(Entered(fused, h))
           /\ \A k \in 1 .. Len(fused) : Entered(fused, h)[k] = fused[k]
           /\ (\E k \in 1 .. Len(fused) : fused[k].page = h.page) =>
                 Len(Entered(fused, h)) = Len(fused)
           /\ (\A k \in 1 .. Len(fused) : fused[k].page # h.page) =>
                 /\ Len(Entered(fused, h)) = Len(fused) + 1
                 /\ Entered(fused, h)[Len(fused) + 1]
                       = [page |-> h.page, chunk |-> h.chunk, kw |-> 0, vec |-> 0]
<1> DEFINE e == [page |-> h.page, chunk |-> h.chunk, kw |-> 0, vec |-> 0]
<1>1. e \in FusedPages
  BY DEF Places, FusedPages
<1>2. /\ Append(fused, e) \in Seq(FusedPages)
      /\ Len(Append(fused, e)) = Len(fused) + 1
      /\ \A n \in 1 .. Len(fused) : Append(fused, e)[n] = fused[n]
      /\ Append(fused, e)[Len(fused) + 1] = e
      /\ DOMAIN fused = 1 .. Len(fused) /\ Len(fused) \in Nat
  BY <1>1, AppendIs
<1>3. CASE \E k \in 1 .. Len(fused) : fused[k].page = h.page
  <2>1. Entered(fused, h) = fused
    BY <1>2, <1>3 DEF Entered
  <2> QED BY <1>2, <1>3, <2>1
<1>4. CASE \A k \in 1 .. Len(fused) : fused[k].page # h.page
  <2>1. Entered(fused, h) = Append(fused, e)
    BY <1>2, <1>4 DEF Entered
  <2>2. DOMAIN Append(fused, e) = 1 .. Len(Append(fused, e))
    BY <1>2
  <2> QED BY <1>2, <1>4, <2>1, <2>2
<1> QED BY <1>3, <1>4

LEMMA WithTypes ==
    ASSUME NEW f \in FusedPages, NEW h \in Places
    PROVE  WithKeyword(f, h) \in FusedPages /\ WithVector(f, h) \in FusedPages
BY DEF FusedPages, Places, WithKeyword, WithVector

LEMMA AddTypes ==
    ASSUME NEW fused \in Seq(FusedPages), NEW h \in Places
    PROVE  /\ AddKeyword(fused, h) \in Seq(FusedPages)
           /\ AddVector(fused, h) \in Seq(FusedPages)
           /\ Len(AddKeyword(fused, h)) = Len(Entered(fused, h))
           /\ Len(AddVector(fused, h)) = Len(Entered(fused, h))
<1> DEFINE all == Entered(fused, h)
           S == FusedPages
           kw == [n \in 1 .. Len(all) |-> IF all[n].page = h.page THEN WithKeyword(all[n], h) ELSE all[n]]
           vec == [n \in 1 .. Len(all) |-> IF all[n].page = h.page THEN WithVector(all[n], h) ELSE all[n]]
<1>1. all \in Seq(S) /\ DOMAIN all = 1 .. Len(all)
  BY EnteredIs
<1>2. Len(all) \in Nat /\ \A n \in 1 .. Len(all) : all[n] \in S
  BY <1>1
<1>3. AddKeyword(fused, h) = kw /\ AddVector(fused, h) = vec
  BY <1>1 DEF AddKeyword, AddVector
<1>4. kw \in [1 .. Len(all) -> S] /\ vec \in [1 .. Len(all) -> S]
  BY <1>2, WithTypes
<1> HIDE DEF all, S, kw, vec
<1>5. kw \in Seq(S) /\ Len(kw) = Len(all) /\ vec \in Seq(S) /\ Len(vec) = Len(all)
  BY <1>2, <1>4, FunctionIsSeq
<1> QED BY <1>3, <1>5 DEF all, S

LEMMA AddValues ==
    ASSUME NEW fused \in Seq(FusedPages), NEW h \in Places,
           NEW n \in 1 .. Len(Entered(fused, h))
    PROVE  /\ AddKeyword(fused, h)[n] = IF Entered(fused, h)[n].page = h.page
                                        THEN WithKeyword(Entered(fused, h)[n], h)
                                        ELSE Entered(fused, h)[n]
           /\ AddVector(fused, h)[n] = IF Entered(fused, h)[n].page = h.page
                                       THEN WithVector(Entered(fused, h)[n], h)
                                       ELSE Entered(fused, h)[n]
<1>1. n \in DOMAIN Entered(fused, h)
  BY EnteredIs
<1> QED BY <1>1 DEF AddKeyword, AddVector

\* The keyword list alone.
KeywordInv(fused, keyword, n) ==
    /\ Len(fused) = n
    /\ \A k \in 1 .. n : /\ fused[k].page = keyword[k].page /\ fused[k].chunk = keyword[k].chunk
                         /\ fused[k].kw = k /\ fused[k].vec = 0

LEMMA AddKeywordKeeps ==
    ASSUME NEW keyword \in Seq(Places), InRankOrder(keyword),
           NEW fused \in Seq(FusedPages), NEW n \in 0 .. Len(keyword) - 1,
           KeywordInv(fused, keyword, n)
    PROVE  KeywordInv(AddKeyword(fused, keyword[n + 1]), keyword, n + 1)
<1> DEFINE h == keyword[n + 1]
           all == Entered(fused, h)
           new == AddKeyword(fused, h)
<1>1. n + 1 \in 1 .. Len(keyword) /\ h \in Places /\ Len(keyword) \in Nat
  OBVIOUS
<1>2. h.rank = n + 1
  BY <1>1 DEF InRankOrder
<1>3. \A k \in 1 .. Len(fused) : fused[k].page # h.page
  BY <1>1 DEF InRankOrder, KeywordInv
<1>4. /\ Len(new) = n + 1 /\ Len(all) = n + 1
      /\ \A k \in 1 .. n : all[k] = fused[k]
      /\ all[n + 1] = [page |-> h.page, chunk |-> h.chunk, kw |-> 0, vec |-> 0]
  <2> HIDE DEF h
  <2>1. Len(new) = Len(all) /\ (\A k \in 1 .. Len(fused) : all[k] = fused[k])
    BY <1>1, EnteredIs, AddTypes, Zenon
  <2>2. /\ Len(all) = Len(fused) + 1
        /\ all[Len(fused) + 1] = [page |-> h.page, chunk |-> h.chunk, kw |-> 0, vec |-> 0]
    BY <1>1, <1>3, EnteredIs, Zenon
  <2> QED BY <2>1, <2>2 DEF KeywordInv
<1>5. \A k \in 1 .. n + 1 : new[k] = IF all[k].page = h.page THEN WithKeyword(all[k], h) ELSE all[k]
  <2> HIDE DEF h
  <2> QED BY <1>1, <1>4, AddValues
<1> HIDE DEF new, all, h
<1>6. ASSUME NEW k \in 1 .. n + 1
      PROVE  /\ new[k].page = keyword[k].page /\ new[k].chunk = keyword[k].chunk
             /\ new[k].kw = k /\ new[k].vec = 0
  <2>1. CASE k \in 1 .. n
    BY <1>3, <1>4, <1>5, <2>1 DEF KeywordInv
  <2>2. CASE k = n + 1
    <3>1. new[k] = WithKeyword(all[k], h)
      BY <1>4, <1>5, <2>2
    <3>2. /\ WithKeyword(all[k], h).page = h.page /\ WithKeyword(all[k], h).chunk = h.chunk
          /\ WithKeyword(all[k], h).kw = h.rank /\ WithKeyword(all[k], h).vec = 0
      BY <1>4, <2>2 DEF WithKeyword
    <3> QED BY <1>2, <2>2, <3>1, <3>2 DEF h
  <2> QED BY <2>1, <2>2
<1> QED BY <1>4, <1>6 DEF KeywordInv, new, h

\* What a page's entry says after n hits of the vector list.
EntryInv(f, keyword, vector, n) ==
    /\ f.kw \in 0 .. Len(keyword) /\ f.vec \in 0 .. n
    /\ IF f.kw = 0 THEN \A i \in 1 .. Len(keyword) : keyword[i].page # f.page
       ELSE keyword[f.kw].page = f.page
    /\ IF f.vec = 0 THEN f.kw # 0 /\ \A j \in 1 .. n : vector[j].page # f.page
       ELSE vector[f.vec].page = f.page
    /\ f.chunk = IF f.vec # 0 /\ (f.kw = 0 \/ f.vec <= f.kw)
                 THEN vector[f.vec].chunk ELSE keyword[f.kw].chunk

\* The keyword list comes first, in its order; then what only the vector list has, in its.
FusedInv(fused, keyword, vector, n) ==
    /\ Len(keyword) <= Len(fused)
    /\ \A k \in 1 .. Len(fused) : EntryInv(fused[k], keyword, vector, n)
    /\ \A k \in 1 .. Len(fused) : fused[k].kw = IF k <= Len(keyword) THEN k ELSE 0
    /\ \A k, l \in 1 .. Len(fused) :
          Len(keyword) < k /\ k < l => fused[k].vec < fused[l].vec
    /\ \A j \in 1 .. n : \E k \in 1 .. Len(fused) : fused[k].vec = j

LEMMA WithVectorIs ==
    ASSUME NEW f \in FusedPages, NEW h \in Places, f.vec = 0
    PROVE  /\ WithVector(f, h).page = f.page /\ WithVector(f, h).kw = f.kw
           /\ WithVector(f, h).vec = h.rank
           /\ WithVector(f, h).chunk = IF f.kw = 0 \/ h.rank <= f.kw THEN h.chunk ELSE f.chunk
BY DEF FusedPages, Places, WithVector

\* An entry that has been there is not touched, or gets its first vector hit.
LEMMA TouchedEntry ==
    ASSUME NEW keyword \in Seq(Places), NEW vector \in Seq(Places), InRankOrder(vector),
           NEW n \in 0 .. Len(vector) - 1, NEW f \in FusedPages,
           EntryInv(f, keyword, vector, n)
    PROVE  LET h == vector[n + 1]
               g == IF f.page = h.page THEN WithVector(f, h) ELSE f
           IN /\ EntryInv(g, keyword, vector, n + 1)
              /\ g.kw = f.kw
              /\ IF f.page = h.page THEN f.vec = 0 /\ g.vec = n + 1 /\ f.kw # 0 ELSE g = f
<1> DEFINE h == vector[n + 1]
           g == IF f.page = h.page THEN WithVector(f, h) ELSE f
<1>1. /\ n \in Nat /\ n + 1 \in 1 .. Len(vector) /\ h \in Places /\ Len(vector) \in Nat
      /\ Len(keyword) \in Nat /\ f.kw \in Nat /\ f.vec \in Nat
  BY DEF FusedPages
<1>2. h.rank = n + 1
  BY <1>1 DEF InRankOrder
<1>3. CASE f.page = h.page
  <2>1. f.vec = 0
    <3> SUFFICES ASSUME f.vec # 0 PROVE FALSE
      OBVIOUS
    <3>1. f.vec \in 0 .. n /\ vector[f.vec].page = h.page
      BY <1>3 DEF EntryInv
    <3>2. f.vec \in 1 .. Len(vector) /\ f.vec # n + 1
      BY <1>1, <3>1
    <3> QED BY <1>1, <3>1, <3>2 DEF InRankOrder
  <2>2. f.kw # 0 /\ f.chunk = keyword[f.kw].chunk /\ keyword[f.kw].page = f.page
        /\ f.kw \in 0 .. Len(keyword)
    BY <2>1 DEF EntryInv
  <2>3. /\ g.page = f.page /\ g.kw = f.kw /\ g.vec = n + 1
        /\ g.chunk = IF n + 1 <= f.kw THEN h.chunk ELSE f.chunk
    <3>1. g = WithVector(f, h)
      BY <1>3
    <3>2. /\ WithVector(f, h).page = f.page /\ WithVector(f, h).kw = f.kw
          /\ WithVector(f, h).vec = h.rank
          /\ WithVector(f, h).chunk = IF f.kw = 0 \/ h.rank <= f.kw THEN h.chunk ELSE f.chunk
      BY <1>1, <2>1, WithVectorIs
    <3> QED BY <1>2, <2>2, <3>1, <3>2
  <2> HIDE DEF g
  <2>4. EntryInv(g, keyword, vector, n + 1)
    <3>1. g.vec # 0 /\ g.vec \in 0 .. n + 1 /\ g.kw # 0
      BY <1>1, <2>2, <2>3
    <3>2. vector[g.vec].page = g.page /\ keyword[g.kw].page = g.page
      BY <1>3, <2>2, <2>3
    <3>3. g.chunk = IF g.vec <= g.kw THEN vector[g.vec].chunk ELSE keyword[g.kw].chunk
      BY <2>2, <2>3
    <3> QED BY <2>2, <2>3, <3>1, <3>2, <3>3 DEF EntryInv
  <2> QED BY <1>3, <2>1, <2>2, <2>3, <2>4 DEF g, h
<1>4. CASE f.page # h.page
  <2>1. g = f
    BY <1>4
  <2>2. \A j \in 1 .. n + 1 : j \in 1 .. n \/ j = n + 1
    BY <1>1
  <2>3. f.vec \in 0 .. n + 1
    BY <1>1 DEF EntryInv
  <2>4. f.vec = 0 => f.kw # 0 /\ \A j \in 1 .. n + 1 : vector[j].page # f.page
    BY <1>4, <2>2 DEF EntryInv
  <2>5. EntryInv(f, keyword, vector, n + 1)
    BY <2>3, <2>4 DEF EntryInv
  <2> QED BY <1>4, <2>1, <2>5
<1> QED BY <1>3, <1>4

LEMMA AddVectorKeeps ==
    ASSUME NEW keyword \in Seq(Places), NEW vector \in Seq(Places), InRankOrder(vector),
           NEW n \in 0 .. Len(vector) - 1, NEW fused \in Seq(FusedPages),
           FusedInv(fused, keyword, vector, n)
    PROVE  FusedInv(AddVector(fused, vector[n + 1]), keyword, vector, n + 1)
<1> DEFINE h == vector[n + 1]
           all == Entered(fused, h)
           new == AddVector(fused, h)
           Touched(f) == IF f.page = h.page THEN WithVector(f, h) ELSE f
<1>1. /\ n \in Nat /\ n + 1 \in 1 .. Len(vector) /\ h \in Places /\ Len(vector) \in Nat
      /\ Len(keyword) \in Nat /\ Len(fused) \in Nat
      /\ \A k \in 1 .. Len(fused) : fused[k] \in FusedPages
  OBVIOUS
<1>2. h.rank = n + 1
  BY <1>1 DEF InRankOrder
<1>3. /\ Len(new) = Len(all) /\ \A k \in 1 .. Len(fused) : all[k] = fused[k]
      /\ Len(all) = Len(fused) \/ Len(all) = Len(fused) + 1
      /\ all \in Seq(FusedPages) /\ new \in Seq(FusedPages)
  <2> HIDE DEF h
  <2> QED BY <1>1, EnteredIs, AddTypes
<1>4. \A k \in 1 .. Len(all) : new[k] = Touched(all[k])
  <2> HIDE DEF h
  <2> QED BY <1>1, AddValues
<1>5. ASSUME NEW k \in 1 .. Len(fused)
      PROVE  /\ EntryInv(new[k], keyword, vector, n + 1)
             /\ new[k].kw = fused[k].kw
             /\ IF fused[k].page = h.page
                THEN fused[k].vec = 0 /\ new[k].vec = n + 1 /\ fused[k].kw # 0
                ELSE new[k] = fused[k]
  <2>1. new[k] = Touched(fused[k])
    BY <1>1, <1>3, <1>4
  <2>2. EntryInv(fused[k], keyword, vector, n)
    BY DEF FusedInv
  <2> HIDE DEF new
  <2> QED BY <1>1, <2>1, <2>2, TouchedEntry
<1>6. \A k \in 1 .. Len(fused) : Len(keyword) < k => fused[k].kw = 0 /\ new[k] = fused[k]
  <2> SUFFICES ASSUME NEW k \in 1 .. Len(fused), Len(keyword) < k
               PROVE  fused[k].kw = 0 /\ new[k] = fused[k]
    OBVIOUS
  <2>1. fused[k].kw = 0
    BY <1>1 DEF FusedInv
  <2> QED BY <1>5, <2>1
<1>7. \A j \in 1 .. n : \E k \in 1 .. Len(fused) : new[k].vec = j
  <2> TAKE j \in 1 .. n
  <2>1. PICK k \in 1 .. Len(fused) : fused[k].vec = j
    BY DEF FusedInv
  <2>2. fused[k].vec # 0
    BY <2>1
  <2> QED BY <1>5, <2>1, <2>2
<1>8. /\ Len(keyword) <= Len(fused)
      /\ \A k \in 1 .. Len(fused) : fused[k].kw = IF k <= Len(keyword) THEN k ELSE 0
      /\ \A k, l \in 1 .. Len(fused) :
            Len(keyword) < k /\ k < l => fused[k].vec < fused[l].vec
      /\ \A k \in 1 .. Len(fused) : fused[k].vec \in 0 .. n
  BY DEF FusedInv, EntryInv
<1> HIDE DEF new, all, h
<1>9. ASSUME NEW k \in 1 .. Len(fused), NEW l \in 1 .. Len(fused), Len(keyword) < k, k < l
      PROVE  new[k].vec < new[l].vec
  <2>1. Len(keyword) < l
    BY <1>1, <1>9
  <2> QED BY <1>6, <1>8, <1>9, <2>1
<1>10. CASE \E k \in 1 .. Len(fused) : fused[k].page = h.page
  <2>1. Len(new) = Len(fused)
    BY <1>1, <1>3, <1>10, EnteredIs DEF all
  <2>2. \E k \in 1 .. Len(fused) : new[k].vec = n + 1
    BY <1>5, <1>10
  <2>3. \A j \in 1 .. n + 1 : \E k \in 1 .. Len(fused) : new[k].vec = j
    BY <1>1, <1>7, <2>2
  <2>4. \A k \in 1 .. Len(fused) : new[k].kw = IF k <= Len(keyword) THEN k ELSE 0
    BY <1>5, <1>8
  <2>5. \A k \in 1 .. Len(fused) : EntryInv(new[k], keyword, vector, n + 1)
    BY <1>5
  <2>6. FusedInv(new, keyword, vector, n + 1)
    <3>1. Len(keyword) <= Len(new) /\ 1 .. Len(new) = 1 .. Len(fused)
      BY <1>8, <2>1
    <3>2. \A k, l \in 1 .. Len(fused) : Len(keyword) < k /\ k < l => new[k].vec < new[l].vec
      BY <1>9
    <3>3. \A k \in 1 .. Len(new) : EntryInv(new[k], keyword, vector, n + 1)
      BY <2>5, <3>1
    <3>4. \A k \in 1 .. Len(new) : new[k].kw = IF k <= Len(keyword) THEN k ELSE 0
      BY <2>4, <3>1
    <3>5. \A k, l \in 1 .. Len(new) : Len(keyword) < k /\ k < l => new[k].vec < new[l].vec
      BY <3>1, <3>2
    <3>6. \A j \in 1 .. n + 1 : \E k \in 1 .. Len(new) : new[k].vec = j
      BY <2>3, <3>1
    <3> QED BY <3>1, <3>3, <3>4, <3>5, <3>6, Zenon DEF FusedInv
  <2> QED BY <2>6 DEF new, h
<1>11. CASE \A k \in 1 .. Len(fused) : fused[k].page # h.page
  <2> DEFINE last == Len(fused) + 1
  <2>1. /\ Len(new) = last /\ last \in 1 .. Len(all)
        /\ all[last] = [page |-> h.page, chunk |-> h.chunk, kw |-> 0, vec |-> 0]
    <3>1. /\ Len(all) = Len(fused) + 1
          /\ all[Len(fused) + 1] = [page |-> h.page, chunk |-> h.chunk, kw |-> 0, vec |-> 0]
      BY <1>1, <1>11, EnteredIs DEF all
    <3>2. Len(fused) + 1 \in 1 .. Len(fused) + 1
      BY <1>1
    <3> QED BY <1>3, <3>1, <3>2
  <2>2. all[last] \in FusedPages /\ all[last].page = h.page /\ all[last].kw = 0
        /\ all[last].vec = 0 /\ all[last].chunk = h.chunk
    BY <1>1, <2>1 DEF Places, FusedPages
  <2>3. new[last] = WithVector(all[last], h)
    BY <1>4, <2>1, <2>2
  <2>4. /\ new[last].page = h.page /\ new[last].kw = 0 /\ new[last].vec = n + 1
        /\ new[last].chunk = h.chunk
    <3> HIDE DEF last
    <3>1. /\ WithVector(all[last], h).page = all[last].page
          /\ WithVector(all[last], h).kw = all[last].kw
          /\ WithVector(all[last], h).vec = h.rank
          /\ WithVector(all[last], h).chunk =
               IF all[last].kw = 0 \/ h.rank <= all[last].kw THEN h.chunk ELSE all[last].chunk
      BY <1>1, <2>2, WithVectorIs
    <3> QED BY <1>2, <2>2, <2>3, <3>1
  <2>5. \A i \in 1 .. Len(keyword) : keyword[i].page # h.page
    <3> SUFFICES ASSUME NEW i \in 1 .. Len(keyword), keyword[i].page = h.page PROVE FALSE
      OBVIOUS
    <3>1. i \in 1 .. Len(fused) /\ fused[i].kw = i /\ i # 0
      BY <1>1, <1>8
    <3>2. keyword[i].page = fused[i].page
      BY <3>1 DEF FusedInv, EntryInv
    <3> QED BY <1>11, <3>1, <3>2
  <2>6. EntryInv(new[last], keyword, vector, n + 1)
    BY <1>1, <2>4, <2>5 DEF EntryInv, h
  <2>7. \A k \in 1 .. last : k \in 1 .. Len(fused) \/ k = last
    BY <1>1
  <2>8. Len(keyword) < last /\ Len(keyword) <= last /\ \A k \in 1 .. Len(fused) : k \in 1 .. last /\ k < last
    BY <1>1, <1>8
  <2> HIDE DEF last
  <2>9. \A k \in 1 .. last : new[k].kw = IF k <= Len(keyword) THEN k ELSE 0
    <3> TAKE k \in 1 .. last
    <3>1. CASE k \in 1 .. Len(fused)
      BY <1>5, <1>8, <3>1
    <3>2. CASE k = last
      <4>1. ~(last <= Len(keyword))
        BY <1>1, <1>8 DEF last
      <4> QED BY <2>4, <3>2, <4>1
    <3> QED BY <2>7, <3>1, <3>2
  <2>10. ASSUME NEW k \in 1 .. last, NEW l \in 1 .. last, Len(keyword) < k, k < l
         PROVE  new[k].vec < new[l].vec
    <3>1. k \in 1 .. Len(fused)
      BY <1>1, <2>10 DEF last
    <3>2. CASE l \in 1 .. Len(fused)
      BY <1>9, <2>10, <3>1, <3>2
    <3>3. CASE l = last
      <4>1. new[k].vec \in 0 .. n
        BY <1>6, <1>8, <2>10, <3>1
      <4> QED BY <1>1, <2>4, <3>3, <4>1
    <3> QED BY <2>7, <3>2, <3>3
  <2>11. \A j \in 1 .. n + 1 : \E k \in 1 .. last : new[k].vec = j
    <3> TAKE j \in 1 .. n + 1
    <3>1. CASE j = n + 1
      <4>1. last \in 1 .. last
        BY <1>1 DEF last
      <4> QED BY <2>4, <3>1, <4>1
    <3>2. CASE j \in 1 .. n
      BY <1>7, <2>8, <3>2
    <3> QED BY <1>1, <3>1, <3>2
  <2>12. \A k \in 1 .. last : EntryInv(new[k], keyword, vector, n + 1)
    BY <1>5, <2>6, <2>7
  <2>13. FusedInv(new, keyword, vector, n + 1)
    BY <2>1, <2>8, <2>9, <2>10, <2>11, <2>12 DEF FusedInv
  <2> QED BY <2>13 DEF new, h
<1> QED BY <1>10, <1>11

LEMMA FuseIs ==
    ASSUME NEW keyword \in Seq(Places), InRankOrder(keyword),
           NEW vector \in Seq(Places), InRankOrder(vector)
    PROVE  /\ Fuse(keyword, vector) \in Seq(FusedPages)
           /\ FusedInv(Fuse(keyword, vector), keyword, vector, Len(vector))
<1> DEFINE D == Seq(FusedPages)
           f == KeywordsIn(keyword)
           K == {n \in 0 .. Len(keyword) : KeywordInv(f[n], keyword, n)}
           first == f[Len(keyword)]
           g == VectorsIn(first, vector)
           V == {n \in 0 .. Len(vector) : FusedInv(g[n], keyword, vector, n)}
<1>1. /\ Len(keyword) \in Nat /\ Len(vector) \in Nat /\ <<>> \in D
      /\ \A n \in 1 .. Len(keyword) : keyword[n] \in Places
      /\ \A n \in 1 .. Len(vector) : vector[n] \in Places
  OBVIOUS
<1>2. /\ f[0] = <<>>
      /\ \A n \in 1 .. Len(keyword) : f[n] = AddKeyword(f[n - 1], keyword[n])
      /\ \A n \in 0 .. Len(keyword) : f[n] \in D
  <2>1. \A a \in D : \A n \in 1 .. Len(keyword) : AddKeyword(a, keyword[n]) \in D
    BY <1>1, AddTypes
  <2> HIDE DEF D
  <2> QED BY <1>1, <2>1, KeywordsInIs
<1> HIDE DEF f, D
<1>3. \A n \in 0 .. Len(keyword) : n \in K
  <2>1. 0 \in K
    <3>1. Len(f[0]) = 0
      BY <1>2
    <3> QED BY <1>1, <3>1 DEF KeywordInv
  <2>2. ASSUME NEW n \in 0 .. Len(keyword) - 1, n \in K PROVE n + 1 \in K
    <3>1. n + 1 \in 1 .. Len(keyword) /\ (n + 1) - 1 = n /\ n \in 0 .. Len(keyword)
      BY <1>1
    <3>2. f[n + 1] = AddKeyword(f[n], keyword[n + 1]) /\ f[n] \in D /\ KeywordInv(f[n], keyword, n)
      BY <1>2, <2>2, <3>1
    <3>3. KeywordInv(f[n + 1], keyword, n + 1)
      BY <3>2, AddKeywordKeeps DEF D
    <3> QED BY <3>1, <3>3
  <2> HIDE DEF K
  <2> QED BY <1>1, <2>1, <2>2, Induction
<1>4. first \in D /\ KeywordInv(first, keyword, Len(keyword))
  <2>1. Len(keyword) \in 0 .. Len(keyword)
    BY <1>1
  <2> QED BY <1>2, <1>3, <2>1
<1> HIDE DEF first
<1>5. /\ g[0] = first
      /\ \A n \in 1 .. Len(vector) : g[n] = AddVector(g[n - 1], vector[n])
      /\ \A n \in 0 .. Len(vector) : g[n] \in D
  <2>1. \A a \in D : \A n \in 1 .. Len(vector) : AddVector(a, vector[n]) \in D
    BY <1>1, AddTypes DEF D
  <2> QED BY <1>1, <1>4, <2>1, VectorsInIs
<1> HIDE DEF g
<1>6. FusedInv(first, keyword, vector, 0)
  <2>1. Len(first) = Len(keyword)
    BY <1>4 DEF KeywordInv
  <2>2. ASSUME NEW k \in 1 .. Len(keyword)
        PROVE  EntryInv(first[k], keyword, vector, 0) /\ first[k].kw = k
    <3>1. /\ first[k].page = keyword[k].page /\ first[k].chunk = keyword[k].chunk
          /\ first[k].kw = k /\ first[k].vec = 0
      BY <1>4 DEF KeywordInv
    <3>2. k # 0 /\ k \in 0 .. Len(keyword)
      BY <1>1
    <3> QED BY <3>1, <3>2 DEF EntryInv
  <2>3. \A k \in 1 .. Len(keyword) : k <= Len(keyword) /\ ~(Len(keyword) < k)
    BY <1>1
  <2> QED BY <1>1, <2>1, <2>2, <2>3 DEF FusedInv
<1>7. \A n \in 0 .. Len(vector) : n \in V
  <2>1. 0 \in V
    BY <1>1, <1>5, <1>6
  <2>2. ASSUME NEW n \in 0 .. Len(vector) - 1, n \in V PROVE n + 1 \in V
    <3>1. n + 1 \in 1 .. Len(vector) /\ (n + 1) - 1 = n /\ n \in 0 .. Len(vector)
      BY <1>1
    <3>2. g[n + 1] = AddVector(g[n], vector[n + 1]) /\ g[n] \in D
          /\ FusedInv(g[n], keyword, vector, n)
      BY <1>5, <2>2, <3>1
    <3>3. FusedInv(g[n + 1], keyword, vector, n + 1)
      BY <3>2, AddVectorKeeps DEF D
    <3> QED BY <3>1, <3>3
  <2> HIDE DEF V
  <2> QED BY <1>1, <2>1, <2>2, Induction
<1>8. g[Len(vector)] \in D /\ FusedInv(g[Len(vector)], keyword, vector, Len(vector))
  <2>1. Len(vector) \in 0 .. Len(vector)
    BY <1>1
  <2> QED BY <1>5, <1>7, <2>1
<1> QED BY <1>8 DEF Fuse, g, first, f, D

\* Each page has one entry.
LEMMA FusedPagesDiffer ==
    ASSUME NEW keyword \in Seq(Places), InRankOrder(keyword),
           NEW vector \in Seq(Places), InRankOrder(vector),
           NEW fused \in Seq(FusedPages), FusedInv(fused, keyword, vector, Len(vector)),
           NEW k \in 1 .. Len(fused), NEW l \in 1 .. Len(fused), fused[k].page = fused[l].page
    PROVE  k = l
<1>1. /\ Len(keyword) \in Nat /\ Len(vector) \in Nat /\ k \in Nat /\ l \in Nat
      /\ fused[k].vec \in Nat /\ fused[l].vec \in Nat
  <2>1. fused[k] \in FusedPages /\ fused[l] \in FusedPages
    OBVIOUS
  <2>2. fused[k].vec \in Nat /\ fused[l].vec \in Nat
    BY <2>1 DEF FusedPages
  <2> QED BY <2>2
<1>2. EntryInv(fused[k], keyword, vector, Len(vector)) /\ EntryInv(fused[l], keyword, vector, Len(vector))
  BY DEF FusedInv
<1>3. /\ fused[k].kw = IF k <= Len(keyword) THEN k ELSE 0
      /\ fused[l].kw = IF l <= Len(keyword) THEN l ELSE 0
  BY DEF FusedInv
<1>4. CASE k <= Len(keyword) /\ l <= Len(keyword)
  <2>1. k # 0 /\ l # 0 /\ k \in 1 .. Len(keyword) /\ l \in 1 .. Len(keyword)
    BY <1>1, <1>4
  <2>2. keyword[k].page = fused[k].page /\ keyword[l].page = fused[l].page
    BY <1>2, <1>3, <1>4, <2>1 DEF EntryInv
  <2> QED BY <2>1, <2>2 DEF InRankOrder
<1>5. CASE k <= Len(keyword) /\ ~(l <= Len(keyword))
  <2>1. k # 0 /\ k \in 1 .. Len(keyword)
    BY <1>1, <1>5
  <2> QED BY <1>2, <1>3, <1>5, <2>1 DEF EntryInv
<1>6. CASE ~(k <= Len(keyword)) /\ l <= Len(keyword)
  <2>1. l # 0 /\ l \in 1 .. Len(keyword)
    BY <1>1, <1>6
  <2> QED BY <1>2, <1>3, <1>6, <2>1 DEF EntryInv
<1>7. CASE ~(k <= Len(keyword)) /\ ~(l <= Len(keyword))
  <2>1. Len(keyword) < k /\ Len(keyword) < l
    BY <1>1, <1>7
  <2>2. fused[k].kw = 0 /\ fused[l].kw = 0
    BY <1>3, <1>7
  <2>3. /\ fused[k].vec \in 1 .. Len(vector) /\ vector[fused[k].vec].page = fused[k].page
        /\ fused[l].vec \in 1 .. Len(vector) /\ vector[fused[l].vec].page = fused[l].page
    BY <1>1, <1>2, <2>2 DEF EntryInv
  <2>4. fused[k].vec = fused[l].vec
    BY <2>3 DEF InRankOrder
  <2>5. ~(k < l) /\ ~(l < k)
    <3>1. k < l => fused[k].vec < fused[l].vec
      BY <2>1 DEF FusedInv
    <3>2. l < k => fused[l].vec < fused[k].vec
      BY <2>1 DEF FusedInv
    <3> QED BY <1>1, <2>4, <3>1, <3>2
  <2> QED BY <1>1, <2>5
<1> QED BY <1>4, <1>5, <1>6, <1>7

-----------------------------------------------------------------------------
(* The sort by score. *)

\* What comes before x.
Under(S, R, x) == {y \in S : <<y, x>> \in R}

LEMMA NthIs ==
    ASSUME NEW S, IsFiniteSet(S), NEW R,
           \A x \in S : <<x, x>> \notin R,
           \A x, y, z \in S : <<x, y>> \in R /\ <<y, z>> \in R => <<x, z>> \in R,
           \A x, y \in S : x = y \/ <<x, y>> \in R \/ <<y, x>> \in R
    PROVE  /\ \A n \in 1 .. Cardinality(S) : Nth(S, R, n) \in S
           /\ \A m, n \in 1 .. Cardinality(S) : Nth(S, R, m) = Nth(S, R, n) => m = n
           /\ \A n \in 1 .. Cardinality(S) : \A x \in S :
                 <<x, Nth(S, R, n)>> \in R => \E m \in 1 .. n - 1 : Nth(S, R, m) = x
<1> DEFINE N == Cardinality(S)
           C(x) == Cardinality(Under(S, R, x))
           f == [x \in S |-> C(x) + 1]
<1>1. N \in Nat
  BY FS_CardinalityType
<1>2. ASSUME NEW x \in S PROVE IsFiniteSet(Under(S, R, x)) /\ C(x) \in Nat /\ C(x) <= N - 1
  <2>1. Under(S, R, x) \subseteq S \ {x}
    BY DEF Under
  <2>2. IsFiniteSet(S \ {x}) /\ Cardinality(S \ {x}) = N - 1
    BY FS_RemoveElement
  <2>3. IsFiniteSet(Under(S, R, x)) /\ C(x) <= N - 1
    BY <2>1, <2>2, FS_Subset
  <2> QED BY <2>3, FS_CardinalityType
<1>3. ASSUME NEW x \in S, NEW y \in S, <<x, y>> \in R PROVE C(x) < C(y)
  <2>1. Under(S, R, x) \subseteq Under(S, R, y)
    BY <1>3 DEF Under
  <2>2. x \in Under(S, R, y) /\ x \notin Under(S, R, x)
    BY <1>3 DEF Under
  <2>3. C(x) <= C(y) /\ C(x) # C(y)
    BY <1>2, <2>1, <2>2, FS_Subset
  <2> HIDE DEF C
  <2> QED BY <1>2, <2>3
<1> HIDE DEF C
<1>4. \A x, y \in S : C(x) = C(y) => x = y
  <2> SUFFICES ASSUME NEW x \in S, NEW y \in S, C(x) = C(y) PROVE x = y
    OBVIOUS
  <2>1. ~(C(x) < C(y)) /\ ~(C(y) < C(x))
    BY <1>2
  <2> QED BY <1>3, <2>1
<1>5. f \in Injection(S, 1 .. N)
  <2>1. \A x \in S : C(x) + 1 \in 1 .. N
    BY <1>1, <1>2
  <2>2. \A x, y \in S : C(x) + 1 = C(y) + 1 => x = y
    BY <1>2, <1>4
  <2> QED BY <2>1, <2>2 DEF Injection, IsInjective
<1>6. f \in Surjection(S, 1 .. N)
  <2>1. IsFiniteSet(1 .. N) /\ Cardinality(1 .. N) = N
    BY <1>1, FS_Interval
  <2> HIDE DEF f
  <2> QED BY <1>5, <2>1, FS_Injection
<1>7. ASSUME NEW n \in 1 .. N PROVE \E x \in S : C(x) = n - 1
  <2>1. PICK x \in S : C(x) + 1 = n
    BY <1>6 DEF Surjection
  <2> QED BY <1>2, <2>1
<1>8. ASSUME NEW n \in 1 .. N PROVE Nth(S, R, n) \in S /\ C(Nth(S, R, n)) = n - 1
  BY <1>7 DEF Nth, C, Under
<1>9. ASSUME NEW n \in 1 .. N, NEW x \in S, <<x, Nth(S, R, n)>> \in R
      PROVE  \E m \in 1 .. n - 1 : Nth(S, R, m) = x
  <2>1. C(x) < n - 1
    BY <1>3, <1>8, <1>9
  <2>2. C(x) + 1 \in 1 .. n - 1 /\ C(x) + 1 \in 1 .. N
    BY <1>1, <1>2, <2>1
  <2>3. C(Nth(S, R, C(x) + 1)) = C(x) /\ Nth(S, R, C(x) + 1) \in S
    <3>1. C(Nth(S, R, C(x) + 1)) = (C(x) + 1) - 1 /\ Nth(S, R, C(x) + 1) \in S
      BY <1>8, <2>2
    <3> QED BY <1>2, <3>1
  <2> QED BY <1>4, <2>2, <2>3
<1>10. ASSUME NEW m \in 1 .. N, NEW n \in 1 .. N, Nth(S, R, m) = Nth(S, R, n) PROVE m = n
  BY <1>1, <1>8, <1>10
<1> QED BY <1>8, <1>9, <1>10

LEMMA DivFacts ==
    ASSUME NEW a \in Nat, NEW b \in Nat \ {0}
    PROVE  /\ a \div b \in Nat
           /\ b * (a \div b) <= a /\ a < b * (a \div b) + b
OBVIOUS

LEMMA TimesLeq ==
    ASSUME NEW q \in Nat, NEW b \in Nat, NEW c \in Nat, b <= c
    PROVE  b * q <= c * q
OBVIOUS

LEMMA DivDown ==
    ASSUME NEW a \in Nat, NEW b \in Nat \ {0}, NEW c \in Nat \ {0}, b <= c
    PROVE  a \div c <= a \div b
<1>1. PICK p \in Nat : p = a \div b /\ b * p <= a /\ a < b * p + b
  BY DivFacts
<1>2. PICK q \in Nat : q = a \div c /\ c * q <= a
  BY DivFacts
<1>3. b * q <= c * q
  BY TimesLeq
<1>4. b * q < b * p + b
  BY <1>1, <1>2, <1>3
<1>5. ~(p + 1 <= q)
  <2> SUFFICES ASSUME p + 1 <= q PROVE FALSE
    OBVIOUS
  <2>1. (p + 1) * b <= q * b
    BY TimesLeq
  <2>2. (p + 1) * b = b * p + b
    OBVIOUS
  <2> QED BY <1>4, <2>1, <2>2
<1> QED BY <1>1, <1>2, <1>5
LEMMA ScoreType ==
    ASSUME NEW f \in FusedPages, NEW literal
    PROVE  Score(f, literal) \in Nat
<1>1. ASSUME NEW w \in Nat, NEW r \in Nat PROVE Share(w, r) \in Nat
  <2>1. Scale \div (RrfK + r) \in Nat
    <3>1. RrfK + r \in Nat \ {0} /\ Scale \in Nat
      BY RankingAssumption
    <3> QED BY <3>1, DivFacts
  <2>2. ASSUME NEW d \in Nat PROVE w * d \in Nat
    OBVIOUS
  <2> QED BY <2>1, <2>2 DEF Share
<1>2. VectorWeight \in Nat /\ KeywordWeightFor(literal) \in Nat
  BY RankingAssumption DEF KeywordWeightFor
<1>3. f.vec \in Nat /\ f.kw \in Nat
  BY DEF FusedPages
<1>4. Share(VectorWeight, f.vec) \in Nat /\ Share(KeywordWeightFor(literal), f.kw) \in Nat
  BY <1>1, <1>2, <1>3
<1> QED BY <1>4 DEF Score

\* Where the elements of the cut list were: of what belongs before one, nothing is lost.
Sorts(order, list, fused, literal) ==
    /\ \A n \in 1 .. Len(list) : list[n] = fused[order[n]]
    /\ \A m, n \in 1 .. Len(list) : order[m] = order[n] => m = n
    /\ \A n \in 1 .. Len(list) : \A i \in 1 .. Len(fused) :
          <<i, order[n]>> \in ScoreOrder(fused, literal)
             => \E m \in 1 .. n - 1 : order[m] = i

LEMMA RankedIs ==
    ASSUME NEW fused \in Seq(FusedPages), NEW literal, NEW limit \in Nat
    PROVE  LET list == Ranked(fused, literal, limit) IN
           /\ list \in Seq(FusedPages) /\ Len(list) <= limit
           /\ \E order \in [1 .. Len(list) -> 1 .. Len(fused)] : Sorts(order, list, fused, literal)
<1> DEFINE N == Len(fused)
           L == Least(N, limit)
           list == Ranked(fused, literal, limit)
           S == DOMAIN fused
           R == ScoreOrder(fused, literal)
           s == [n \in 1 .. N |-> Score(fused[n], literal)]
           order == [n \in 1 .. L |-> Nth(S, R, n)]
<1>1. /\ N \in Nat /\ S = 1 .. N /\ L \in Nat /\ L <= N /\ L <= limit
      /\ \A n \in 1 .. N : fused[n] \in FusedPages
  BY DEF Least
<1>2. IsFiniteSet(S) /\ Cardinality(S) = N
  <2>1. N \in Nat /\ S = 1 .. N
    BY <1>1
  <2> HIDE DEF N, S
  <2>2. IsFiniteSet(1 .. N) /\ Cardinality(1 .. N) = N
    BY <2>1, FS_Interval
  <2> QED BY <2>1, <2>2
<1>3. \A n \in S : s[n] \in Nat
  BY <1>1, ScoreType
<1>4. \A m, n \in S : <<m, n>> \in R <=> s[m] > s[n] \/ (s[m] = s[n] /\ m < n)
  BY <1>1 DEF ScoreOrder
<1> HIDE DEF s, R
<1>5. \A n \in S : n \in Nat
  BY <1>1
<1> HIDE DEF S, N, L
<1>6. /\ \A x \in S : <<x, x>> \notin R
      /\ \A x, y, z \in S : <<x, y>> \in R /\ <<y, z>> \in R => <<x, z>> \in R
      /\ \A x, y \in S : x = y \/ <<x, y>> \in R \/ <<y, x>> \in R
  <2>1. ASSUME NEW x \in S PROVE <<x, x>> \notin R
    BY <1>3, <1>4, <1>5
  <2>2. ASSUME NEW x \in S, NEW y \in S, NEW z \in S, <<x, y>> \in R, <<y, z>> \in R
        PROVE  <<x, z>> \in R
    <3>1. s[x] \in Nat /\ s[y] \in Nat /\ s[z] \in Nat /\ x \in Nat /\ y \in Nat /\ z \in Nat
      BY <1>3, <1>5
    <3>2. /\ s[x] > s[y] \/ (s[x] = s[y] /\ x < y)
          /\ s[y] > s[z] \/ (s[y] = s[z] /\ y < z)
      BY <1>4, <2>2
    <3>3. s[x] > s[z] \/ (s[x] = s[z] /\ x < z)
      BY <3>1, <3>2
    <3> QED BY <1>4, <3>3
  <2>3. ASSUME NEW x \in S, NEW y \in S PROVE x = y \/ <<x, y>> \in R \/ <<y, x>> \in R
    <3>1. s[x] \in Nat /\ s[y] \in Nat /\ x \in Nat /\ y \in Nat
      BY <1>3, <1>5
    <3>2. x = y \/ (s[x] > s[y] \/ (s[x] = s[y] /\ x < y)) \/ (s[y] > s[x] \/ (s[y] = s[x] /\ y < x))
      BY <3>1
    <3> QED BY <1>4, <3>2
  <2> QED BY <2>1, <2>2, <2>3
<1>7. /\ \A n \in 1 .. N : Nth(S, R, n) \in S
      /\ \A m, n \in 1 .. N : Nth(S, R, m) = Nth(S, R, n) => m = n
      /\ \A n \in 1 .. N : \A x \in S :
            <<x, Nth(S, R, n)>> \in R => \E m \in 1 .. n - 1 : Nth(S, R, m) = x
  BY <1>2, <1>6, NthIs
<1>8. \A n \in 1 .. L : n \in 1 .. N /\ \A m \in 1 .. n - 1 : m \in 1 .. L
  BY <1>1
<1>9. order \in [1 .. L -> 1 .. N]
  BY <1>1, <1>7, <1>8
<1>10. list = [n \in 1 .. L |-> fused[order[n]]]
  BY DEF Ranked, R, S, L, N
<1>11. list \in [1 .. L -> FusedPages]
  BY <1>1, <1>9, <1>10
<1>12. list \in Seq(FusedPages) /\ Len(list) = L
  <2> HIDE DEF list
  <2> QED BY <1>1, <1>11, FunctionIsSeq
<1>13. \A n \in 1 .. L : list[n] = fused[order[n]] /\ order[n] = Nth(S, R, n)
  BY <1>10
<1> HIDE DEF order, list
<1>14. \A m, n \in 1 .. L : order[m] = order[n] => m = n
  BY <1>7, <1>8, <1>13
<1>15. ASSUME NEW n \in 1 .. L, NEW i \in 1 .. N, <<i, order[n]>> \in R
       PROVE  \E m \in 1 .. n - 1 : order[m] = i
  <2>1. PICK m \in 1 .. n - 1 : Nth(S, R, m) = i
    BY <1>1, <1>7, <1>8, <1>13, <1>15
  <2> QED BY <1>8, <1>13, <2>1
<1>16. Sorts(order, list, fused, literal)
  BY <1>12, <1>13, <1>14, <1>15 DEF Sorts, N, R
<1> QED BY <1>1, <1>9, <1>12, <1>16 DEF list, N
LEMMA ExpandedIs ==
    ASSUME NEW rows, Len(rows) \in Nat, NEW direct, NEW limit, NEW D, <<>> \in D,
           \A a \in D : \A n \in 1 .. Len(rows) : Take(a, rows[n], direct, limit) \in D
    PROVE  /\ Expanded(rows, direct, limit)[0] = <<>>
           /\ \A n \in 1 .. Len(rows) :
                 Expanded(rows, direct, limit)[n] = Take(Expanded(rows, direct, limit)[n - 1], rows[n], direct, limit)
           /\ \A n \in 0 .. Len(rows) : Expanded(rows, direct, limit)[n] \in D
<1> DEFINE m == Len(rows)
           step == [n \in 1 .. m |-> [a \in D |-> Take(a, rows[n], direct, limit)]]
           Q(g) == g = [n \in 0 .. m |-> IF n = 0 THEN <<>> ELSE Take(g[n - 1], rows[n], direct, limit)]
<1>1. step \in [1 .. m -> [D -> D]]
  OBVIOUS
<1>2. PICK g \in [0 .. m -> D] : Follows(g, m, <<>>, step)
  <2>1. m \in Nat
    OBVIOUS
  <2> HIDE DEF step, m
  <2> QED BY <1>1, <2>1, Recursion
<1>3. \A n \in 1 .. m : g[n] = Take(g[n - 1], rows[n], direct, limit)
  <2> TAKE n \in 1 .. m
  <2>1. n - 1 \in 0 .. m
    OBVIOUS
  <2>2. g[n - 1] \in D
    BY <2>1
  <2>3. step[n][g[n - 1]] = Take(g[n - 1], rows[n], direct, limit)
    BY <2>2
  <2> HIDE DEF step
  <2> QED BY <1>2, <2>3 DEF Follows
<1>4. Q(g)
  BY <1>2, <1>3 DEF Follows
<1>5. Expanded(rows, direct, limit) = CHOOSE f : Q(f)
  BY DEF Expanded
<1>6. Q(Expanded(rows, direct, limit))
  BY <1>4, <1>5, Zenon
<1> DEFINE f == Expanded(rows, direct, limit)
           T == {n \in 0 .. m : f[n] \in D}
<1>7. f[0] = <<>> /\ \A n \in 1 .. m : f[n] = Take(f[n - 1], rows[n], direct, limit)
  BY <1>6
<1>8. \A n \in 0 .. m : n \in T
  <2>1. 0 \in T
    BY <1>7
  <2>2. ASSUME NEW n \in 0 .. m - 1, n \in T PROVE n + 1 \in T
    <3>1. n + 1 \in 1 .. m /\ (n + 1) - 1 = n
      OBVIOUS
    <3> QED BY <1>7, <2>2, <3>1
  <2> HIDE DEF T
  <2> QED BY <2>1, <2>2, Induction
<1> QED BY <1>7, <1>8

-----------------------------------------------------------------------------
(* A search: types, and what its lists say of each other. *)

Results == [page : Pages \cup {0}, of : Pages \cup {0},
            via : {"both", "vector", "keyword", "relation"}, parent : Pages \cup {0}, score : Nat]
Searches == [pc : {"idle", "keyword", "vector", "materialize", "expand", "done", "failed"},
             q : Queries \cup {<<>>}, model : BOOLEAN,
             keyword : Seq(Places), vector : Seq(Places), fused : Seq(FusedPages),
             results : Seq(Results), ranked : Seq(FusedPages),
             found : [keyword : SUBSET Hits, vector : SUBSET Hits], gone : SUBSET Pages]

SearchType ==
    /\ search \in Searches
    /\ search.pc \in {"keyword", "vector", "materialize", "expand"} => search.q \in Queries

Differ(list) == \A m, n \in 1 .. Len(list) : list[m].page = list[n].page => m = n
Apart(a, b) == \A m \in 1 .. Len(a), n \in 1 .. Len(b) : a[m].page # b[n].page

(***************************************************************************)
(* The branches' lists are in rank order, the whole of fused is the sorted *)
(* and cut fusion of them, and a page that has been materialized is not    *)
(* still to come.                                                          *)
(***************************************************************************)
AnswerInv(s) ==
    /\ InRankOrder(s.keyword) /\ InRankOrder(s.vector)
    /\ s.ranked # <<>> =>
         s.ranked = Ranked(Fuse(s.keyword, s.vector), s.q.literal, LimitOf(s.q))
    /\ s.pc = "keyword" => s.keyword = <<>>
    /\ s.pc \in {"keyword", "vector"} => s.vector = <<>> /\ s.ranked = <<>> /\ s.results = <<>>
    /\ s.pc = "expand" => s.fused = <<>>
    /\ Differ(s.fused) /\ Differ(s.results) /\ Apart(s.results, s.fused)

LEMMA NoSearchType ==
    /\ NoSearch \in Searches /\ NoSearch.pc = "idle" /\ NoSearch.gone = {}
    /\ NoSearch.results = <<>> /\ NoSearch.ranked = <<>>
    /\ AnswerInv(NoSearch)
<1>1. <<>> \in Seq(Places) /\ <<>> \in Seq(FusedPages) /\ <<>> \in Seq(Results)
  OBVIOUS
<1>2. NoSearch \in Searches
  BY <1>1 DEF NoSearch, Searches
<1>3. Len(<<>>) = 0
  OBVIOUS
<1>4. AnswerInv(NoSearch)
  BY <1>3 DEF NoSearch, AnswerInv, InRankOrder, Differ, Apart
<1> QED BY <1>2, <1>4 DEF NoSearch

\* The index at first has its types.
LEMMA SearchInitType == SearchInit => TypeInv /\ SearchType /\ AnswerInv(search)
<1> SUFFICES ASSUME SearchInit PROVE TypeInv /\ SearchType /\ AnswerInv(search)
  OBVIOUS
<1>1. PICK l \in Layouts :
        /\ pages = [p \in Pages |-> [known |-> TRUE, trash |-> p \in l.trashed, edited |-> 1,
                                     meta |-> 1, body |-> l.body[p], indexed |-> l.body[p],
                                     pending |-> l.body[p] = 0]]
        /\ chunks = l.chunks
  BY DEF SearchInit
<1>2. /\ l.body \in [Pages -> Bodies \cup {0}]
      /\ l.chunks \in [Ids -> [page : Pages, meta : Metas, text : Nat] \cup {NoChunk}]
  BY LayoutsAtRest DEF AtRest
<1>3. pages \in [Pages -> PageRows]
  BY <1>1, <1>2 DEF PageRows
<1>4. [page : Pages, meta : Metas, text : Nat] \cup {NoChunk} \subseteq ChunkRows
  BY NothingType DEF ChunkRows
<1>5. chunks \in [Ids -> ChunkRows]
  BY <1>1, <1>2, <1>4
<1>6. \A i \in Stored : chunks[i].page \in Pages
  BY <1>1, <1>2 DEF Stored
<1>7. NoText \in Texts /\ \A c \in ChunkRows : TextOf(c) \in Texts /\ c.page \in Pages \cup {0}
  BY NothingType DEF Texts, TextOf, ChunkRows
<1>8. vectors \in [Ids -> Texts]
  BY <1>5, <1>7 DEF SearchInit
<1>9. cache \in [Ids -> Entries]
  BY <1>5, <1>7, <1>8, NothingType DEF SearchInit, Entries
<1>10. faults \in 0 .. MaxFaults
  BY IndexAssumption DEF SearchInit
<1>11. proc \in [Procs -> ProcRecords] /\ \A x \in Procs : Placed(proc[x])
  BY IdleType DEF SearchInit
<1>12. TypeInv
  BY <1>3, <1>5, <1>6, <1>8, <1>9, <1>10, <1>11 DEF TypeInv
<1>13. SearchType /\ AnswerInv(search)
  BY NoSearchType DEF SearchInit, SearchType
<1> QED BY <1>12, <1>13

LEMMA AroundIsNext == Around => Next /\ (search' = search \/ search' = NoSearch)
BY DEF Around, Next

LEMMA QueryTypes ==
    ASSUME NEW q \in Queries
    PROVE  LimitOf(q) \in Nat /\ CandidatesOf(q) \in Nat
<1>1. q.limit \in Nat /\ q.candidates \in Nat
  BY SearchAssumption
<1>2. DefaultLimit \in Nat /\ MinCandidates \in Nat
  BY RankingAssumption
<1>3. LimitOf(q) \in Nat
  BY <1>1, <1>2 DEF LimitOf
<1>4. LimitOf(q) * 5 \in Nat
  BY <1>3
<1> QED BY <1>1, <1>2, <1>3, <1>4 DEF CandidatesOf, Larger

PagesIn(list) == {list[n].page : n \in 1 .. Len(list)}

LEMMA EntryPage ==
    ASSUME NEW keyword \in Seq(Places), NEW vector \in Seq(Places), NEW f \in FusedPages,
           EntryInv(f, keyword, vector, Len(vector))
    PROVE  f.page \in PagesIn(keyword) \cup PagesIn(vector)
<1>1. f.kw \in 0 .. Len(keyword) /\ f.vec \in 0 .. Len(vector)
  BY DEF EntryInv
<1>2. Len(keyword) \in Nat /\ Len(vector) \in Nat
  OBVIOUS
<1>3. CASE f.vec # 0
  <2>1. f.vec \in 1 .. Len(vector) /\ vector[f.vec].page = f.page
    BY <1>1, <1>2, <1>3 DEF EntryInv
  <2> QED BY <2>1 DEF PagesIn
<1>4. CASE f.vec = 0
  <2>1. f.kw # 0 /\ keyword[f.kw].page = f.page
    BY <1>4 DEF EntryInv
  <2>2. f.kw \in 1 .. Len(keyword)
    BY <1>1, <1>2, <2>1
  <2> QED BY <2>1, <2>2 DEF PagesIn
<1> QED BY <1>3, <1>4

LEMMA RankedFusion ==
    ASSUME NEW keyword \in Seq(Places), InRankOrder(keyword),
           NEW vector \in Seq(Places), InRankOrder(vector),
           NEW literal, NEW limit \in Nat
    PROVE  LET list == Ranked(Fuse(keyword, vector), literal, limit) IN
           /\ list \in Seq(FusedPages) /\ Differ(list)
           /\ \A n \in 1 .. Len(list) :
                 list[n] \in FusedPages /\ EntryInv(list[n], keyword, vector, Len(vector))
           /\ PagesIn(list) \subseteq PagesIn(keyword) \cup PagesIn(vector)
<1> DEFINE fused == Fuse(keyword, vector)
           list == Ranked(fused, literal, limit)
<1>1. fused \in Seq(FusedPages) /\ FusedInv(fused, keyword, vector, Len(vector))
  BY FuseIs
<1> HIDE DEF fused
<1>2. list \in Seq(FusedPages)
  BY <1>1, RankedIs
<1>3. PICK order \in [1 .. Len(list) -> 1 .. Len(fused)] : Sorts(order, list, fused, literal)
  BY <1>1, RankedIs
<1> HIDE DEF list
<1>4. \A n \in 1 .. Len(list) : order[n] \in 1 .. Len(fused)
  BY <1>3
<1>5. \A k \in 1 .. Len(fused) :
        fused[k] \in FusedPages /\ EntryInv(fused[k], keyword, vector, Len(vector))
  BY <1>1 DEF FusedInv
<1>6. ASSUME NEW n \in 1 .. Len(list)
      PROVE  list[n] \in FusedPages /\ EntryInv(list[n], keyword, vector, Len(vector))
  BY <1>3, <1>4, <1>5 DEF Sorts
<1>7. ASSUME NEW m \in 1 .. Len(list), NEW n \in 1 .. Len(list), list[m].page = list[n].page
      PROVE  m = n
  <2>1. fused[order[m]].page = fused[order[n]].page
    BY <1>3, <1>7 DEF Sorts
  <2>2. order[m] = order[n]
    BY <1>1, <1>4, <2>1, FusedPagesDiffer
  <2> QED BY <1>3, <2>2 DEF Sorts
<1>8. PagesIn(list) \subseteq PagesIn(keyword) \cup PagesIn(vector)
  <2>1. \A n \in 1 .. Len(list) : list[n].page \in PagesIn(keyword) \cup PagesIn(vector)
    BY <1>6, EntryPage
  <2> QED BY <2>1 DEF PagesIn
<1> QED BY <1>2, <1>6, <1>7, <1>8 DEF list, fused, Differ

\* What the branches leave is fused.
LEMMA FusesIs ==
    ASSUME NEW r \in Searches, r.q \in Queries, r.results = <<>>,
           InRankOrder(r.keyword), InRankOrder(r.vector)
    PROVE  /\ Fuses(r) \in Searches /\ AnswerInv(Fuses(r))
           /\ Fuses(r).q = r.q /\ Fuses(r).gone = r.gone
           /\ Fuses(r).keyword = r.keyword /\ Fuses(r).vector = r.vector
           /\ Fuses(r).results = <<>>
           /\ PagesIn(Fuses(r).fused) \subseteq PagesIn(r.keyword) \cup PagesIn(r.vector)
<1> DEFINE ranked == Ranked(Fuse(r.keyword, r.vector), r.q.literal, LimitOf(r.q))
           s == [r EXCEPT !.pc = "materialize", !.fused = ranked, !.ranked = ranked]
<1>1. r.keyword \in Seq(Places) /\ r.vector \in Seq(Places) /\ LimitOf(r.q) \in Nat
  BY QueryTypes DEF Searches
<1>2. /\ ranked \in Seq(FusedPages) /\ Differ(ranked)
      /\ PagesIn(ranked) \subseteq PagesIn(r.keyword) \cup PagesIn(r.vector)
  BY <1>1, RankedFusion
<1>3. /\ s \in Searches /\ s.pc = "materialize" /\ s.fused = ranked /\ s.ranked = ranked
      /\ s.q = r.q /\ s.gone = r.gone /\ s.keyword = r.keyword /\ s.vector = r.vector
      /\ s.results = <<>>
  BY <1>2 DEF Searches
<1>4. s = Fuses(r)
  BY DEF Fuses
<1>5. Len(<<>>) = 0
  OBVIOUS
<1> HIDE DEF s
<1>6. s.ranked = Ranked(Fuse(s.keyword, s.vector), s.q.literal, LimitOf(s.q))
  BY <1>3
<1> HIDE DEF ranked
<1>7. Differ(s.fused) /\ Differ(s.results) /\ Apart(s.results, s.fused)
  BY <1>2, <1>3, <1>5 DEF Differ, Apart
<1>8. AnswerInv(s)
  BY <1>3, <1>6, <1>7 DEF AnswerInv
<1> QED BY <1>2, <1>3, <1>4, <1>8

-----------------------------------------------------------------------------
(* The steps of a search. *)

LEMMA SeqsOf ==
    ASSUME NEW S, IsFiniteSet(S), NEW ids \in SetToSeqs(S)
    PROVE  /\ ids \in Seq(S) /\ Len(ids) = Cardinality(S) /\ Cardinality(S) \in Nat
           /\ \A i, j \in 1 .. Len(ids) : ids[i] = ids[j] => i = j
<1>1. Cardinality(S) \in Nat
  BY FS_CardinalityType
<1>2. /\ ids \in [1 .. Cardinality(S) -> S]
      /\ \A i, j \in 1 .. Cardinality(S) : ids[i] = ids[j] => i = j
  BY DEF SetToSeqs
<1>3. ids \in Seq(S) /\ Len(ids) = Cardinality(S)
  BY <1>1, <1>2, FunctionIsSeq
<1> QED BY <1>1, <1>2, <1>3

LEMMA FirstOf ==
    ASSUME NEW S, NEW list \in Seq(S), NEW m \in Nat
    PROVE  /\ SubSeq(list, 1, Least(Len(list), m)) \in Seq(S)
           /\ Len(SubSeq(list, 1, Least(Len(list), m))) = Least(Len(list), m)
           /\ \A n \in 1 .. Least(Len(list), m) :
                 n \in 1 .. Len(list) /\ SubSeq(list, 1, Least(Len(list), m))[n] = list[n]
<1> DEFINE k == Least(Len(list), m)
<1>1. k \in Nat /\ k <= Len(list)
  BY DEF Least
<1> HIDE DEF k
<1>2. SubSeq(list, 1, k) \in Seq(S) /\ Len(SubSeq(list, 1, k)) = k
  BY <1>1
<1>3. \A n \in 1 .. k : n \in 1 .. Len(list) /\ SubSeq(list, 1, k)[n] = list[n]
  BY <1>1
<1> QED BY <1>2, <1>3 DEF k

LEMMA HitsOf ==
    ASSUME NEW ids \in Seq(Ids), NEW home \in [Ids -> Pages \cup {0}]
    PROVE  LET hits == [n \in DOMAIN ids |-> HitOf(ids[n], home[ids[n]])] IN
           /\ hits \in Seq(Hits) /\ Len(hits) = Len(ids)
           /\ \A n \in 1 .. Len(ids) : hits[n].page = home[ids[n]] /\ hits[n].chunk = ids[n]
<1> DEFINE hits == [n \in DOMAIN ids |-> HitOf(ids[n], home[ids[n]])]
<1>1. DOMAIN ids = 1 .. Len(ids) /\ Len(ids) \in Nat /\ \A n \in 1 .. Len(ids) : ids[n] \in Ids
  OBVIOUS
<1>2. \A n \in 1 .. Len(ids) :
        hits[n].page = home[ids[n]] /\ hits[n].chunk = ids[n] /\ hits[n] \in Hits
  BY <1>1 DEF HitOf, Hits
<1>3. hits \in [1 .. Len(ids) -> Hits]
  BY <1>1, <1>2
<1> HIDE DEF hits
<1>4. hits \in Seq(Hits) /\ Len(hits) = Len(ids)
  BY <1>1, <1>3, FunctionIsSeq
<1> QED BY <1>2, <1>4 DEF hits

\* A branch's list has pages of its hits.
LEMMA BranchIs ==
    ASSUME NEW hits \in Seq(Hits), NEW limit \in Nat
    PROVE  /\ TopPages(hits, limit) \in Seq(Places)
           /\ InRankOrder(TopPages(hits, limit))
           /\ PagesIn(TopPages(hits, limit)) \subseteq PagesIn(hits)
<1> DEFINE list == TopPages(hits, limit)
<1>1. list \in Seq(Places) /\ KeptInv(list, hits, limit, Len(hits))
  BY TopPagesIs
<1> HIDE DEF list
<1>2. \A k \in 1 .. Len(list) : \E j \in 1 .. Len(hits) : hits[j].page = list[k].page
  BY <1>1 DEF KeptInv
<1> QED BY <1>1, <1>2 DEF list, KeptInv, PagesIn

\* The pages a search has in its hands, and those its scans may find.
Seen(s) == PagesIn(s.keyword) \cup PagesIn(s.vector) \cup PagesIn(s.fused) \cup PagesIn(s.results)
InReach(p) == (p \in Pages /\ Live(p)) \/ \E i \in Ids : cache[i].page = p

\* A step in which the search goes on as s.
GoesOn(s) ==
    /\ s \in Searches /\ AnswerInv(s)
    /\ s.pc \in {"keyword", "vector", "materialize", "expand"} => s.q \in Queries
    /\ s.gone \subseteq search.gone
    /\ \A p \in Seen(s) : p \in Seen(search) \/ InReach(p)

LEMMA StartIs ==
    ASSUME SearchType, StartSearch
    PROVE  /\ SearchType' /\ AnswerInv(search')
           /\ search'.gone = {p \in Pages : OutOfIndex(p)} /\ Seen(search') = {}
<1>1. PICK q \in Queries, m \in Models :
        search' = [NoSearch EXCEPT !.pc = IF ModeOf(q, m) = "vector" THEN "vector" ELSE "keyword",
                                   !.q = q, !.model = m, !.gone = {p \in Pages : OutOfIndex(p)}]
  BY DEF StartSearch, Step
<1>2. m \in BOOLEAN
  BY SearchAssumption
<1>3. NoSearch.keyword = <<>> /\ NoSearch.vector = <<>> /\ NoSearch.fused = <<>>
  BY DEF NoSearch
<1>4. /\ search' \in Searches /\ search'.pc \in {"keyword", "vector"} /\ search'.q = q
      /\ search'.gone = {p \in Pages : OutOfIndex(p)}
      /\ search'.keyword = <<>> /\ search'.vector = <<>> /\ search'.fused = <<>>
      /\ search'.results = <<>> /\ search'.ranked = <<>>
  BY <1>1, <1>2, <1>3, NoSearchType DEF Searches
<1>5. Len(<<>>) = 0
  OBVIOUS
<1>6. AnswerInv(search')
  BY <1>4, <1>5 DEF AnswerInv, InRankOrder, Differ, Apart
<1>7. Seen(search') = {}
  BY <1>4, <1>5 DEF Seen, PagesIn
<1> QED BY <1>4, <1>6, <1>7 DEF SearchType

LEMMA IdsFinite == \A S \in SUBSET Ids : IsFiniteSet(S)
<1>1. IsFiniteSet(Ids)
  BY IndexAssumption, FS_Interval DEF Ids
<1> QED BY <1>1, FS_Subset

LEMMA KeywordStep ==
    ASSUME TypeInv, SearchType, AnswerInv(search), KeywordScan
    PROVE  GoesOn(search')
<1> DEFINE q == search.q
           asked == CandidatesOf(q)
<1>1. search \in Searches /\ search.pc = "keyword" /\ q \in Queries
  BY DEF KeywordScan, SearchType
<1>2. asked \in Nat /\ ScanDepth(asked) \in Nat
  <2>1. asked \in Nat
    BY <1>1, QueryTypes
  <2> HIDE DEF asked
  <2>2. asked * Oversample \in Nat /\ MaxScan \in Nat
    BY <2>1, RankingAssumption
  <2> QED BY <2>1, <2>2 DEF ScanDepth, Least
<1> DEFINE scanned(ids) == SubSeq(ids, 1, Least(Len(ids), ScanDepth(asked)))
           hits(ids) == [n \in DOMAIN scanned(ids) |-> HitOf(scanned(ids)[n], chunks[scanned(ids)[n]].page)]
           s(m, ids) == [search EXCEPT !.keyword = TopPages(hits(ids), asked),
                                       !.found.keyword = {HitOf(i, chunks[i].page) : i \in m}]
<1>3. PICK m \in SUBSET {i \in Ids : Matchable(q, i)} : \E ids \in SetToSeqs(m) :
        search' = IF ModeOf(q, search.model) = "keyword" THEN Fuses(s(m, ids))
                  ELSE [s(m, ids) EXCEPT !.pc = "vector"]
  BY DEF KeywordScan, Step
<1>4. PICK ids \in SetToSeqs(m) :
        search' = IF ModeOf(q, search.model) = "keyword" THEN Fuses(s(m, ids))
                  ELSE [s(m, ids) EXCEPT !.pc = "vector"]
  BY <1>3
<1> DEFINE read == scanned(ids)
           found == hits(ids)
           list == TopPages(found, asked)
           r == s(m, ids)
<1> HIDE DEF asked
<1>5. /\ IsFiniteSet(m) /\ m \subseteq Ids
      /\ \A i \in m : chunks[i].page \in Pages /\ Live(chunks[i].page)
  BY IdsFinite DEF Matchable, TypeInv, Stored
<1>6. ids \in Seq(m)
  BY <1>5, SeqsOf
<1>7. read \in Seq(m)
  BY <1>2, <1>6, FirstOf
<1> HIDE DEF scanned
<1>8. read \in Seq(Ids) /\ \A n \in 1 .. Len(read) : read[n] \in m
  BY <1>5, <1>7
<1>9. /\ found \in Seq(Hits) /\ Len(found) = Len(read)
      /\ \A n \in 1 .. Len(read) : found[n].page = chunks[read[n]].page
  <2> DEFINE home == [i \in Ids |-> chunks[i].page]
  <2>1. home \in [Ids -> Pages \cup {0}]
    BY DEF TypeInv, ChunkRows
  <2>2. \A n \in DOMAIN read : home[read[n]] = chunks[read[n]].page
    BY <1>8
  <2>3. found = [n \in DOMAIN read |-> HitOf(read[n], home[read[n]])]
    BY <2>2
  <2>4. \A n \in 1 .. Len(read) : home[read[n]] = chunks[read[n]].page
    BY <1>8
  <2> HIDE DEF home, found
  <2> QED BY <1>8, <2>1, <2>3, <2>4, HitsOf
<1> HIDE DEF hits, found
<1>10. list \in Seq(Places) /\ InRankOrder(list) /\ PagesIn(list) \subseteq PagesIn(found)
  BY <1>2, <1>9, BranchIs
<1>11. \A p \in PagesIn(list) : p \in Pages /\ Live(p)
  <2>1. ASSUME NEW n \in 1 .. Len(found) PROVE found[n].page \in Pages /\ Live(found[n].page)
    BY <1>5, <1>8, <1>9
  <2>2. \A p \in PagesIn(found) : p \in Pages /\ Live(p)
    BY <2>1 DEF PagesIn
  <2> QED BY <1>10, <2>2
<1> HIDE DEF list
<1>12. {HitOf(i, chunks[i].page) : i \in m} \subseteq Hits
  BY <1>5 DEF HitOf, Hits
<1>13. search.results = <<>> /\ search.vector = <<>> /\ search.ranked = <<>>
  BY <1>1 DEF AnswerInv
<1>14. /\ r \in Searches /\ r.pc = search.pc /\ r.keyword = list /\ r.vector = search.vector
       /\ r.q = q /\ r.results = <<>> /\ r.fused = search.fused /\ r.gone = search.gone
       /\ r.ranked = search.ranked
  BY <1>1, <1>10, <1>12, <1>13 DEF Searches, list, found
<1> HIDE DEF s, r
<1>15. \A p \in Seen(r) : p \in Seen(search) \/ InReach(p)
  BY <1>11, <1>13, <1>14 DEF Seen, InReach
<1>16. CASE ModeOf(q, search.model) = "keyword"
  <2>1. search' = Fuses(r)
    BY <1>4, <1>16 DEF r
  <2>2. InRankOrder(r.keyword) /\ InRankOrder(r.vector)
    BY <1>10, <1>14 DEF AnswerInv
  <2>3. /\ search' \in Searches /\ AnswerInv(search')
        /\ search'.q = q /\ search'.gone = r.gone
        /\ search'.keyword = r.keyword /\ search'.vector = r.vector /\ search'.results = <<>>
        /\ PagesIn(search'.fused) \subseteq PagesIn(r.keyword) \cup PagesIn(r.vector)
    BY <1>1, <1>14, <2>1, <2>2, FusesIs
  <2>4. Seen(search') \subseteq Seen(r)
    BY <1>14, <2>3 DEF Seen
  <2> QED BY <1>1, <1>14, <1>15, <2>3, <2>4 DEF GoesOn
<1>17. CASE ModeOf(q, search.model) # "keyword"
  <2> DEFINE t == [r EXCEPT !.pc = "vector"]
  <2>1. search' = t
    BY <1>4, <1>17 DEF r
  <2>2. /\ t \in Searches /\ t.pc = "vector" /\ t.keyword = list /\ t.vector = <<>>
        /\ t.q = q /\ t.results = <<>> /\ t.fused = r.fused /\ t.gone = search.gone
        /\ t.ranked = <<>>
    BY <1>13, <1>14 DEF Searches
  <2> HIDE DEF t
  <2>3. InRankOrder(t.vector) /\ Differ(t.fused) /\ Differ(t.results) /\ Apart(t.results, t.fused)
    BY <1>13, <1>14, <2>2 DEF AnswerInv
  <2>4. AnswerInv(t)
    BY <1>10, <2>2, <2>3 DEF AnswerInv
  <2>5. Seen(t) \subseteq Seen(r)
    BY <1>13, <1>14, <2>2 DEF Seen
  <2> QED BY <1>1, <1>15, <2>1, <2>2, <2>4, <2>5 DEF GoesOn
<1> QED BY <1>16, <1>17

LEMMA VectorStep ==
    ASSUME TypeInv, SearchType, AnswerInv(search), VectorScan
    PROVE  GoesOn(search')
<1> DEFINE q == search.q
           asked == CandidatesOf(q)
           here == {i \in Ids : cache[i] # NoEntry /\ Passes(q, cache[i].page, cache[i].edited)}
           hits(ids) == [n \in DOMAIN ids |-> HitOf(ids[n], cache[ids[n]].page)]
           s(ids) == [search EXCEPT !.vector = TopPages(hits(ids), asked),
                                    !.found.vector = ToSet(hits(ids))]
<1>1. search \in Searches /\ search.pc = "vector" /\ q \in Queries
  BY DEF VectorScan, SearchType
<1>2. asked \in Nat
  BY <1>1, QueryTypes
<1>3. PICK ids \in SetToSeqs(here) : search' = Fuses(s(ids))
  BY DEF VectorScan, Step
<1> DEFINE found == hits(ids)
           list == TopPages(found, asked)
           r == s(ids)
<1> HIDE DEF asked
<1>4. here \subseteq Ids /\ IsFiniteSet(here)
  BY IdsFinite
<1> HIDE DEF here
<1>5. ids \in Seq(here)
  BY <1>4, SeqsOf
<1>6. ids \in Seq(Ids) /\ \A n \in 1 .. Len(ids) : ids[n] \in Ids
  BY <1>4, <1>5
<1>7. /\ found \in Seq(Hits) /\ Len(found) = Len(ids)
      /\ \A n \in 1 .. Len(ids) : found[n].page = cache[ids[n]].page
  <2> DEFINE home == [i \in Ids |-> cache[i].page]
  <2>1. home \in [Ids -> Pages \cup {0}]
    BY DEF TypeInv, Entries
  <2>2. \A n \in DOMAIN ids : home[ids[n]] = cache[ids[n]].page
    BY <1>6
  <2>3. found = [n \in DOMAIN ids |-> HitOf(ids[n], home[ids[n]])]
    BY <2>2
  <2>4. \A n \in 1 .. Len(ids) : home[ids[n]] = cache[ids[n]].page
    BY <1>6
  <2> HIDE DEF home, found
  <2> QED BY <1>6, <2>1, <2>3, <2>4, HitsOf
<1> HIDE DEF hits, found
<1>8. list \in Seq(Places) /\ InRankOrder(list) /\ PagesIn(list) \subseteq PagesIn(found)
  BY <1>2, <1>7, BranchIs
<1>9. \A p \in PagesIn(list) : InReach(p)
  <2>1. ASSUME NEW n \in 1 .. Len(found) PROVE InReach(found[n].page)
    BY <1>6, <1>7 DEF InReach
  <2>2. \A p \in PagesIn(found) : InReach(p)
    BY <2>1 DEF PagesIn
  <2> QED BY <1>8, <2>2
<1> HIDE DEF list
<1>10. ToSet(found) \subseteq Hits
  BY <1>7 DEF ToSet
<1>11. search.results = <<>> /\ search.vector = <<>> /\ search.ranked = <<>>
  BY <1>1 DEF AnswerInv
<1>12. /\ r \in Searches /\ r.keyword = search.keyword /\ r.vector = list
       /\ r.q = q /\ r.results = <<>> /\ r.gone = search.gone
  BY <1>1, <1>8, <1>10, <1>11 DEF Searches, list, found
<1> HIDE DEF s, r
<1>13. InRankOrder(r.keyword) /\ InRankOrder(r.vector)
  BY <1>8, <1>12 DEF AnswerInv
<1>14. /\ search' \in Searches /\ AnswerInv(search')
       /\ search'.q = q /\ search'.gone = r.gone
       /\ search'.keyword = r.keyword /\ search'.vector = r.vector /\ search'.results = <<>>
       /\ PagesIn(search'.fused) \subseteq PagesIn(r.keyword) \cup PagesIn(r.vector)
  <2>1. search' = Fuses(r)
    BY <1>3 DEF r
  <2> QED BY <1>1, <1>12, <1>13, <2>1, FusesIs
<1>15. \A p \in Seen(search') : p \in Seen(search) \/ InReach(p)
  <2>1. \A p \in Seen(search') : p \in PagesIn(search.keyword) \/ p \in PagesIn(list)
    <3>1. PagesIn(<<>>) = {}
      BY DEF PagesIn
    <3> QED BY <1>12, <1>14, <3>1 DEF Seen
  <2> QED BY <1>9, <2>1 DEF Seen
<1> QED BY <1>1, <1>12, <1>14, <1>15 DEF GoesOn

\* What is left of a list whose head has been taken.
LEMMA TailIs ==
    ASSUME NEW S, NEW list \in Seq(S), list # <<>>
    PROVE  /\ Head(list) = list[1] /\ 1 \in 1 .. Len(list) /\ list[1] \in S
           /\ Tail(list) \in Seq(S) /\ Len(Tail(list)) = Len(list) - 1
           /\ \A n \in 1 .. Len(list) - 1 : n + 1 \in 1 .. Len(list) /\ Tail(list)[n] = list[n + 1]
           /\ Len(list) \in Nat
OBVIOUS

\* The rest of fused, with the same answer or with the page of its head added.
LEMMA Taken1 ==
    ASSUME NEW fused \in Seq(FusedPages), fused # <<>>, Differ(fused),
           NEW results \in Seq(Results), Differ(results), Apart(results, fused),
           NEW e \in Results, e.page = Head(fused).page
    PROVE  /\ Differ(Tail(fused)) /\ Apart(results, Tail(fused))
           /\ Differ(Append(results, e)) /\ Apart(Append(results, e), Tail(fused))
           /\ PagesIn(Tail(fused)) \subseteq PagesIn(fused)
           /\ PagesIn(Append(results, e)) \subseteq PagesIn(results) \cup PagesIn(fused)
<1> DEFINE rest == Tail(fused)
           more == Append(results, e)
<1>1. /\ Head(fused) = fused[1] /\ 1 \in 1 .. Len(fused) /\ Len(rest) = Len(fused) - 1
      /\ \A n \in 1 .. Len(fused) - 1 : n + 1 \in 1 .. Len(fused) /\ rest[n] = fused[n + 1]
      /\ Len(fused) \in Nat
  BY TailIs
<1>2. /\ Len(more) = Len(results) + 1 /\ Len(results) \in Nat
      /\ \A n \in 1 .. Len(results) : more[n] = results[n]
      /\ more[Len(results) + 1] = e
  BY AppendIs
<1> HIDE DEF rest, more
<1>3. \A n \in 1 .. Len(rest) : n + 1 \in 1 .. Len(fused) /\ rest[n].page = fused[n + 1].page
  BY <1>1
<1>4. \A n \in 1 .. Len(more) :
        \/ n \in 1 .. Len(results) /\ more[n].page = results[n].page
        \/ n = Len(results) + 1 /\ more[n].page = fused[1].page
  <2>1. \A n \in 1 .. Len(more) : n \in 1 .. Len(results) \/ n = Len(results) + 1
    BY <1>2
  <2> QED BY <1>1, <1>2, <2>1
<1>5. Differ(rest)
  <2> SUFFICES ASSUME NEW m \in 1 .. Len(rest), NEW n \in 1 .. Len(rest), rest[m].page = rest[n].page
               PROVE  m = n
    BY DEF Differ
  <2>1. fused[m + 1].page = fused[n + 1].page /\ m + 1 \in 1 .. Len(fused) /\ n + 1 \in 1 .. Len(fused)
    BY <1>3
  <2>2. m + 1 = n + 1
    BY <2>1 DEF Differ
  <2> QED BY <2>2
<1>6. Apart(results, rest)
  BY <1>3 DEF Apart
<1>7. \A k \in 1 .. Len(results) : results[k].page # fused[1].page
  BY <1>1 DEF Apart
<1>8. Differ(more)
  BY <1>4, <1>7 DEF Differ
<1>9. \A n \in 1 .. Len(rest) : rest[n].page # fused[1].page
  <2> TAKE n \in 1 .. Len(rest)
  <2>1. n + 1 \in 1 .. Len(fused) /\ n + 1 # 1
    BY <1>1, <1>3
  <2>2. fused[n + 1].page # fused[1].page
    BY <1>1, <2>1 DEF Differ
  <2> QED BY <1>3, <2>2
<1>10. Apart(more, rest)
  <2> SUFFICES ASSUME NEW m \in 1 .. Len(more), NEW n \in 1 .. Len(rest)
               PROVE  more[m].page # rest[n].page
    BY DEF Apart
  <2>1. CASE m \in 1 .. Len(results) /\ more[m].page = results[m].page
    BY <1>6, <2>1 DEF Apart
  <2>2. CASE m = Len(results) + 1 /\ more[m].page = fused[1].page
    BY <1>9, <2>2
  <2> QED BY <1>4, <2>1, <2>2
<1>11. PagesIn(rest) \subseteq PagesIn(fused)
  BY <1>3 DEF PagesIn
<1>12. PagesIn(more) \subseteq PagesIn(results) \cup PagesIn(fused)
  BY <1>1, <1>4 DEF PagesIn
<1> QED BY <1>5, <1>6, <1>8, <1>10, <1>11, <1>12 DEF rest, more

LEMMA SpentIs ==
    ASSUME SearchType
    PROVE  /\ Spent \in Searches /\ Spent.pc = search.pc /\ Spent.q = search.q
           /\ Spent.keyword = <<>> /\ Spent.vector = <<>> /\ Spent.ranked = <<>>
           /\ Spent.fused = search.fused /\ Spent.results = search.results
           /\ Spent.gone = search.gone
<1>1. NoSearch.found \in [keyword : SUBSET Hits, vector : SUBSET Hits]
  BY DEF NoSearch
<1>2. search \in Searches
  BY DEF SearchType
<1>3. <<>> \in Seq(Places) /\ <<>> \in Seq(FusedPages)
  OBVIOUS
<1> DEFINE none == NoSearch.found
<1>4. Spent = [search EXCEPT !.keyword = <<>>, !.vector = <<>>, !.ranked = <<>>, !.found = none]
  BY DEF Spent
<1> HIDE DEF none
<1> QED BY <1>1, <1>2, <1>3, <1>4 DEF Searches, none

\* The search without its lists, with less of fused and perhaps more of an answer.
LEMMA SpentGoesOn ==
    ASSUME SearchType, AnswerInv(search), search.pc = "materialize",
           NEW fused \in Seq(FusedPages), NEW results \in Seq(Results),
           Differ(fused), Differ(results), Apart(results, fused),
           PagesIn(fused) \cup PagesIn(results)
             \subseteq PagesIn(search.fused) \cup PagesIn(search.results)
    PROVE  GoesOn([Spent EXCEPT !.fused = fused, !.results = results])
<1> DEFINE s == [Spent EXCEPT !.fused = fused, !.results = results]
<1>1. /\ s \in Searches /\ s.pc = "materialize" /\ s.q = search.q
      /\ s.keyword = <<>> /\ s.vector = <<>> /\ s.ranked = <<>>
      /\ s.fused = fused /\ s.results = results /\ s.gone = search.gone
  BY SpentIs DEF Searches
<1> HIDE DEF s
<1>2. Len(<<>>) = 0
  OBVIOUS
<1>3. AnswerInv(s)
  BY <1>1, <1>2 DEF AnswerInv, InRankOrder
<1>4. PagesIn(<<>>) = {}
  BY <1>2 DEF PagesIn
<1>5. Seen(s) \subseteq Seen(search)
  BY <1>1, <1>4 DEF Seen
<1> QED BY <1>1, <1>3, <1>5 DEF GoesOn, SearchType, s

LEMMA MaterializeStep ==
    ASSUME TypeInv, SearchType, AnswerInv(search), Materialize
    PROVE  GoesOn(search')
<1> DEFINE fused == search.fused
           f == Head(fused)
           c == chunks[f.chunk]
           e == [page |-> f.page, of |-> c.page, via |-> Via(f), parent |-> 0,
                 score |-> Score(f, search.q.literal)]
           all == Append(search.results, e)
<1>1. /\ search.pc = "materialize" /\ fused # <<>>
      /\ search' = [Spent EXCEPT !.fused = Tail(@),
                                 !.results = IF c = NoChunk THEN @ ELSE Append(@, e)]
  BY DEF Materialize, Step
<1>2. /\ search \in Searches /\ fused \in Seq(FusedPages) /\ search.results \in Seq(Results)
      /\ Differ(fused) /\ Differ(search.results) /\ Apart(search.results, fused)
  BY DEF SearchType, Searches, AnswerInv
<1>3. f \in FusedPages
  BY <1>1, <1>2, TailIs
<1>4. e \in Results
  <2>1. c \in ChunkRows
    BY <1>3 DEF TypeInv, FusedPages
  <2>2. c.page \in Pages \cup {0} /\ f.page \in Pages \cup {0}
    BY <1>3, <2>1 DEF ChunkRows, FusedPages
  <2>3. Via(f) \in {"both", "vector", "keyword"}
    BY DEF Via
  <2>4. Score(f, search.q.literal) \in Nat
    BY <1>3, ScoreType
  <2> HIDE DEF c, f
  <2> QED BY <2>2, <2>3, <2>4 DEF Results
<1>5. e.page = f.page
  OBVIOUS
<1> HIDE DEF e
<1>6. Tail(fused) \in Seq(FusedPages) /\ all \in Seq(Results)
  BY <1>1, <1>2, <1>4, TailIs, AppendIs
<1>7. /\ Differ(Tail(fused)) /\ Apart(search.results, Tail(fused))
      /\ Differ(all) /\ Apart(all, Tail(fused))
      /\ PagesIn(Tail(fused)) \subseteq PagesIn(fused)
      /\ PagesIn(all) \subseteq PagesIn(search.results) \cup PagesIn(fused)
  BY <1>1, <1>2, <1>4, <1>5, Taken1
<1>8. search' = [Spent EXCEPT !.fused = Tail(fused),
                              !.results = IF c = NoChunk THEN search.results ELSE all]
  BY <1>1, SpentIs
<1> HIDE DEF all, c
<1>9. CASE c = NoChunk
  <2>1. search' = [Spent EXCEPT !.fused = Tail(fused), !.results = search.results]
    BY <1>8, <1>9
  <2>2. PagesIn(Tail(fused)) \cup PagesIn(search.results) \subseteq PagesIn(search.fused) \cup PagesIn(search.results)
    BY <1>7
  <2>3. GoesOn([Spent EXCEPT !.fused = Tail(fused), !.results = search.results])
    BY <1>1, <1>2, <1>6, <1>7, <2>2, SpentGoesOn
  <2> QED BY <2>1, <2>3
<1>10. CASE c # NoChunk
  <2>1. search' = [Spent EXCEPT !.fused = Tail(fused), !.results = all]
    BY <1>8, <1>10
  <2>2. PagesIn(Tail(fused)) \cup PagesIn(all) \subseteq PagesIn(search.fused) \cup PagesIn(search.results)
    BY <1>7
  <2>3. GoesOn([Spent EXCEPT !.fused = Tail(fused), !.results = all])
    BY <1>1, <1>2, <1>6, <1>7, <2>2, SpentGoesOn
  <2> QED BY <2>1, <2>3
<1> QED BY <1>9, <1>10

LEMMA EndMaterializeStep ==
    ASSUME SearchType, AnswerInv(search), EndMaterialize
    PROVE  GoesOn(search')
<1>1. /\ search \in Searches /\ search.pc = "materialize" /\ search.fused = <<>>
      /\ search' = [search EXCEPT !.pc = IF search.q.expand /\ search.results # <<>>
                                         THEN "expand" ELSE "done"]
  BY DEF EndMaterialize, Step, SearchType
<1>2. /\ search' \in Searches /\ search'.pc \in {"expand", "done"} /\ search'.q = search.q
      /\ search'.keyword = search.keyword /\ search'.vector = search.vector
      /\ search'.fused = search.fused /\ search'.results = search.results
      /\ search'.ranked = search.ranked /\ search'.gone = search.gone
  BY <1>1 DEF Searches
<1>3. AnswerInv(search')
  BY <1>1, <1>2 DEF AnswerInv
<1>4. Seen(search') = Seen(search)
  BY <1>2 DEF Seen
<1> QED BY <1>1, <1>2, <1>3, <1>4 DEF GoesOn, SearchType

-----------------------------------------------------------------------------
(* expand. *)

LEMMA ElementsOf ==
    ASSUME NEW T, NEW S \in SUBSET T, NEW list \in Seq(S)
    PROVE  list \in Seq(T) /\ \A n \in 1 .. Len(list) : list[n] \in S
OBVIOUS

SeedsOf(direct) == {direct[n].page : n \in DOMAIN direct}

\* A list of related pages, so far.
RelatedInv(out, rows, direct) ==
    /\ Differ(out) /\ Apart(direct, out)
    /\ \A k \in 1 .. Len(out) : \E n \in 1 .. Len(rows) :
          out[k].page = FarEnd(rows[n], SeedsOf(direct))

LEMMA ScoreOfType ==
    ASSUME NEW direct \in Seq(Results), NEW p
    PROVE  ScoreOf(direct, p) \in Nat
<1>1. CASE \E n \in DOMAIN direct : direct[n].page = p
  <2> DEFINE n == CHOOSE n \in DOMAIN direct : direct[n].page = p
  <2>1. n \in DOMAIN direct
    BY <1>1
  <2>2. direct[n] \in Results
    BY <2>1
  <2>3. direct[n].score \in Nat
    BY <2>2 DEF Results
  <2> QED BY <1>1, <2>3 DEF ScoreOf
<1>2. CASE ~\E n \in DOMAIN direct : direct[n].page = p
  BY <1>2 DEF ScoreOf
<1> QED BY <1>1, <1>2

LEMMA TakeKeeps ==
    ASSUME NEW direct \in Seq(Results), NEW rows \in Seq([from : Pages, to : Pages]),
           NEW limit, NEW n \in 1 .. Len(rows),
           NEW out \in Seq(Results), RelatedInv(out, rows, direct)
    PROVE  /\ Take(out, rows[n], direct, limit) \in Seq(Results)
           /\ RelatedInv(Take(out, rows[n], direct, limit), rows, direct)
<1> DEFINE r == rows[n]
           p == FarEnd(r, SeedsOf(direct))
           e == [page |-> p, of |-> p, via |-> "relation", parent |-> Parent(direct, r),
                 score |-> ScoreOf(direct, Parent(direct, r)) \div 3]
           new == Append(out, e)
           leaves == Len(out) = limit \/ p \in SeedsOf(direct) \/ \E k \in DOMAIN out : out[k].page = p
<1>1. Take(out, r, direct, limit) = IF leaves THEN out ELSE new
  BY DEF Take, SeedsOf
<1>2. r \in [from : Pages, to : Pages]
  BY ElementsOf
<1>3. p \in Pages /\ Parent(direct, r) \in Pages
  BY <1>2 DEF FarEnd, Parent
<1>4. e \in Results
  <2>1. ScoreOf(direct, Parent(direct, r)) \in Nat
    BY ScoreOfType
  <2>2. ASSUME NEW d \in Nat PROVE d \div 3 \in Nat
    OBVIOUS
  <2>3. ScoreOf(direct, Parent(direct, r)) \div 3 \in Nat
    BY <2>1, <2>2
  <2> QED BY <1>3, <2>3 DEF Results
<1>5. e.page = p
  OBVIOUS
<1> HIDE DEF e
<1>6. CASE leaves
  BY <1>1, <1>6
<1>7. CASE ~leaves
  <2>1. /\ new \in Seq(Results) /\ Len(new) = Len(out) + 1 /\ Len(out) \in Nat
        /\ \A k \in 1 .. Len(out) : new[k] = out[k]
        /\ new[Len(out) + 1] = e /\ DOMAIN out = 1 .. Len(out)
    BY <1>4, AppendIs
  <2>2. p \notin SeedsOf(direct) /\ \A k \in 1 .. Len(out) : out[k].page # p
    BY <1>7, <2>1
  <2> HIDE DEF new
  <2>3. \A k \in 1 .. Len(new) :
          \/ k \in 1 .. Len(out) /\ new[k].page = out[k].page
          \/ k = Len(out) + 1 /\ new[k].page = p
    <3>1. \A k \in 1 .. Len(new) : k \in 1 .. Len(out) \/ k = Len(out) + 1
      BY <2>1
    <3> QED BY <1>5, <2>1, <3>1
  <2> HIDE DEF p
  <2>4. Differ(new)
    BY <2>2, <2>3 DEF Differ, RelatedInv
  <2>5. \A m \in 1 .. Len(direct) : direct[m].page # p
    <3>1. DOMAIN direct = 1 .. Len(direct)
      OBVIOUS
    <3> QED BY <2>2, <3>1 DEF SeedsOf
  <2>6. Apart(direct, new)
    BY <2>3, <2>5 DEF Apart, RelatedInv
  <2>7. \A k \in 1 .. Len(new) : \E j \in 1 .. Len(rows) :
          new[k].page = FarEnd(rows[j], SeedsOf(direct))
    BY <2>3 DEF RelatedInv, p
  <2>8. RelatedInv(new, rows, direct)
    BY <2>4, <2>6, <2>7 DEF RelatedInv
  <2>9. Take(out, r, direct, limit) = new
    BY <1>1, <1>7
  <2> QED BY <2>1, <2>8, <2>9
<1> QED BY <1>6, <1>7

LEMMA RelatedIs ==
    ASSUME NEW direct \in Seq(Results), NEW rows \in Seq([from : Pages, to : Pages]), NEW limit
    PROVE  /\ Related(rows, direct, limit) \in Seq(Results)
           /\ RelatedInv(Related(rows, direct, limit), rows, direct)
<1> DEFINE D == {out \in Seq(Results) : RelatedInv(out, rows, direct)}
           m == Len(rows)
<1>1. m \in Nat /\ m \in 0 .. m
  OBVIOUS
<1>2. <<>> \in D
  <2>1. <<>> \in Seq(Results) /\ Len(<<>>) = 0
    OBVIOUS
  <2> QED BY <2>1 DEF RelatedInv, Differ, Apart
<1>3. \A out \in D : \A n \in 1 .. m : Take(out, rows[n], direct, limit) \in D
  BY TakeKeeps
<1>4. \A n \in 0 .. m : Expanded(rows, direct, limit)[n] \in D
  <2> HIDE DEF D
  <2> QED BY <1>1, <1>2, <1>3, ExpandedIs
<1>5. Expanded(rows, direct, limit)[m] \in D
  BY <1>1, <1>4
<1> QED BY <1>5 DEF Related

LEMMA JoinIs ==
    ASSUME NEW a \in Seq(Results), NEW b \in Seq(Results), Differ(a), Differ(b), Apart(a, b)
    PROVE  /\ a \o b \in Seq(Results) /\ Differ(a \o b)
           /\ PagesIn(a \o b) \subseteq PagesIn(a) \cup PagesIn(b)
<1> DEFINE all == a \o b
<1>1. all \in Seq(Results) /\ Len(all) = Len(a) + Len(b) /\ Len(a) \in Nat /\ Len(b) \in Nat
  OBVIOUS
<1>2. /\ \A n \in 1 .. Len(a) : all[n] = a[n]
      /\ \A n \in 1 .. Len(b) : all[Len(a) + n] = b[n]
  OBVIOUS
<1> HIDE DEF all
<1>3. \A n \in 1 .. Len(all) :
        \/ n \in 1 .. Len(a) /\ all[n] = a[n]
        \/ n - Len(a) \in 1 .. Len(b) /\ all[n] = b[n - Len(a)] /\ n \in Nat
  <2> TAKE n \in 1 .. Len(all)
  <2>1. CASE n <= Len(a)
    BY <1>1, <1>2, <2>1
  <2>2. CASE ~(n <= Len(a))
    <3>1. n - Len(a) \in 1 .. Len(b) /\ Len(a) + (n - Len(a)) = n
      BY <1>1, <2>2
    <3> QED BY <1>2, <3>1
  <2> QED BY <2>1, <2>2
<1>4. Differ(all)
  <2> SUFFICES ASSUME NEW m \in 1 .. Len(all), NEW n \in 1 .. Len(all), all[m].page = all[n].page
               PROVE  m = n
    BY DEF Differ
  <2>1. CASE m \in 1 .. Len(a) /\ all[m] = a[m]
    <3>1. n \in 1 .. Len(a) /\ all[n] = a[n]
      BY <1>3, <2>1 DEF Apart
    <3> QED BY <2>1, <3>1 DEF Differ
  <2>2. CASE m - Len(a) \in 1 .. Len(b) /\ all[m] = b[m - Len(a)]
    <3>1. n - Len(a) \in 1 .. Len(b) /\ all[n] = b[n - Len(a)]
      BY <1>3, <2>2 DEF Apart
    <3>2. m - Len(a) = n - Len(a)
      BY <2>2, <3>1 DEF Differ
    <3> QED BY <1>1, <3>2
  <2> QED BY <1>3, <2>1, <2>2
<1>5. PagesIn(all) \subseteq PagesIn(a) \cup PagesIn(b)
  BY <1>3 DEF PagesIn
<1> QED BY <1>1, <1>4, <1>5 DEF all

LEMMA ExpandStep ==
    ASSUME TypeInv, SearchType, AnswerInv(search), Expand
    PROVE  GoesOn(search')
<1> DEFINE results == search.results
           limit == Least(LimitOf(search.q), RelatedLimit)
           read(rows) == SubSeq(rows, 1, Least(Len(rows), limit * RelatedScan))
<1>1. /\ search \in Searches /\ search.pc = "expand" /\ search.q \in Queries
      /\ results \in Seq(Results) /\ search.fused = <<>> /\ Differ(results)
  BY DEF Expand, SearchType, Searches, AnswerInv
<1>2. PICK rows \in SetToSeqs(RelationRows) :
        search' = [search EXCEPT !.pc = "done", !.results = @ \o Related(read(rows), results, limit)]
  BY DEF Expand, Step
<1> DEFINE some == read(rows)
           more == Related(some, results, limit)
<1>3. limit * RelatedScan \in Nat
  <2>1. LimitOf(search.q) \in Nat /\ RelatedLimit \in Nat /\ RelatedScan \in Nat
    BY <1>1, QueryTypes, RankingAssumption
  <2>2. limit \in Nat
    BY <2>1 DEF Least
  <2> HIDE DEF limit
  <2> QED BY <2>1, <2>2
<1> HIDE DEF limit
<1>4. /\ RelationRows \subseteq [from : Pages, to : Pages] /\ IsFiniteSet(RelationRows)
      /\ \A r \in RelationRows : Live(FarEnd(r, SeedsOf(results)))
  <2>1. RelationRows \subseteq Relations
    BY DEF RelationRows
  <2>2. IsFiniteSet(RelationRows)
    BY <2>1, SearchAssumption, FS_Subset
  <2> QED BY <2>1, <2>2, SearchAssumption DEF RelationRows, SeedsOf
<1>5. rows \in Seq(RelationRows)
  BY <1>4, SeqsOf
<1>6. some \in Seq(RelationRows)
  BY <1>3, <1>5, FirstOf
<1> HIDE DEF read, some
<1>7. some \in Seq([from : Pages, to : Pages]) /\ \A n \in 1 .. Len(some) : some[n] \in RelationRows
  BY <1>4, <1>6, ElementsOf
<1>8. more \in Seq(Results) /\ RelatedInv(more, some, results)
  BY <1>1, <1>7, RelatedIs
<1>9. search' = [search EXCEPT !.pc = "done", !.results = results \o more]
  BY <1>2 DEF some
<1> HIDE DEF more
<1>10. /\ results \o more \in Seq(Results) /\ Differ(results \o more)
       /\ PagesIn(results \o more) \subseteq PagesIn(results) \cup PagesIn(more)
  BY <1>1, <1>8, JoinIs DEF RelatedInv
<1>11. \A p \in PagesIn(more) : InReach(p)
  <2> SUFFICES ASSUME NEW k \in 1 .. Len(more) PROVE InReach(more[k].page)
    BY DEF PagesIn
  <2>1. PICK n \in 1 .. Len(some) : more[k].page = FarEnd(some[n], SeedsOf(results))
    BY <1>8 DEF RelatedInv
  <2>2. some[n] \in RelationRows /\ some[n] \in [from : Pages, to : Pages]
    BY <1>4, <1>7
  <2>3. FarEnd(some[n], SeedsOf(results)) \in Pages
    BY <2>2 DEF FarEnd
  <2> QED BY <1>4, <2>1, <2>2, <2>3 DEF InReach
<1> DEFINE all == results \o more
<1> HIDE DEF all
<1>12. /\ search' \in Searches /\ search'.pc = "done"
       /\ search'.keyword = search.keyword /\ search'.vector = search.vector
       /\ search'.fused = <<>> /\ search'.results = all /\ search'.q = search.q
       /\ search'.ranked = search.ranked /\ search'.gone = search.gone
  BY <1>1, <1>9, <1>10 DEF Searches, all
<1>13. Len(<<>>) = 0
  OBVIOUS
<1>14. AnswerInv(search')
  BY <1>10, <1>12, <1>13 DEF AnswerInv, Apart, Differ, all
<1>15. \A p \in Seen(search') : p \in Seen(search) \/ InReach(p)
  BY <1>1, <1>10, <1>11, <1>12 DEF Seen, all
<1> QED BY <1>12, <1>14, <1>15 DEF GoesOn

-----------------------------------------------------------------------------
(* Every step of a search. *)

LEMMA FailureStep ==
    ASSUME TypeInv, SearchType, AnswerInv(search), SearchFails
    PROVE  TypeInv' /\ (GoesOn(search') \/ search' = [NoSearch EXCEPT !.pc = "failed"])
<1>1. TypeInv'
  <2>1. faults' \in 0 .. MaxFaults
    BY IndexAssumption DEF SearchFails, TypeInv
  <2>2. UNCHANGED <<pages, chunks, vectors, cache, proc>>
    BY DEF SearchFails
  <2> QED BY <2>1, <2>2 DEF TypeInv, Stored, Placed
<1>2. ASSUME search.pc = "materialize", search.fused # <<>>, search' = [Spent EXCEPT !.fused = Tail(@)]
      PROVE  GoesOn(search')
  <2> DEFINE fused == search.fused
  <2>1. /\ fused \in Seq(FusedPages) /\ search.results \in Seq(Results)
        /\ Differ(fused) /\ Differ(search.results) /\ Apart(search.results, fused)
    BY DEF SearchType, Searches, AnswerInv
  <2>2. Head(fused) \in FusedPages /\ Tail(fused) \in Seq(FusedPages)
    BY <1>2, <2>1, TailIs
  <2>3. \E e \in Results : e.page = Head(fused).page
    <3> DEFINE e == [page |-> Head(fused).page, of |-> 0, via |-> "both", parent |-> 0, score |-> 0]
    <3>1. e \in Results /\ e.page = Head(fused).page
      BY <2>2 DEF FusedPages, Results
    <3> HIDE DEF e
    <3> QED BY <3>1
  <2>4. /\ Differ(Tail(fused)) /\ Apart(search.results, Tail(fused))
        /\ PagesIn(Tail(fused)) \subseteq PagesIn(fused)
    BY <1>2, <2>1, <2>3, Taken1
  <2>5. search' = [Spent EXCEPT !.fused = Tail(fused), !.results = search.results]
    BY <1>2, SpentIs DEF Searches
  <2>6. PagesIn(Tail(fused)) \cup PagesIn(search.results)
          \subseteq PagesIn(search.fused) \cup PagesIn(search.results)
    BY <2>4
  <2>7. GoesOn([Spent EXCEPT !.fused = Tail(fused), !.results = search.results])
    BY <1>2, <2>1, <2>2, <2>4, <2>6, SpentGoesOn
  <2> QED BY <2>5, <2>7
<1> QED BY <1>1, <1>2 DEF SearchFails

LEMMA SeekStep ==
    ASSUME TypeInv, SearchType, AnswerInv(search), Seek
    PROVE  GoesOn(search') /\ UNCHANGED vars
<1>1. UNCHANGED vars
  BY DEF Seek, KeywordScan, VectorScan, Materialize, EndMaterialize, Expand, Step
<1>2. GoesOn(search')
  BY KeywordStep, VectorStep, MaterializeStep, EndMaterializeStep, ExpandStep DEF Seek
<1> QED BY <1>1, <1>2

LEMMA FailedIs ==
    LET s == [NoSearch EXCEPT !.pc = "failed"]
    IN /\ s \in Searches /\ AnswerInv(s) /\ s.pc = "failed" /\ s.gone = {}
       /\ s.results = <<>> /\ s.ranked = <<>>
<1> DEFINE s == [NoSearch EXCEPT !.pc = "failed"]
<1>1. /\ s \in Searches /\ s.pc = "failed" /\ s.gone = {} /\ s.results = <<>> /\ s.ranked = <<>>
      /\ s.keyword = <<>> /\ s.vector = <<>> /\ s.fused = <<>>
  BY NoSearchType DEF Searches, NoSearch
<1>2. Len(<<>>) = 0
  OBVIOUS
<1> HIDE DEF s
<1>3. AnswerInv(s)
  BY <1>1, <1>2 DEF AnswerInv, InRankOrder, Differ, Apart
<1> QED BY <1>1, <1>3 DEF s

LEMMA SearchStep ==
    TypeInv /\ SearchType /\ AnswerInv(search) /\ [SearchNext]_searchVars
      => TypeInv' /\ SearchType' /\ AnswerInv(search')
<1> SUFFICES ASSUME TypeInv, SearchType, AnswerInv(search), [SearchNext]_searchVars
             PROVE  TypeInv' /\ SearchType' /\ AnswerInv(search')
  OBVIOUS
<1>1. UNCHANGED vars => TypeInv'
  BY NextType
<1>2. GoesOn(search') => SearchType' /\ AnswerInv(search')
  BY DEF GoesOn, SearchType
<1>3. CASE StartSearch
  BY <1>1, <1>3, StartIs DEF StartSearch, Step
<1>4. CASE Seek
  BY <1>1, <1>2, <1>4, SeekStep
<1>5. CASE SearchFails
  BY <1>2, <1>5, FailureStep, FailedIs DEF SearchType
<1>6. CASE Around
  BY <1>6, AroundIsNext, NextType, NoSearchType DEF SearchType
<1>7. CASE UNCHANGED searchVars
  BY <1>1, <1>7 DEF searchVars, SearchType
<1> QED BY <1>3, <1>4, <1>5, <1>6, <1>7 DEF SearchNext

LEMMA SearchInvariant == SearchSpec => [](TypeInv /\ SearchType /\ AnswerInv(search))
<1>1. (AnswerInv(search))' <=> AnswerInv(search')
  BY DEF AnswerInv
<1> QED BY <1>1, SearchInitType, SearchStep, PTL DEF SearchSpec

-----------------------------------------------------------------------------
(* What is shown of a page. *)

LEMMA PlaceIs ==
    ASSUME NEW list \in Seq(Places), InRankOrder(list), NEW p
    PROVE  /\ \A n \in 1 .. Len(list) : list[n].page = p => Place(list, p) = n
           /\ (\A n \in 1 .. Len(list) : list[n].page # p) => Place(list, p) = Len(list) + 1
           /\ Len(list) \in Nat
<1> DEFINE Is(n) == /\ \A k \in 1 .. n - 1 : list[k].page # p
                    /\ n <= Len(list) => list[n].page = p
<1>1. Place(list, p) = CHOOSE n \in 1 .. Len(list) + 1 : Is(n)
  BY DEF Place
<1>2. Len(list) \in Nat
  OBVIOUS
<1>3. ASSUME NEW n \in 1 .. Len(list), list[n].page = p PROVE Place(list, p) = n
  <2>1. \A k \in 1 .. Len(list) : list[k].page = p => k = n
    BY <1>3 DEF InRankOrder
  <2>2. n \in 1 .. Len(list) + 1 /\ Is(n)
    BY <1>2, <1>3, <2>1
  <2>3. ASSUME NEW m \in 1 .. Len(list) + 1, Is(m) PROVE m = n
    <3>1. CASE m <= Len(list)
      BY <1>2, <2>1, <2>3, <3>1
    <3>2. CASE ~(m <= Len(list))
      <4>1. n \in 1 .. m - 1
        BY <1>2, <3>2
      <4> QED BY <1>3, <2>3, <4>1
    <3> QED BY <3>1, <3>2
  <2> QED BY <1>1, <2>2, <2>3
<1>4. ASSUME \A n \in 1 .. Len(list) : list[n].page # p PROVE Place(list, p) = Len(list) + 1
  <2>1. Len(list) + 1 \in 1 .. Len(list) + 1 /\ Is(Len(list) + 1)
    BY <1>2, <1>4
  <2>2. ASSUME NEW m \in 1 .. Len(list) + 1, Is(m) PROVE m = Len(list) + 1
    BY <1>2, <1>4, <2>2
  <2> QED BY <1>1, <2>1, <2>2
<1> QED BY <1>2, <1>3, <1>4

\* The entry of a fused page says where the page is in the branches' lists.
LEMMA PlacesOfEntry ==
    ASSUME NEW keyword \in Seq(Places), InRankOrder(keyword),
           NEW vector \in Seq(Places), InRankOrder(vector),
           NEW f \in FusedPages, EntryInv(f, keyword, vector, Len(vector))
    PROVE  /\ Place(keyword, f.page) = IF f.kw = 0 THEN Len(keyword) + 1 ELSE f.kw
           /\ Place(vector, f.page) = IF f.vec = 0 THEN Len(vector) + 1 ELSE f.vec
           /\ f.kw \in 0 .. Len(keyword) /\ f.vec \in 0 .. Len(vector)
<1>1. Len(keyword) \in Nat /\ Len(vector) \in Nat
  OBVIOUS
<1>2. f.kw \in 0 .. Len(keyword) /\ f.vec \in 0 .. Len(vector)
  BY DEF EntryInv
<1>3. CASE f.kw = 0
  BY <1>3, PlaceIs DEF EntryInv
<1>4. ASSUME f.kw # 0 PROVE Place(keyword, f.page) = f.kw
  <2>1. f.kw \in 1 .. Len(keyword) /\ keyword[f.kw].page = f.page
    BY <1>1, <1>2, <1>4 DEF EntryInv
  <2> QED BY <2>1, PlaceIs
<1>5. ASSUME f.vec = 0 PROVE Place(vector, f.page) = Len(vector) + 1
  BY <1>5, PlaceIs DEF EntryInv
<1>6. ASSUME f.vec # 0 PROVE Place(vector, f.page) = f.vec
  <2>1. f.vec \in 1 .. Len(vector) /\ vector[f.vec].page = f.page
    BY <1>1, <1>2, <1>6 DEF EntryInv
  <2> QED BY <2>1, PlaceIs
<1>7. Place(keyword, f.page) = IF f.kw = 0 THEN Len(keyword) + 1 ELSE f.kw
  <2>1. f.kw = 0 => Place(keyword, f.page) = Len(keyword) + 1
    BY PlaceIs DEF EntryInv
  <2> QED BY <1>4, <2>1
<1> QED BY <1>2, <1>5, <1>6, <1>7

\* In a search that has fused, ranked is what RankedFusion says it is.
LEMMA RankedNow ==
    ASSUME SearchType, AnswerInv(search), search.pc = "materialize", search.ranked # <<>>
    PROVE  /\ search.keyword \in Seq(Places) /\ InRankOrder(search.keyword)
           /\ search.vector \in Seq(Places) /\ InRankOrder(search.vector)
           /\ LimitOf(search.q) \in Nat /\ search.ranked \in Seq(FusedPages)
           /\ search.ranked = Ranked(Fuse(search.keyword, search.vector), search.q.literal,
                                     LimitOf(search.q))
           /\ \A n \in 1 .. Len(search.ranked) :
                 /\ search.ranked[n] \in FusedPages
                 /\ EntryInv(search.ranked[n], search.keyword, search.vector, Len(search.vector))
<1>1. /\ search.keyword \in Seq(Places) /\ InRankOrder(search.keyword)
      /\ search.vector \in Seq(Places) /\ InRankOrder(search.vector)
      /\ search.ranked \in Seq(FusedPages) /\ search.q \in Queries
      /\ search.ranked = Ranked(Fuse(search.keyword, search.vector), search.q.literal,
                                LimitOf(search.q))
  BY DEF SearchType, Searches, AnswerInv
<1>2. LimitOf(search.q) \in Nat
  BY <1>1, QueryTypes
<1>3. \A n \in 1 .. Len(search.ranked) :
        /\ search.ranked[n] \in FusedPages
        /\ EntryInv(search.ranked[n], search.keyword, search.vector, Len(search.vector))
  BY <1>1, <1>2, RankedFusion
<1> QED BY <1>1, <1>2, <1>3

(***************************************************************************)
(* However the index changes around it, a search gives no page twice, and  *)
(* shows of a page the chunk of the branch that ranked it higher.          *)
(***************************************************************************)
THEOREM BestChunkOnce == SearchSpec => []OneBestChunkPerPage
<1>1. ASSUME SearchType, AnswerInv(search) PROVE OneBestChunkPerPage
  <2>1. ASSUME NEW m \in DOMAIN search.results, NEW n \in DOMAIN search.results,
               search.results[m].page = search.results[n].page
        PROVE  m = n
    <3>1. DOMAIN search.results = 1 .. Len(search.results)
      BY <1>1 DEF SearchType, Searches
    <3> QED BY <1>1, <2>1, <3>1 DEF AnswerInv, Differ
  <2>2. ASSUME search.pc = "materialize", NEW n \in DOMAIN search.ranked
        PROVE  LET f == search.ranked[n]
                   k == Place(search.keyword, f.page)
                   v == Place(search.vector, f.page)
               IN f.chunk = IF v > Len(search.vector) \/ (k <= Len(search.keyword) /\ k < v)
                            THEN search.keyword[k].chunk ELSE search.vector[v].chunk
    <3> DEFINE f == search.ranked[n]
               k == Place(search.keyword, f.page)
               v == Place(search.vector, f.page)
    <3>1. search.ranked # <<>>
      BY <2>2
    <3>2. /\ search.keyword \in Seq(Places) /\ InRankOrder(search.keyword)
          /\ search.vector \in Seq(Places) /\ InRankOrder(search.vector)
          /\ search.ranked \in Seq(FusedPages)
      BY <1>1, <2>2, <3>1, RankedNow
    <3>3. n \in 1 .. Len(search.ranked)
      BY <2>2, <3>2
    <3>4. f \in FusedPages /\ EntryInv(f, search.keyword, search.vector, Len(search.vector))
      BY <1>1, <2>2, <3>1, <3>3, RankedNow
    <3> HIDE DEF f
    <3>5. /\ k = IF f.kw = 0 THEN Len(search.keyword) + 1 ELSE f.kw
          /\ v = IF f.vec = 0 THEN Len(search.vector) + 1 ELSE f.vec
          /\ f.kw \in 0 .. Len(search.keyword) /\ f.vec \in 0 .. Len(search.vector)
      BY <3>2, <3>4, PlacesOfEntry
    <3>6. f.chunk = IF f.vec # 0 /\ (f.kw = 0 \/ f.vec <= f.kw)
                    THEN search.vector[f.vec].chunk ELSE search.keyword[f.kw].chunk
      BY <3>4 DEF EntryInv
    <3>7. Len(search.keyword) \in Nat /\ Len(search.vector) \in Nat
      BY <3>2
    <3>8. f.vec # 0 \/ f.kw # 0
      BY <3>4 DEF EntryInv
    <3> HIDE DEF k, v
    <3>9. f.vec # 0 /\ (f.kw = 0 \/ f.vec <= f.kw)
            <=> ~(v > Len(search.vector) \/ (k <= Len(search.keyword) /\ k < v))
      BY <3>5, <3>7, <3>8
    <3>10. f.chunk = IF v > Len(search.vector) \/ (k <= Len(search.keyword) /\ k < v)
                     THEN search.keyword[k].chunk ELSE search.vector[v].chunk
      <4>1. CASE f.vec # 0 /\ (f.kw = 0 \/ f.vec <= f.kw)
        BY <3>5, <3>6, <3>9, <4>1
      <4>2. CASE ~(f.vec # 0 /\ (f.kw = 0 \/ f.vec <= f.kw))
        <5>1. f.kw # 0
          BY <3>8, <4>2
        <5> QED BY <3>5, <3>6, <3>9, <4>2, <5>1
      <4> QED BY <4>1, <4>2
    <3> QED BY <3>10 DEF f, k, v
  <2> QED BY <2>1, <2>2 DEF OneBestChunkPerPage
<1> QED BY <1>1, SearchInvariant, PTL

-----------------------------------------------------------------------------
(* Pages that were out of the index. *)

\* A page that no step of the index brings back.
Forgotten(p) ==
    /\ pages[p].trash
    /\ \A i \in Ids : cache[i].page # p
    /\ \A j \in proc["index"].jobs \cup {proc["index"].job} : j.page # p

\* The inductive invariant: nor is it in the hands of the search.
GoneInv == \A p \in search.gone : Forgotten(p) /\ p \notin Seen(search)

LEMMA CacheForgets ==
    ASSUME TypeInv, [Next]_vars, NEW p \in Pages, Forgotten(p), NEW i \in Ids
    PROVE  cache'[i].page # p
<1>1. cache \in [Ids -> Entries] /\ cache[i].page # p /\ p # 0
  BY IndexAssumption DEF TypeInv, Forgotten
<1>2. NoEntry.page # p
  BY <1>1 DEF NoEntry
<1>3. CASE UNCHANGED cache
  BY <1>1, <1>3
<1>4. ASSUME NEW x \in Procs, Forget(x) PROVE cache'[i].page # p
  <2>1. cache'[i] = IF i \in proc[x].gone THEN NoEntry ELSE cache[i]
    BY <1>4 DEF Forget
  <2> QED BY <1>1, <1>2, <2>1
<1>5. ASSUME NEW w \in Writers, RefreshCache(w) PROVE cache'[i].page # p
  <2>1. \/ cache'[i] = NoEntry
        \/ \E d : cache'[i] = [cache[i] EXCEPT !.edited = d]
    BY <1>5 DEF RefreshCache
  <2>2. \A d : [cache[i] EXCEPT !.edited = d].page = cache[i].page
    BY <1>1 DEF Entries
  <2> QED BY <1>1, <1>2, <2>1, <2>2
<1>6. CASE CacheVector
  <2> DEFINE j == proc["index"].job
             e == [page |-> j.page, of |-> j.of, edited |-> j.edited]
  <2>1. cache' = [cache EXCEPT ![j.id] = e]
    BY <1>6 DEF CacheVector
  <2>2. e.page # p
    BY DEF Forgotten
  <2> HIDE DEF e, j
  <2>3. cache'[i] = e \/ cache'[i] = cache[i]
    BY <1>1, <2>1
  <2> QED BY <1>1, <2>2, <2>3
<1>7. CASE Restart
  <2>1. \/ cache'[i] = NoEntry
        \/ cache'[i].page = chunks[i].page /\ ~pages[chunks[i].page].trash
    BY <1>7 DEF Restart
  <2> QED BY <1>2, <2>1 DEF Forgotten
<1>8. ASSUME NEW w \in Writers, Write(w) PROVE UNCHANGED cache
  BY <1>8 DEF Write, Upsert, Return, MarkTrashed
<1>9. ASSUME NEW x \in Procs, Rebuild(x), ~Forget(x) PROVE UNCHANGED cache
  BY <1>9 DEF Rebuild, ReadPage, ReadDigest, Commit, DropPage
<1>10. ASSUME NEW w \in Writers, Proceed(w), ~Rebuild(w), ~RefreshCache(w) PROVE UNCHANGED cache
  BY <1>10 DEF Proceed, SetContent, RefreshRead
<1>11. ASSUME IndexLoop, ~Rebuild("index"), ~CacheVector PROVE UNCHANGED cache
  BY <1>11 DEF IndexLoop, ListStale, ReindexStale, ListPending, StoreVector, EndEmbed
<1>12. ASSUME NEW x \in Procs, Fails(x) PROVE UNCHANGED cache
  BY <1>12 DEF Fails
<1>13. UNCHANGED vars => UNCHANGED cache
  BY DEF vars
<1>14. "index" \in Procs /\ Writers \subseteq Procs
  BY DEF Procs
<1> QED BY <1>3, <1>4, <1>5, <1>6, <1>7, <1>8, <1>9, <1>10, <1>11, <1>12, <1>13, <1>14 DEF Next

\* What the index goroutine has in its hands does not grow in a step of another.
LEMMA HandsOf ==
    ASSUME TypeInv, NEW x \in Procs, NEW r, Goes(x, r),
           x = "index" => r.jobs \subseteq proc["index"].jobs \cup {proc["index"].job}
                          /\ r.job \in {proc["index"].job, NoJob} \cup proc["index"].jobs
    PROVE  /\ proc'["index"].jobs \subseteq proc["index"].jobs \cup {proc["index"].job}
           /\ proc'["index"].job \in {proc["index"].job, NoJob} \cup proc["index"].jobs
<1>1. "index" \in Procs /\ proc' = [proc EXCEPT ![x] = r] /\ proc \in [Procs -> ProcRecords]
  BY DEF Procs, Goes, TypeInv
<1>2. CASE x = "index"
  <2>1. proc'["index"] = r
    BY <1>1, <1>2
  <2> QED BY <1>2, <2>1
<1>3. CASE x # "index"
  <2>1. proc'["index"] = proc["index"]
    BY <1>1, <1>3
  <2> QED BY <2>1
<1> QED BY <1>2, <1>3

LEMMA JobsForget ==
    ASSUME TypeInv, [Next]_vars, NEW p \in Pages, Forgotten(p),
           NEW j \in proc'["index"].jobs \cup {proc'["index"].job}
    PROVE  j.page # p
<1> DEFINE i == proc["index"]
           Less == /\ proc'["index"].jobs \subseteq i.jobs \cup {i.job}
                   /\ proc'["index"].job \in {i.job, NoJob} \cup i.jobs
<1>0. "index" \in Procs /\ i \in ProcRecords /\ p # 0 /\ Writers \subseteq Procs
  BY IndexAssumption DEF TypeInv, Procs
<1>1. NoJob.page # p
  BY <1>0 DEF NoJob
<1>2. CASE Less
  BY <1>1, <1>2 DEF Forgotten
<1>3. ASSUME NEW x \in Procs, NEW r, Goes(x, r), r.jobs = proc[x].jobs, r.job = proc[x].job
      PROVE  Less
  BY <1>3, HandsOf
<1>4. ASSUME NEW x \in Procs, Goes(x, Idle) PROVE Less
  <2>1. Idle.jobs = {} /\ Idle.job = NoJob
    BY DEF Idle
  <2> QED BY <1>4, <2>1, HandsOf
<1>5. ASSUME NEW x \in Procs, NEW r \in ProcRecords
      PROVE  Done(x, r).jobs = r.jobs /\ Done(x, r).job = r.job
  BY DEF Done, ProcRecords
<1>6. ASSUME NEW x \in Procs, Rebuild(x) PROVE Less
  <2> DEFINE r == proc[x]
             Same(s) == Goes(x, s) /\ s.jobs = r.jobs /\ s.job = r.job
  <2>0. r \in ProcRecords
    BY DEF TypeInv
  <2>1. CASE ReadPage(x)
    <3> DEFINE d == [r EXCEPT !.pc = "drop"]
               e == [r EXCEPT !.pc = "digest", !.body = pages[r.page].body,
                              !.meta = <<pages[r.page].meta, 0>>]
    <3>1. Goes(x, d) \/ Goes(x, e)
      BY <2>1 DEF ReadPage
    <3>2. Same(d) \/ Same(e)
      BY <2>0, <3>1 DEF ProcRecords
    <3> QED BY <1>3, <3>2
  <2>2. CASE ReadDigest(x)
    <3>1. Same([r EXCEPT !.pc = "commit", !.meta = <<@[1], pages[r.page].meta>>])
      BY <2>0, <2>2 DEF ReadDigest, ProcRecords
    <3> QED BY <1>3, <3>1
  <2>3. CASE Commit(x)
    <3>1. Goes(x, Done(x, r)) \/ \E g : Goes(x, [r EXCEPT !.pc = "forget", !.gone = g])
      BY <2>3, Zenon DEF Commit
    <3>2. Same(Done(x, r)) \/ \E g : Same([r EXCEPT !.pc = "forget", !.gone = g])
      BY <1>5, <2>0, <3>1 DEF ProcRecords
    <3> QED BY <1>3, <3>2
  <2>4. CASE DropPage(x)
    <3>1. Same([r EXCEPT !.pc = "forget", !.gone = Of(r.page),
                         !.refresh = @ \/ r.pc = "trashed"])
      BY <2>0, <2>4 DEF DropPage, ProcRecords
    <3> QED BY <1>3, <3>1
  <2>5. CASE Forget(x)
    <3>1. Same(Done(x, r))
      BY <1>5, <2>0, <2>5 DEF Forget
    <3> QED BY <1>3, <3>1
  <2> QED BY <1>6, <2>1, <2>2, <2>3, <2>4, <2>5 DEF Rebuild
<1>7. ASSUME NEW w \in Writers, Write(w) \/ Proceed(w) PROVE Less
  <2>1. w \in Procs /\ w # "index"
    BY <1>0, IndexAssumption
  <2>2. CASE Rebuild(w)
    BY <1>6, <2>1, <2>2
  <2>3. CASE ~Rebuild(w)
    <3>1. UNCHANGED proc \/ \E r : Goes(w, r)
      <4>1. ASSUME NEW q \in Pages, Upsert(w, q) \/ Return(w, q) \/ MarkTrashed(w, q) \/ SetContent(w, q)
            PROVE  UNCHANGED proc \/ \E r : Goes(w, r)
        BY <4>1, Zenon DEF Upsert, Return, MarkTrashed, SetContent
      <4>2. RefreshRead(w) \/ RefreshCache(w) => \E r : Goes(w, r)
        BY Zenon DEF RefreshRead, RefreshCache
      <4> QED BY <1>7, <2>3, <4>1, <4>2 DEF Write, Proceed
    <3>2. UNCHANGED proc => Less
      OBVIOUS
    <3> QED BY <2>1, <3>1, <3>2, HandsOf
  <2> QED BY <2>2, <2>3
<1>8. ASSUME IndexLoop, ~ListPending PROVE Less
  <2>1. CASE ListStale
    <3>0. PICK s : Goes("index", [i EXCEPT !.pc = "stale", !.ids = s])
      BY <2>1, Zenon DEF ListStale
    <3> DEFINE r == [i EXCEPT !.pc = "stale", !.ids = s]
    <3>1. Goes("index", r) /\ r.jobs = i.jobs /\ r.job = i.job
      BY <1>0, <3>0 DEF ProcRecords
    <3> HIDE DEF r
    <3> QED BY <1>0, <1>3, <3>1
  <2>2. CASE ReindexStale
    <3>1. PICK q \in i.ids : Goes("index", [i EXCEPT !.pc = "read", !.page = q, !.ids = @ \ {q}])
      BY <2>2 DEF ReindexStale
    <3> DEFINE r == [i EXCEPT !.pc = "read", !.page = q, !.ids = @ \ {q}]
    <3>2. Goes("index", r) /\ r.jobs = i.jobs /\ r.job = i.job
      BY <1>0, <3>1 DEF ProcRecords
    <3> HIDE DEF r
    <3> QED BY <1>0, <1>3, <3>2
  <2>3. CASE StoreVector
    <3>1. PICK k \in i.jobs : Goes("index", [i EXCEPT !.pc = "cache", !.jobs = @ \ {k}, !.job = k])
      BY <2>3 DEF StoreVector
    <3> DEFINE r == [i EXCEPT !.pc = "cache", !.jobs = @ \ {k}, !.job = k]
    <3>2. Goes("index", r) /\ r.jobs \subseteq i.jobs /\ r.job = k
      BY <1>0, <3>1 DEF ProcRecords
    <3> HIDE DEF r
    <3> QED BY <1>0, <3>1, <3>2, HandsOf
  <2>4. CASE CacheVector
    <3> DEFINE r == [i EXCEPT !.pc = "embed", !.job = NoJob]
    <3>1. Goes("index", r) /\ r.jobs = i.jobs /\ r.job = NoJob
      BY <1>0, <2>4 DEF CacheVector, ProcRecords
    <3> HIDE DEF r
    <3> QED BY <1>0, <3>1, HandsOf
  <2>5. CASE EndEmbed
    BY <1>0, <1>4, <2>5 DEF EndEmbed
  <2>6. CASE Rebuild("index")
    BY <1>0, <1>6, <2>6
  <2> QED BY <1>8, <2>1, <2>2, <2>3, <2>4, <2>5, <2>6 DEF IndexLoop
<1>9. CASE ListPending
  <2>1. PICK batch \in SUBSET Pending :
          Goes("index", [i EXCEPT !.pc = "embed", !.jobs = {JobOf(k) : k \in batch}])
    BY <1>9 DEF ListPending, Limited, kSubset
  <2> DEFINE r == [i EXCEPT !.pc = "embed", !.jobs = {JobOf(k) : k \in batch}]
  <2>2. proc'["index"] = r /\ r.jobs = {JobOf(k) : k \in batch} /\ r.job = i.job
    BY <1>0, <2>1 DEF Goes, TypeInv, ProcRecords
  <2> HIDE DEF r
  <2>3. ASSUME NEW k \in batch PROVE JobOf(k).page # p
    <3>1. Live(chunks[k].page) /\ JobOf(k).page = chunks[k].page
      BY DEF Pending, JobOf
    <3> QED BY <3>1 DEF Live, Forgotten
  <2> QED BY <2>2, <2>3 DEF Forgotten
<1>10. ASSUME NEW x \in Procs, Fails(x) PROVE Less
  <2> DEFINE r == proc[x]
             s == [r EXCEPT !.pc = "idle", !.refresh = FALSE, !.snap = <<>>]
  <2>1. r \in ProcRecords
    BY DEF TypeInv
  <2>2. Goes(x, Done(x, r)) \/ Goes(x, s) \/ Goes(x, Idle)
    BY <1>10 DEF Fails
  <2>3. s.jobs = r.jobs /\ s.job = r.job
    BY <2>1 DEF ProcRecords
  <2> HIDE DEF s
  <2> QED BY <1>3, <1>4, <1>5, <2>1, <2>2, <2>3
<1>11. CASE Restart
  <2>1. proc'["index"] = Idle
    BY <1>0, <1>11 DEF Restart
  <2> QED BY <1>1, <2>1 DEF Idle
<1>12. CASE UNCHANGED vars
  BY <1>2, <1>12 DEF vars
<1> QED BY <1>2, <1>7, <1>8, <1>9, <1>10, <1>11, <1>12 DEF Next

LEMMA StepForgets ==
    ASSUME TypeInv, Returning = {}, [Next]_vars, NEW p \in Pages, Forgotten(p)
    PROVE  Forgotten(p)'
<1>1. pages'[p].trash
  BY StepKeepsTrash DEF KeepsTrash, Forgotten
<1>2. \A i \in Ids : cache'[i].page # p
  BY CacheForgets
<1>3. \A j \in proc'["index"].jobs \cup {proc'["index"].job} : j.page # p
  BY JobsForget
<1> QED BY <1>1, <1>2, <1>3 DEF Forgotten

LEMMA StepGone ==
    ASSUME TypeInv, SearchType, AnswerInv(search), GoneInv, Returning = {},
           [SearchNext]_searchVars
    PROVE  GoneInv'
<1> SUFFICES ASSUME NEW p \in search'.gone PROVE Forgotten(p)' /\ p \notin Seen(search')
  BY DEF GoneInv, Seen
<1>0. search'.gone \subseteq Pages
  BY SearchStep DEF SearchType, Searches
<1>1. ASSUME UNCHANGED vars, Forgotten(p) PROVE Forgotten(p)'
  BY <1>1 DEF vars, Forgotten
<1>2. ASSUME GoesOn(search'), Forgotten(p), p \notin Seen(search) PROVE p \notin Seen(search')
  <2>1. ~InReach(p)
    BY <1>2 DEF InReach, Forgotten, Live
  <2> QED BY <1>2, <2>1 DEF GoesOn
<1>3. CASE StartSearch
  <2>1. p \in {q \in Pages : OutOfIndex(q)} /\ Seen(search') = {}
    BY <1>3, StartIs
  <2>2. UNCHANGED vars
    BY <1>3 DEF StartSearch, Step
  <2>3. Forgotten(p)
    BY <2>1 DEF OutOfIndex, AtWork, Forgotten
  <2> QED BY <1>1, <2>1, <2>2, <2>3
<1>4. CASE Seek
  <2>1. GoesOn(search') /\ UNCHANGED vars
    BY <1>4, SeekStep
  <2>2. Forgotten(p) /\ p \notin Seen(search)
    BY <2>1 DEF GoesOn, GoneInv
  <2> QED BY <1>1, <1>2, <2>1, <2>2
<1>5. CASE SearchFails
  <2>1. GoesOn(search')
    BY <1>5, FailureStep, FailedIs
  <2>2. Forgotten(p) /\ p \notin Seen(search)
    BY <2>1 DEF GoesOn, GoneInv
  <2>3. UNCHANGED <<pages, cache, proc>>
    BY <1>5 DEF SearchFails
  <2>4. Forgotten(p)'
    BY <2>2, <2>3 DEF Forgotten
  <2> QED BY <1>2, <2>1, <2>2, <2>4
<1>6. CASE Around
  <2>1. Next /\ search' = search
    BY <1>6, AroundIsNext, NoSearchType
  <2>2. Forgotten(p) /\ p \notin Seen(search)
    BY <2>1 DEF GoneInv
  <2> QED BY <1>0, <2>1, <2>2, StepForgets
<1>7. CASE UNCHANGED searchVars
  BY <1>1, <1>7 DEF searchVars, GoneInv
<1> QED BY <1>3, <1>4, <1>5, <1>6, <1>7 DEF SearchNext

(***************************************************************************)
(* A page that was trashed and out of the cache when a search began is not *)
(* in its answer, whatever is reindexed, embedded, dropped or restarted    *)
(* meanwhile and whichever statement fails, unless the page comes back.    *)
(***************************************************************************)
THEOREM TrashedStaysOut ==
    ASSUME Returning = {}
    PROVE  SearchSpec => []DroppedIsNotFound
<1>1. SearchInit => GoneInv
  BY NoSearchType DEF SearchInit, GoneInv
<1>2. TypeInv /\ SearchType /\ AnswerInv(search) /\ GoneInv /\ [SearchNext]_searchVars => GoneInv'
  BY StepGone
<1>3. SearchType /\ GoneInv => DroppedIsNotFound
  <2> SUFFICES ASSUME SearchType, GoneInv, NEW n \in DOMAIN search.results
               PROVE  search.results[n].page \notin search.gone
    BY DEF DroppedIsNotFound
  <2>1. DOMAIN search.results = 1 .. Len(search.results)
    BY DEF SearchType, Searches
  <2>2. search.results[n].page \in Seen(search)
    BY <2>1 DEF Seen, PagesIn
  <2> QED BY <2>2 DEF GoneInv
<1> QED BY <1>1, <1>2, <1>3, SearchInvariant, PTL DEF SearchSpec

-----------------------------------------------------------------------------
(* The order of the answer. *)

LEMMA ShareIs ==
    ASSUME NEW w \in Nat, NEW r \in Nat, NEW s \in Nat, s = 0 \/ (r # 0 /\ r <= s)
    PROVE  Share(w, s) \in Nat /\ Share(w, r) \in Nat /\ Share(w, s) <= Share(w, r)
<1>1. Scale \in Nat /\ RrfK \in Nat \ {0}
  BY RankingAssumption
<1>2. RrfK + r \in Nat \ {0} /\ RrfK + s \in Nat \ {0}
  BY <1>1
<1> DEFINE a == Scale \div (RrfK + r)
           b == Scale \div (RrfK + s)
<1>3. a \in Nat /\ b \in Nat
  BY <1>1, <1>2, DivFacts
<1>4. ASSUME r <= s PROVE b <= a
  <2>1. RrfK + r <= RrfK + s
    BY <1>1, <1>4
  <2> QED BY <1>1, <1>2, <2>1, DivDown
<1>5. Share(w, r) = IF r = 0 THEN 0 ELSE w * a
  BY DEF Share
<1>6. Share(w, s) = IF s = 0 THEN 0 ELSE w * b
  BY DEF Share
<1> HIDE DEF a, b
<1>7. ASSUME NEW d \in Nat PROVE w * d \in Nat
  OBVIOUS
<1>8. w * a \in Nat /\ w * b \in Nat
  BY <1>3, <1>7
<1>9. ASSUME b <= a PROVE w * b <= w * a
  <2>1. b * w <= a * w
    BY <1>3, <1>9, TimesLeq
  <2>2. b * w = w * b /\ a * w = w * a
    BY <1>3
  <2> QED BY <2>1, <2>2
<1> QED BY <1>4, <1>5, <1>6, <1>8, <1>9

\* A page that is nowhere behind scores no less.
LEMMA ScoreUp ==
    ASSUME NEW f \in FusedPages, NEW g \in FusedPages, NEW literal,
           g.kw = 0 \/ (f.kw # 0 /\ f.kw <= g.kw),
           g.vec = 0 \/ (f.vec # 0 /\ f.vec <= g.vec)
    PROVE  Score(g, literal) <= Score(f, literal)
<1>1. VectorWeight \in Nat /\ KeywordWeightFor(literal) \in Nat
  BY RankingAssumption DEF KeywordWeightFor
<1>2. f.kw \in Nat /\ f.vec \in Nat /\ g.kw \in Nat /\ g.vec \in Nat
  BY DEF FusedPages
<1>3. /\ Share(VectorWeight, g.vec) \in Nat /\ Share(VectorWeight, f.vec) \in Nat
      /\ Share(VectorWeight, g.vec) <= Share(VectorWeight, f.vec)
  BY <1>1, <1>2, ShareIs
<1>4. /\ Share(KeywordWeightFor(literal), g.kw) \in Nat
      /\ Share(KeywordWeightFor(literal), f.kw) \in Nat
      /\ Share(KeywordWeightFor(literal), g.kw) <= Share(KeywordWeightFor(literal), f.kw)
  BY <1>1, <1>2, ShareIs
<1> QED BY <1>3, <1>4 DEF Score

\* Of two entries of the fusion, the one nowhere behind comes first in the sort.
LEMMA AheadComesFirst ==
    ASSUME NEW keyword \in Seq(Places), NEW vector \in Seq(Places),
           NEW fused \in Seq(FusedPages), FusedInv(fused, keyword, vector, Len(vector)),
           NEW literal, NEW k \in 1 .. Len(fused), NEW l \in 1 .. Len(fused), k # l,
           fused[l].kw = 0 \/ (fused[k].kw # 0 /\ fused[k].kw < fused[l].kw),
           fused[l].vec = 0 \/ (fused[k].vec # 0 /\ fused[k].vec < fused[l].vec)
    PROVE  <<k, l>> \in ScoreOrder(fused, literal)
<1>1. /\ k \in Nat /\ l \in Nat /\ Len(keyword) \in Nat
      /\ fused[k] \in FusedPages /\ fused[l] \in FusedPages /\ DOMAIN fused = 1 .. Len(fused)
  OBVIOUS
<1>2. /\ fused[k].kw \in Nat /\ fused[l].kw \in Nat
      /\ fused[k].vec \in Nat /\ fused[l].vec \in Nat
  BY <1>1 DEF FusedPages
<1>3. Score(fused[l], literal) <= Score(fused[k], literal)
  BY <1>1, <1>2, ScoreUp
<1>4. Score(fused[l], literal) \in Nat /\ Score(fused[k], literal) \in Nat
  BY <1>1, ScoreType
<1>5. k < l
  <2>1. /\ fused[k].kw = IF k <= Len(keyword) THEN k ELSE 0
        /\ fused[l].kw = IF l <= Len(keyword) THEN l ELSE 0
    BY DEF FusedInv
  <2>2. CASE l <= Len(keyword)
    BY <1>1, <2>1, <2>2
  <2>3. CASE ~(l <= Len(keyword)) /\ k <= Len(keyword)
    BY <1>1, <2>3
  <2>4. CASE ~(l <= Len(keyword)) /\ ~(k <= Len(keyword))
    <3>1. fused[l].vec # 0
      <4>1. fused[l].kw = 0 /\ EntryInv(fused[l], keyword, vector, Len(vector))
        BY <2>1, <2>4 DEF FusedInv
      <4> QED BY <4>1 DEF EntryInv
    <3>2. fused[k].vec < fused[l].vec
      BY <3>1
    <3>3. ASSUME l < k PROVE FALSE
      <4>1. Len(keyword) < l
        BY <1>1, <2>4
      <4>2. fused[l].vec < fused[k].vec
        BY <3>3, <4>1 DEF FusedInv
      <4> QED BY <1>2, <3>2, <4>2
    <3> QED BY <1>1, <3>3
  <2> QED BY <2>2, <2>3, <2>4
<1> DEFINE s == [n \in DOMAIN fused |-> Score(fused[n], literal)]
<1>6. ScoreOrder(fused, literal) =
        {e \in (DOMAIN fused) \X (DOMAIN fused) :
           s[e[1]] > s[e[2]] \/ (s[e[1]] = s[e[2]] /\ e[1] < e[2])}
  BY DEF ScoreOrder
<1>7. s[k] = Score(fused[k], literal) /\ s[l] = Score(fused[l], literal)
  BY <1>1
<1>8. s[k] > s[l] \/ (s[k] = s[l] /\ k < l)
  BY <1>3, <1>4, <1>5, <1>7
<1> HIDE DEF s
<1>9. <<k, l>> \in (DOMAIN fused) \X (DOMAIN fused)
  BY <1>1
<1> QED BY <1>6, <1>8, <1>9

\* A page ahead in a list of another that is in it is in the list, before it.
LEMMA AheadIs ==
    ASSUME NEW list \in Seq(Places), InRankOrder(list), NEW a, NEW b, NEW n \in 1 .. Len(list),
           list[n].page = b, Place(list, a) < Place(list, b)
    PROVE  /\ Place(list, a) \in 1 .. Len(list) /\ Place(list, a) < n
           /\ list[Place(list, a)].page = a
<1>1. Place(list, b) = n /\ Len(list) \in Nat
  BY PlaceIs
<1>2. PICK m \in 1 .. Len(list) : list[m].page = a
  <2>1. CASE \A m \in 1 .. Len(list) : list[m].page # a
    BY <1>1, <2>1, PlaceIs
  <2> QED BY <2>1
<1>3. Place(list, a) = m
  BY <1>2, PlaceIs
<1> QED BY <1>1, <1>2, <1>3

\* a is ahead of b in the list, or b is not in it.
IsAhead(list, a, b) == Place(list, b) = Len(list) + 1 \/ Place(list, a) < Place(list, b)

\* Whatever is ahead of an element of list is before it in list.
InOrder(list, keyword, vector) ==
    \A a : \A n \in 1 .. Len(list) :
       /\ list[n].page # a
       /\ IsAhead(keyword, a, list[n].page) /\ IsAhead(vector, a, list[n].page)
       => \E m \in 1 .. n - 1 : list[m].page = a

LEMMA AheadInFusion ==
    ASSUME NEW keyword \in Seq(Places), InRankOrder(keyword),
           NEW vector \in Seq(Places), InRankOrder(vector),
           NEW literal, NEW limit \in Nat
    PROVE  InOrder(Ranked(Fuse(keyword, vector), literal, limit), keyword, vector)
<1> DEFINE list == Ranked(Fuse(keyword, vector), literal, limit)
<1> SUFFICES ASSUME NEW a, NEW n \in 1 .. Len(list), list[n].page # a,
                    IsAhead(keyword, a, list[n].page), IsAhead(vector, a, list[n].page)
             PROVE  \E m \in 1 .. n - 1 : list[m].page = a
  BY DEF InOrder
<1> DEFINE fused == Fuse(keyword, vector)
           b == list[n].page
<1>1. fused \in Seq(FusedPages) /\ FusedInv(fused, keyword, vector, Len(vector))
  BY FuseIs
<1>2. PICK order \in [1 .. Len(list) -> 1 .. Len(fused)] : Sorts(order, list, fused, literal)
  BY <1>1, RankedIs
<1>3. list \in Seq(FusedPages) /\ Len(list) \in Nat
  BY <1>1, RankedIs
<1> HIDE DEF fused, list
<1> DEFINE l == order[n]
           g == fused[l]
<1>4. l \in 1 .. Len(fused) /\ list[n] = g
  BY <1>2 DEF Sorts
<1>5. g \in FusedPages /\ EntryInv(g, keyword, vector, Len(vector)) /\ g.page = b
  BY <1>1, <1>4 DEF FusedInv
<1>6. /\ Place(keyword, b) = IF g.kw = 0 THEN Len(keyword) + 1 ELSE g.kw
      /\ Place(vector, b) = IF g.vec = 0 THEN Len(vector) + 1 ELSE g.vec
      /\ g.kw \in 0 .. Len(keyword) /\ g.vec \in 0 .. Len(vector)
      /\ Len(keyword) \in Nat /\ Len(vector) \in Nat
  BY <1>5, PlacesOfEntry
<1>7. g.kw # 0 \/ g.vec # 0
  BY <1>5 DEF EntryInv
<1> HIDE DEF g, b
<1>8. ASSUME g.kw # 0
      PROVE  /\ Place(keyword, a) \in 1 .. Len(keyword) /\ Place(keyword, a) < g.kw
             /\ keyword[Place(keyword, a)].page = a
  <2>1. g.kw \in 1 .. Len(keyword) /\ keyword[g.kw].page = b
    BY <1>5, <1>6, <1>8 DEF EntryInv
  <2>2. Place(keyword, a) < Place(keyword, b)
    BY <1>6, <1>8, <2>1 DEF b, IsAhead
  <2> QED BY <2>1, <2>2, AheadIs
<1>9. ASSUME g.vec # 0
      PROVE  /\ Place(vector, a) \in 1 .. Len(vector) /\ Place(vector, a) < g.vec
             /\ vector[Place(vector, a)].page = a
  <2>1. g.vec \in 1 .. Len(vector) /\ vector[g.vec].page = b
    BY <1>5, <1>6, <1>9 DEF EntryInv
  <2>2. Place(vector, a) < Place(vector, b)
    BY <1>6, <1>9, <2>1 DEF b, IsAhead
  <2> QED BY <2>1, <2>2, AheadIs
<1>10. PICK k \in 1 .. Len(fused) : fused[k].page = a
  <2>1. CASE g.kw # 0
    <3> DEFINE k == Place(keyword, a)
    <3>1. k \in 1 .. Len(keyword) /\ keyword[k].page = a
      BY <1>8, <2>1
    <3>2. k \in 1 .. Len(fused) /\ k <= Len(keyword) /\ k # 0
      BY <1>1, <1>6, <3>1 DEF FusedInv
    <3>3. fused[k].kw = k /\ EntryInv(fused[k], keyword, vector, Len(vector))
      BY <1>1, <3>2 DEF FusedInv
    <3>4. keyword[k].page = fused[k].page
      BY <3>2, <3>3 DEF EntryInv
    <3> QED BY <3>1, <3>2, <3>4
  <2>2. CASE g.vec # 0
    <3> DEFINE j == Place(vector, a)
    <3>1. j \in 1 .. Len(vector) /\ vector[j].page = a
      BY <1>9, <2>2
    <3>2. PICK k \in 1 .. Len(fused) : fused[k].vec = j
      BY <1>1, <3>1 DEF FusedInv
    <3>3. EntryInv(fused[k], keyword, vector, Len(vector)) /\ fused[k].vec # 0
      BY <1>1, <3>1, <3>2 DEF FusedInv
    <3>4. vector[j].page = fused[k].page
      BY <3>2, <3>3 DEF EntryInv
    <3> QED BY <3>1, <3>4
  <2> QED BY <1>7, <2>1, <2>2
<1> DEFINE f == fused[k]
<1>11. f \in FusedPages /\ EntryInv(f, keyword, vector, Len(vector)) /\ f.page = a
  BY <1>1, <1>10 DEF FusedInv
<1>12. /\ Place(keyword, a) = IF f.kw = 0 THEN Len(keyword) + 1 ELSE f.kw
       /\ Place(vector, a) = IF f.vec = 0 THEN Len(vector) + 1 ELSE f.vec
       /\ f.kw \in 0 .. Len(keyword) /\ f.vec \in 0 .. Len(vector)
  BY <1>11, PlacesOfEntry
<1>13. k # l
  BY <1>5, <1>11 DEF g, b
<1> HIDE DEF f
<1>14. g.kw = 0 \/ (f.kw # 0 /\ f.kw < g.kw)
  BY <1>6, <1>8, <1>12
<1>15. g.vec = 0 \/ (f.vec # 0 /\ f.vec < g.vec)
  BY <1>6, <1>9, <1>12
<1>16. <<k, l>> \in ScoreOrder(fused, literal)
  BY <1>1, <1>4, <1>13, <1>14, <1>15, AheadComesFirst DEF f, g
<1>17. PICK m \in 1 .. n - 1 : order[m] = k
  BY <1>2, <1>10, <1>16 DEF Sorts
<1>18. m \in 1 .. Len(list) /\ list[m] = fused[k]
  BY <1>2, <1>3, <1>17 DEF Sorts
<1> QED BY <1>10, <1>17, <1>18

(***************************************************************************)
(* For any weights, depths and rank constant, a page that is ahead of      *)
(* another in every branch that found the other is ahead of it in the      *)
(* answer; the cut never takes the one that was ahead.                     *)
(***************************************************************************)
THEOREM AheadStaysAhead == SearchSpec => []AheadInBothIsAhead
<1>1. ASSUME SearchType, AnswerInv(search) PROVE AheadInBothIsAhead
  <2>1. ASSUME search.pc = "materialize", NEW a \in Pages, NEW n \in DOMAIN search.ranked,
               a # search.ranked[n].page,
               IsAhead(search.keyword, a, search.ranked[n].page),
               IsAhead(search.vector, a, search.ranked[n].page)
        PROVE  \E m \in 1 .. n - 1 : search.ranked[m].page = a
    <3> DEFINE list == search.ranked
               keyword == search.keyword
               vector == search.vector
               literal == search.q.literal
               limit == LimitOf(search.q)
    <3>1. search.ranked # <<>>
      BY <2>1
    <3>2. /\ keyword \in Seq(Places) /\ InRankOrder(keyword)
          /\ vector \in Seq(Places) /\ InRankOrder(vector)
          /\ limit \in Nat /\ list \in Seq(FusedPages)
          /\ list = Ranked(Fuse(keyword, vector), literal, limit)
      BY <1>1, <2>1, <3>1, RankedNow
    <3>3. n \in 1 .. Len(list)
      BY <2>1, <3>2
    <3>4. list[n].page # a /\ IsAhead(keyword, a, list[n].page) /\ IsAhead(vector, a, list[n].page)
      BY <2>1
    <3> HIDE DEF list, keyword, vector, literal, limit
    <3>5. InOrder(list, keyword, vector)
      BY <3>2, AheadInFusion
    <3>6. \E m \in 1 .. n - 1 : list[m].page = a
      BY <3>3, <3>4, <3>5 DEF InOrder
    <3> QED BY <3>6 DEF list
  <2> QED BY <2>1 DEF AheadInBothIsAhead, IsAhead
<1> QED BY <1>1, SearchInvariant, PTL

-----------------------------------------------------------------------------
(***************************************************************************)
(* The branches' lists are full.  topPages stops at its limit or has each  *)
(* page of its hits, so its length is the smaller of the limit and the     *)
(* number of pages.  The keyword scan may be cut before; but while no page *)
(* has more than Oversample chunks that match, limit * Oversample of them  *)
(* are chunks of limit pages at least.                                     *)
(***************************************************************************)

Values(f, m) == {f[n] : n \in 1 .. m}
Distinct(f, m) == \A i, j \in 1 .. m : f[i] = f[j] => i = j

LEMMA ValuesOf ==
    ASSUME NEW m \in Nat, NEW f
    PROVE  /\ IsFiniteSet(Values(f, m))
           /\ Distinct(f, m) => Cardinality(Values(f, m)) = m
<1> DEFINE g == [n \in 1 .. m |-> f[n]]
<1>1. IsFiniteSet(1 .. m) /\ Cardinality(1 .. m) = m
  BY FS_Interval
<1>2. g \in Surjection(1 .. m, Values(f, m))
  BY DEF Surjection, Values
<1>3. /\ IsFiniteSet(Values(f, m))
      /\ Cardinality(Values(f, m)) = Cardinality(1 .. m) <=> g \in Injection(1 .. m, Values(f, m))
  BY <1>1, <1>2, FS_Surjection
<1>4. Distinct(f, m) => g \in Injection(1 .. m, Values(f, m))
  BY DEF Injection, IsInjective, Values, Distinct
<1> QED BY <1>1, <1>3, <1>4

LEMMA PagesCount ==
    ASSUME NEW list, Len(list) \in Nat
    PROVE  /\ IsFiniteSet(PagesIn(list)) /\ Cardinality(PagesIn(list)) \in Nat
           /\ InRankOrder(list) => Cardinality(PagesIn(list)) = Len(list)
<1> DEFINE f == [n \in 1 .. Len(list) |-> list[n].page]
<1>1. PagesIn(list) = Values(f, Len(list))
  BY DEF PagesIn, Values
<1>2. InRankOrder(list) => Distinct(f, Len(list))
  BY DEF InRankOrder, Distinct
<1> HIDE DEF f
<1>3. /\ IsFiniteSet(PagesIn(list))
      /\ InRankOrder(list) => Cardinality(PagesIn(list)) = Len(list)
  BY <1>1, <1>2, ValuesOf
<1> QED BY <1>3, FS_CardinalityType

LEMMA LeastIs ==
    ASSUME NEW n \in Nat, NEW a \in Nat, NEW b \in Nat, n <= a, n <= b, n = a \/ n = b
    PROVE  n = Least(a, b)
BY DEF Least

LEMMA TopPagesLength ==
    ASSUME NEW hits \in Seq(Hits), NEW limit \in Nat
    PROVE  Len(TopPages(hits, limit)) = Least(limit, Cardinality(PagesIn(hits)))
<1> DEFINE list == TopPages(hits, limit)
<1>1. list \in Seq(Places) /\ KeptInv(list, hits, limit, Len(hits))
  BY TopPagesIs
<1> HIDE DEF list
<1>2. Len(list) \in Nat /\ Len(hits) \in Nat
  BY <1>1
<1>3. PagesIn(list) \subseteq PagesIn(hits)
  BY <1>1, BranchIs DEF list
<1>4. /\ IsFiniteSet(PagesIn(hits)) /\ Cardinality(PagesIn(hits)) \in Nat
      /\ Cardinality(PagesIn(list)) = Len(list)
  BY <1>1, <1>2, PagesCount DEF KeptInv
<1>5. Len(list) <= Cardinality(PagesIn(hits)) /\ Len(list) <= limit
  BY <1>1, <1>3, <1>4, FS_Subset DEF KeptInv
<1>6. CASE Len(list) < limit
  <2>1. \A j \in 1 .. Len(hits) : \E k \in 1 .. Len(list) : list[k].page = hits[j].page
    BY <1>1, <1>6 DEF KeptInv
  <2>2. PagesIn(hits) \subseteq PagesIn(list)
    BY <2>1 DEF PagesIn
  <2>3. PagesIn(list) = PagesIn(hits)
    BY <1>3, <2>2
  <2>4. Len(list) = Cardinality(PagesIn(hits))
    BY <1>4, <2>3
  <2> QED BY <1>2, <1>4, <1>5, <2>4, LeastIs DEF list
<1>7. CASE ~(Len(list) < limit)
  <2>1. Len(list) = limit
    BY <1>2, <1>5, <1>7
  <2> QED BY <1>2, <1>4, <1>5, <2>1, LeastIs DEF list
<1> QED BY <1>6, <1>7

\* Hits with at most w chunks of each page are of so many pages at least.
LEMMA Spread ==
    ASSUME NEW G \in SUBSET Hits, IsFiniteSet(G), NEW w \in Nat,
           \A g, h \in G : g.chunk = h.chunk => g = h,
           \A p : Cardinality({h \in G : h.page = p}) <= w
    PROVE  Cardinality(G) <= Cardinality({h.page : h \in G}) * w
<1> DEFINE P == {h.page : h \in G}
           UpTo(h) == {g \in G : g.page = h.page /\ g.chunk <= h.chunk}
           f == [h \in G |-> <<h.page, Cardinality(UpTo(h))>>]
<1>1. \A h \in G : h.chunk \in Int
  BY IndexAssumption DEF Hits, Ids
<1>2. ASSUME NEW h \in G
      PROVE  /\ IsFiniteSet(UpTo(h)) /\ h \in UpTo(h)
             /\ Cardinality(UpTo(h)) \in 1 .. w
  <2>1. IsFiniteSet({g \in G : g.page = h.page})
    BY FS_Subset
  <2>2. UpTo(h) \in SUBSET {g \in G : g.page = h.page} /\ UpTo(h) \in SUBSET G
    OBVIOUS
  <2>3. h \in UpTo(h)
    BY <1>1
  <2>4. IsFiniteSet(UpTo(h)) /\ Cardinality(UpTo(h)) <= Cardinality({g \in G : g.page = h.page})
    BY <2>1, <2>2, FS_Subset
  <2>5. Cardinality(UpTo(h)) \in Nat /\ Cardinality(UpTo(h)) # 0
    BY <2>3, <2>4, FS_CardinalityType, FS_EmptySet
  <2>6. /\ Cardinality({g \in G : g.page = h.page}) \in Nat
        /\ Cardinality({g \in G : g.page = h.page}) <= w
    BY <2>1, FS_CardinalityType
  <2> HIDE DEF UpTo
  <2> QED BY <2>3, <2>4, <2>5, <2>6
<1>3. ASSUME NEW g \in G, NEW h \in G, f[g] = f[h] PROVE g = h
  <2>1. g.page = h.page /\ Cardinality(UpTo(g)) = Cardinality(UpTo(h))
    BY <1>3
  <2>2. CASE g.chunk <= h.chunk
    <3>1. UpTo(g) \in SUBSET UpTo(h)
      BY <1>1, <2>1, <2>2
    <3>2. UpTo(h) = UpTo(g)
      BY <1>2, <2>1, <3>1, FS_Subset
    <3>3. h.chunk <= g.chunk
      BY <1>2, <3>2
    <3> QED BY <1>1, <2>2, <3>3
  <2>3. CASE h.chunk <= g.chunk
    <3>1. UpTo(h) \in SUBSET UpTo(g)
      BY <1>1, <2>1, <2>3
    <3>2. UpTo(h) = UpTo(g)
      BY <1>2, <2>1, <3>1, FS_Subset
    <3>3. g.chunk <= h.chunk
      BY <1>2, <3>2
    <3> QED BY <1>1, <2>3, <3>3
  <2> QED BY <1>1, <2>2, <2>3
<1>4. P = {h.page : h \in G} /\ IsFiniteSet(P)
  <2> DEFINE page == [h \in G |-> h.page]
  <2>1. page \in Surjection(G, P)
    BY DEF Surjection
  <2> QED BY <2>1, FS_Surjection
<1>5. f \in Injection(G, P \X (1 .. w))
  <2>1. \A h \in G : f[h] \in P \X (1 .. w)
    BY <1>2
  <2>2. f \in [G -> P \X (1 .. w)]
    BY <2>1
  <2> HIDE DEF f
  <2> QED BY <1>3, <2>2 DEF Injection, IsInjective
<1>6. IsFiniteSet(1 .. w) /\ Cardinality(1 .. w) = w
  BY FS_Interval
<1>7. IsFiniteSet(P \X (1 .. w)) /\ Cardinality(P \X (1 .. w)) = Cardinality(P) * w
  BY <1>4, <1>6, FS_Product
<1> HIDE DEF f, P
<1>8. Cardinality(G) <= Cardinality(P \X (1 .. w))
  BY <1>5, <1>7, FS_Injection
<1> QED BY <1>4, <1>7, <1>8

LEMMA AtLeast ==
    ASSUME NEW a \in Nat, NEW b \in Nat, NEW w \in Nat \ {0}, a * w <= b * w
    PROVE  a <= b
<1> SUFFICES ASSUME b + 1 <= a PROVE FALSE
  OBVIOUS
<1>1. a * w >= (b + 1) * w
  BY TimesLeq
<1> QED BY <1>1

\* The list of as many hits as are read, if no page has too many of them.
LEMMA FirstHitsFill ==
    ASSUME NEW all \in Seq(Hits), NEW hits \in Seq(Hits),
           NEW asked \in Nat, NEW w \in Nat \ {0},
           \A i, j \in 1 .. Len(all) : all[i].chunk = all[j].chunk => i = j,
           \A p : Cardinality({h \in {all[n] : n \in 1 .. Len(all)} : h.page = p}) <= w,
           Len(hits) = Least(Len(all), asked * w),
           \A n \in 1 .. Len(hits) : hits[n] = all[n]
    PROVE  Len(TopPages(hits, asked)) = Least(asked, Cardinality(PagesIn(all)))
<1> DEFINE found == {all[n] : n \in 1 .. Len(all)}
           G == {hits[n] : n \in 1 .. Len(hits)}
           depth == asked * w
<1>1. depth \in Nat /\ Len(all) \in Nat /\ Len(hits) \in Nat
  OBVIOUS
<1> HIDE DEF depth
<1>2. Len(TopPages(hits, asked)) = Least(asked, Cardinality(PagesIn(hits)))
  BY TopPagesLength
<1>3. Len(hits) <= Len(all) /\ (Len(hits) = Len(all) \/ Len(hits) = depth)
  BY <1>1 DEF Least, depth
<1>4. \A n \in 1 .. Len(hits) : n \in 1 .. Len(all) /\ hits[n] = all[n]
  BY <1>1, <1>3
<1>5. CASE Len(hits) = Len(all)
  <2>1. PagesIn(hits) = PagesIn(all)
    BY <1>4, <1>5 DEF PagesIn
  <2> QED BY <1>2, <2>1
<1>6. CASE Len(hits) = depth
  <2>1. \A j, k \in 1 .. Len(hits) : hits[j].chunk = hits[k].chunk => j = k
    BY <1>4
  <2>2. IsFiniteSet(G) /\ Cardinality(G) = depth
    <3>1. Distinct(hits, Len(hits))
      BY <2>1 DEF Distinct
    <3>2. G = Values(hits, Len(hits))
      BY DEF Values
    <3> HIDE DEF G
    <3> QED BY <1>1, <1>6, <3>1, <3>2, ValuesOf
  <2>3. IsFiniteSet(found)
    BY <1>1, ValuesOf DEF Values
  <2>4. G \in SUBSET found
    BY <1>4
  <2>5. G \in SUBSET Hits
    BY <1>1
  <2>6. \A g, h \in G : g.chunk = h.chunk => g = h
    BY <2>1
  <2>7. {h.page : h \in G} = PagesIn(hits)
    BY DEF PagesIn
  <2>8. \A p : Cardinality({h \in found : h.page = p}) <= w
    OBVIOUS
  <2> HIDE DEF G, found
  <2>9. \A p : Cardinality({h \in G : h.page = p}) <= w
    <3> TAKE p
    <3> DEFINE few == {h \in G : h.page = p}
               many == {h \in found : h.page = p}
    <3>1. IsFiniteSet(many)
      BY <2>3, FS_Subset
    <3>2. few \in SUBSET many
      BY <2>4
    <3> HIDE DEF few, many
    <3>3. IsFiniteSet(few) /\ Cardinality(few) <= Cardinality(many)
      BY <3>1, <3>2, FS_Subset
    <3>4. Cardinality(few) \in Nat /\ Cardinality(many) \in Nat
      BY <3>1, <3>3, FS_CardinalityType
    <3>5. Cardinality(many) <= w
      BY <2>8 DEF many
    <3>6. Cardinality(few) <= w
      BY <3>3, <3>4, <3>5
    <3> QED BY <3>6 DEF few
  <2>10. asked * w <= Cardinality(PagesIn(hits)) * w
    BY <2>2, <2>5, <2>6, <2>7, <2>9, Spread DEF depth
  <2>11. /\ IsFiniteSet(PagesIn(hits)) /\ Cardinality(PagesIn(hits)) \in Nat
         /\ IsFiniteSet(PagesIn(all)) /\ Cardinality(PagesIn(all)) \in Nat
    BY <1>1, PagesCount
  <2>12. asked <= Cardinality(PagesIn(hits))
    BY <2>10, <2>11, AtLeast
  <2>13. PagesIn(hits) \in SUBSET PagesIn(all)
    BY <1>4 DEF PagesIn
  <2>14. Cardinality(PagesIn(hits)) <= Cardinality(PagesIn(all))
    BY <2>11, <2>13, FS_Subset
  <2> DEFINE some == Cardinality(PagesIn(hits))
             most == Cardinality(PagesIn(all))
  <2>15. some \in Nat /\ most \in Nat /\ asked <= some /\ some <= most
    BY <2>11, <2>12, <2>14
  <2> HIDE DEF some, most
  <2>16. Least(asked, some) = asked /\ Least(asked, most) = asked
    BY <2>15 DEF Least
  <2> QED BY <1>2, <2>16 DEF some, most
<1> QED BY <1>3, <1>5, <1>6

\* What the scan of a statement reads, of the chunks that match in their order.
HitsIn(ids, home) == [n \in DOMAIN ids |-> HitOf(ids[n], home[ids[n]])]
Read(ids, depth) == SubSeq(ids, 1, Least(Len(ids), depth))
FoundIn(m, home) == {HitOf(i, home[i]) : i \in m}

LEMMA OrderHasAll ==
    ASSUME NEW m \in SUBSET Ids, NEW ids \in SetToSeqs(m)
    PROVE  /\ ids \in Seq(Ids) /\ Len(ids) \in Nat /\ \A n \in 1 .. Len(ids) : ids[n] \in m
           /\ \A i, j \in 1 .. Len(ids) : ids[i] = ids[j] => i = j
           /\ \A i \in m : \E n \in 1 .. Len(ids) : ids[n] = i
<1>1. IsFiniteSet(m)
  BY IdsFinite
<1>2. /\ ids \in Seq(m) /\ Len(ids) = Cardinality(m) /\ Cardinality(m) \in Nat
      /\ \A i, j \in 1 .. Len(ids) : ids[i] = ids[j] => i = j
  BY <1>1, SeqsOf
<1>3. ids \in [1 .. Len(ids) -> m]
  BY <1>2
<1>4. ids \in Injection(1 .. Len(ids), m)
  BY <1>2, <1>3 DEF Injection, IsInjective
<1>5. Cardinality(1 .. Len(ids)) = Len(ids)
  BY <1>2, FS_Interval
<1>6. ids \in Surjection(1 .. Len(ids), m)
  BY <1>1, <1>2, <1>4, <1>5, FS_Injection
<1>7. \A i \in m : \E n \in 1 .. Len(ids) : ids[n] = i
  BY <1>6 DEF Surjection
<1> QED BY <1>2, <1>3, <1>7

LEMMA ScanIs ==
    ASSUME NEW m \in SUBSET Ids, NEW ids \in SetToSeqs(m), NEW home \in [Ids -> Pages \cup {0}],
           NEW depth \in Nat
    PROVE  /\ HitsIn(Read(ids, depth), home) \in Seq(Hits)
           /\ \A n \in DOMAIN Read(ids, depth) : Read(ids, depth)[n] \in Ids
           /\ IsFiniteSet(FoundIn(m, home)) /\ FoundIn(m, home) \subseteq Hits
<1>1. ids \in Seq(Ids)
  BY OrderHasAll
<1>2. Read(ids, depth) \in Seq(Ids)
  BY <1>1, FirstOf DEF Read
<1>3. HitsIn(Read(ids, depth), home) \in Seq(Hits)
  BY <1>2, HitsOf DEF HitsIn
<1>4. IsFiniteSet(FoundIn(m, home))
  <2> DEFINE f == [i \in m |-> HitOf(i, home[i])]
  <2>1. f \in Surjection(m, FoundIn(m, home))
    BY DEF Surjection, FoundIn
  <2> HIDE DEF f
  <2> QED BY <2>1, IdsFinite, FS_Surjection
<1>5. FoundIn(m, home) \subseteq Hits
  BY DEF FoundIn, HitOf, Hits
<1> QED BY <1>2, <1>3, <1>4, <1>5

LEMMA ScanFills ==
    ASSUME NEW m \in SUBSET Ids, NEW ids \in SetToSeqs(m), NEW home \in [Ids -> Pages \cup {0}],
           NEW asked \in Nat, NEW w \in Nat \ {0},
           \A p : Cardinality({h \in FoundIn(m, home) : h.page = p}) <= w
    PROVE  Len(TopPages(HitsIn(Read(ids, asked * w), home), asked))
             = Least(asked, Cardinality({h.page : h \in FoundIn(m, home)}))
<1> DEFINE all == HitsIn(ids, home)
           read == Read(ids, asked * w)
           hits == HitsIn(read, home)
           depth == asked * w
<1>1. /\ ids \in Seq(Ids) /\ Len(ids) \in Nat /\ \A n \in 1 .. Len(ids) : ids[n] \in m
      /\ \A i, j \in 1 .. Len(ids) : ids[i] = ids[j] => i = j
      /\ \A i \in m : \E n \in 1 .. Len(ids) : ids[n] = i
  BY OrderHasAll
<1>2. depth \in Nat
  OBVIOUS
<1> HIDE DEF depth
<1>3. /\ read \in Seq(Ids) /\ Len(read) = Least(Len(ids), depth)
      /\ \A n \in 1 .. Least(Len(ids), depth) : n \in 1 .. Len(ids) /\ read[n] = ids[n]
  BY <1>1, <1>2, FirstOf DEF Read, depth
<1> HIDE DEF read
<1>4. /\ all \in Seq(Hits) /\ Len(all) = Len(ids)
      /\ \A n \in 1 .. Len(ids) : all[n].page = home[ids[n]] /\ all[n].chunk = ids[n]
      /\ \A n \in 1 .. Len(ids) : all[n] = HitOf(ids[n], home[ids[n]])
  <2>1. DOMAIN ids = 1 .. Len(ids)
    BY <1>1
  <2>2. \A n \in 1 .. Len(ids) : all[n] = HitOf(ids[n], home[ids[n]])
    BY <2>1 DEF HitsIn
  <2>3. /\ all \in Seq(Hits) /\ Len(all) = Len(ids)
        /\ \A n \in 1 .. Len(ids) : all[n].page = home[ids[n]] /\ all[n].chunk = ids[n]
    BY <1>1, HitsOf DEF HitsIn
  <2> QED BY <2>2, <2>3
<1>5. /\ hits \in Seq(Hits) /\ Len(hits) = Len(read)
      /\ \A n \in 1 .. Len(read) : hits[n] = HitOf(read[n], home[read[n]])
  BY <1>3, HitsOf DEF HitsIn
<1> HIDE DEF all, hits
<1>6. FoundIn(m, home) = {all[n] : n \in 1 .. Len(all)}
  <2>1. \A i \in m : \E n \in 1 .. Len(all) : HitOf(i, home[i]) = all[n]
    BY <1>1, <1>4
  <2>2. \A n \in 1 .. Len(all) : \E i \in m : HitOf(i, home[i]) = all[n]
    BY <1>1, <1>4
  <2> QED BY <2>1, <2>2 DEF FoundIn
<1>7. {h.page : h \in {all[n] : n \in 1 .. Len(all)}} = PagesIn(all)
  BY DEF PagesIn
<1>10. \A n \in 1 .. Len(hits) : hits[n] = all[n]
  BY <1>3, <1>4, <1>5
<1>11. \A i, j \in 1 .. Len(all) : all[i].chunk = all[j].chunk => i = j
  BY <1>1, <1>4
<1>12. \A p : Cardinality({h \in {all[n] : n \in 1 .. Len(all)} : h.page = p}) <= w
  BY <1>6
<1>13. Len(hits) = Least(Len(all), asked * w)
  BY <1>3, <1>4, <1>5 DEF depth
<1>14. Len(TopPages(hits, asked)) = Least(asked, Cardinality(PagesIn(all)))
  BY <1>4, <1>5, <1>10, <1>11, <1>12, <1>13, FirstHitsFill
<1> QED BY <1>6, <1>7, <1>14 DEF hits, read

FoundPages(hits) == {h.page : h \in hits}
Filled(asked, list, found) == Len(list) = Least(asked, Cardinality(FoundPages(found)))
Even(hits) == \A p \in FoundPages(hits) : ~(Cardinality({h \in hits : h.page = p}) > Oversample)
KeywordFull(s) ==
    CandidatesOf(s.q) * Oversample <= MaxScan /\ Even(s.found.keyword)
      => Filled(CandidatesOf(s.q), s.keyword, s.found.keyword)
VectorFull(s) == Filled(CandidatesOf(s.q), s.vector, s.found.vector)

\* While a search has its branches' lists, they are full.
FillsInv(s) == s.pc \in {"keyword", "vector", "materialize"} => KeywordFull(s) /\ VectorFull(s)

Bare(s) == s.keyword = <<>> /\ s.vector = <<>> /\ s.found = [keyword |-> {}, vector |-> {}]

LEMMA BareFills ==
    ASSUME NEW s, Bare(s), s.q \in Queries
    PROVE  FillsInv(s)
<1>1. CandidatesOf(s.q) \in Nat
  BY QueryTypes
<1>2. Len(<<>>) = 0 /\ FoundPages({}) = {}
  BY DEF FoundPages
<1>3. Cardinality({}) = 0
  BY FS_EmptySet
<1>4. Filled(CandidatesOf(s.q), <<>>, {})
  BY <1>1, <1>2, <1>3 DEF Filled, Least
<1>5. s.keyword = <<>> /\ s.vector = <<>> /\ s.found.keyword = {} /\ s.found.vector = {}
  BY DEF Bare
<1> QED BY <1>4, <1>5 DEF FillsInv, KeywordFull, VectorFull

LEMMA EvenIs ==
    ASSUME NEW hits, IsFiniteSet(hits), Even(hits)
    PROVE  \A p : Cardinality({h \in hits : h.page = p}) <= Oversample
<1> TAKE p
<1>1. IsFiniteSet({h \in hits : h.page = p})
  BY FS_Subset
<1>2. Cardinality({h \in hits : h.page = p}) \in Nat
  BY <1>1, FS_CardinalityType
<1>3. CASE p \in FoundPages(hits)
  BY <1>2, <1>3, RankingAssumption DEF Even
<1>4. CASE p \notin FoundPages(hits)
  <2>1. {h \in hits : h.page = p} = {}
    BY <1>4 DEF FoundPages
  <2> QED BY <2>1, FS_EmptySet, RankingAssumption
<1> QED BY <1>3, <1>4

LEMMA FusesFills ==
    ASSUME NEW r \in Searches, r.q \in Queries, KeywordFull(r), VectorFull(r)
    PROVE  FillsInv(Fuses(r))
<1> DEFINE ranked == Ranked(Fuse(r.keyword, r.vector), r.q.literal, LimitOf(r.q))
           s == [r EXCEPT !.pc = "materialize", !.fused = ranked, !.ranked = ranked]
<1> HIDE DEF ranked
<1>1. s.q = r.q /\ s.keyword = r.keyword /\ s.vector = r.vector /\ s.found = r.found
  BY DEF Searches
<1>2. s = Fuses(r)
  BY DEF Fuses, ranked
<1> HIDE DEF s
<1>3. KeywordFull(s) /\ VectorFull(s)
  BY <1>1 DEF KeywordFull, VectorFull
<1> QED BY <1>2, <1>3 DEF FillsInv

LEMMA KeywordStepFills ==
    ASSUME TypeInv, SearchType, AnswerInv(search), FillsInv(search), KeywordScan
    PROVE  FillsInv(search')
<1> DEFINE q == search.q
           asked == CandidatesOf(q)
           scanned(ids) == SubSeq(ids, 1, Least(Len(ids), ScanDepth(asked)))
           hits(ids) == [n \in DOMAIN scanned(ids) |-> HitOf(scanned(ids)[n], chunks[scanned(ids)[n]].page)]
           s(m, ids) == [search EXCEPT !.keyword = TopPages(hits(ids), asked),
                                       !.found.keyword = {HitOf(i, chunks[i].page) : i \in m}]
           home == [i \in Ids |-> chunks[i].page]
<1>1. search \in Searches /\ search.pc = "keyword" /\ q \in Queries
  BY DEF KeywordScan, SearchType
<1>2. PICK m \in SUBSET {i \in Ids : Matchable(q, i)} : \E ids \in SetToSeqs(m) :
        search' = IF ModeOf(q, search.model) = "keyword" THEN Fuses(s(m, ids))
                  ELSE [s(m, ids) EXCEPT !.pc = "vector"]
  BY DEF KeywordScan, Step
<1>3. PICK ids \in SetToSeqs(m) :
        search' = IF ModeOf(q, search.model) = "keyword" THEN Fuses(s(m, ids))
                  ELSE [s(m, ids) EXCEPT !.pc = "vector"]
  BY <1>2
<1>4. m \in SUBSET Ids /\ asked \in Nat
  BY <1>1, QueryTypes
<1>5. home \in [Ids -> Pages \cup {0}]
  BY DEF TypeInv, ChunkRows
<1> DEFINE depth == ScanDepth(asked)
           of == HitsIn(Read(ids, depth), home)
           found == FoundIn(m, home)
           list == TopPages(of, asked)
           r == [search EXCEPT !.keyword = list, !.found.keyword = found]
<1> HIDE DEF asked
<1>6. depth \in Nat /\ (asked * Oversample <= MaxScan => depth = asked * Oversample)
  <2> DEFINE n == asked * Oversample
  <2>1. n \in Nat /\ MaxScan \in Nat /\ depth = Least(n, MaxScan)
    BY <1>4, RankingAssumption DEF ScanDepth
  <2> HIDE DEF n, depth
  <2>2. depth \in Nat /\ (n <= MaxScan => depth = n)
    BY <2>1 DEF Least
  <2> QED BY <2>2 DEF n
<1> HIDE DEF depth
<1>7. /\ of \in Seq(Hits) /\ IsFiniteSet(found) /\ found \subseteq Hits
      /\ \A n \in DOMAIN Read(ids, depth) : Read(ids, depth)[n] \in Ids
  <2> HIDE DEF home
  <2> QED BY <1>4, <1>5, <1>6, ScanIs
<1>8. s(m, ids) = r
  <2>1. scanned(ids) = Read(ids, depth)
    BY DEF Read, depth
  <2>2. hits(ids) = of
    BY <1>7, <2>1 DEF HitsIn
  <2>3. {HitOf(i, chunks[i].page) : i \in m} = found
    BY <1>4 DEF FoundIn
  <2> HIDE DEF hits, of, found
  <2> QED BY <2>2, <2>3
<1> HIDE DEF s, home
<1>9. ASSUME asked * Oversample <= MaxScan, Even(found) PROVE Filled(asked, list, found)
  <2>1. \A p : Cardinality({h \in found : h.page = p}) <= Oversample
    <3> HIDE DEF found
    <3> QED BY <1>7, <1>9, EvenIs
  <2>2. Oversample \in Nat \ {0}
    BY RankingAssumption
  <2>3. Len(TopPages(HitsIn(Read(ids, asked * Oversample), home), asked))
          = Least(asked, Cardinality({h.page : h \in FoundIn(m, home)}))
    BY <1>4, <1>5, <2>1, <2>2, ScanFills
  <2> QED BY <1>6, <1>9, <2>3 DEF Filled, FoundPages
<1> HIDE DEF of, found
<1>10. list \in Seq(Places)
  BY <1>4, <1>7, TopPagesIs
<1> HIDE DEF list
<1>11. /\ r \in Searches /\ r.q = q /\ r.keyword = list /\ r.vector = search.vector
       /\ r.found.keyword = found /\ r.found.vector = search.found.vector
  BY <1>1, <1>7, <1>10 DEF Searches
<1> HIDE DEF r
<1>12. KeywordFull(r) /\ VectorFull(r)
  <2>1. VectorFull(search)
    BY <1>1 DEF FillsInv
  <2> QED BY <1>9, <1>11, <2>1 DEF KeywordFull, VectorFull, asked
<1>13. CASE ModeOf(q, search.model) = "keyword"
  <2>1. search' = Fuses(r)
    BY <1>3, <1>8, <1>13
  <2> QED BY <1>1, <1>11, <1>12, <2>1, FusesFills
<1>14. CASE ModeOf(q, search.model) # "keyword"
  <2> DEFINE t == [r EXCEPT !.pc = "vector"]
  <2>1. search' = t
    BY <1>3, <1>8, <1>14
  <2>2. t.q = r.q /\ t.keyword = r.keyword /\ t.vector = r.vector /\ t.found = r.found
    BY <1>11 DEF Searches
  <2> HIDE DEF t
  <2> QED BY <1>12, <2>1, <2>2 DEF FillsInv, KeywordFull, VectorFull
<1> QED BY <1>13, <1>14

LEMMA VectorStepFills ==
    ASSUME TypeInv, SearchType, AnswerInv(search), FillsInv(search), VectorScan
    PROVE  FillsInv(search')
<1> DEFINE q == search.q
           asked == CandidatesOf(q)
           here == {i \in Ids : cache[i] # NoEntry /\ Passes(q, cache[i].page, cache[i].edited)}
           hits(ids) == [n \in DOMAIN ids |-> HitOf(ids[n], cache[ids[n]].page)]
           s(ids) == [search EXCEPT !.vector = TopPages(hits(ids), asked),
                                    !.found.vector = ToSet(hits(ids))]
<1>1. search \in Searches /\ search.pc = "vector" /\ q \in Queries
  BY DEF VectorScan, SearchType
<1>2. asked \in Nat
  BY <1>1, QueryTypes
<1>3. PICK ids \in SetToSeqs(here) : search' = Fuses(s(ids))
  BY DEF VectorScan, Step
<1> HIDE DEF asked
<1>4. ids \in Seq(here)
  <2>1. IsFiniteSet(here)
    BY IdsFinite
  <2> HIDE DEF here
  <2> QED BY <2>1, SeqsOf
<1>5. ids \in Seq(Ids) /\ \A n \in DOMAIN ids : ids[n] \in Ids
  BY <1>4
<1> HIDE DEF here
<1> DEFINE home == [i \in Ids |-> cache[i].page]
           found == hits(ids)
           list == TopPages(found, asked)
           r == s(ids)
<1>6. home \in [Ids -> Pages \cup {0}]
  BY DEF TypeInv, Entries
<1>7. found = [n \in DOMAIN ids |-> HitOf(ids[n], home[ids[n]])]
  BY <1>5
<1>8. found \in Seq(Hits)
  <2> HIDE DEF home, found
  <2> QED BY <1>5, <1>6, <1>7, HitsOf
<1> HIDE DEF found
<1>9. FoundPages(ToSet(found)) = PagesIn(found)
  BY <1>8 DEF FoundPages, PagesIn, ToSet
<1>10. Filled(asked, list, ToSet(found))
  BY <1>2, <1>8, <1>9, TopPagesLength DEF Filled
<1>11. list \in Seq(Places) /\ ToSet(found) \subseteq Hits
  BY <1>2, <1>8, TopPagesIs DEF ToSet
<1>12. r = [search EXCEPT !.vector = list, !.found.vector = ToSet(found)]
  BY DEF found
<1> HIDE DEF list, s, r
<1>13. /\ r \in Searches /\ r.q = q /\ r.vector = list /\ r.found.vector = ToSet(found)
       /\ r.keyword = search.keyword /\ r.found.keyword = search.found.keyword
  BY <1>1, <1>11, <1>12 DEF Searches
<1>14. KeywordFull(r) /\ VectorFull(r)
  <2>1. KeywordFull(search)
    BY <1>1 DEF FillsInv
  <2> QED BY <1>10, <1>13, <2>1 DEF KeywordFull, VectorFull, asked
<1>15. search' = Fuses(r)
  BY <1>3 DEF r
<1> QED BY <1>1, <1>13, <1>14, <1>15, FusesFills

LEMMA SpentFills ==
    ASSUME SearchType, search.pc = "materialize", NEW s,
           s.keyword = Spent.keyword, s.vector = Spent.vector, s.found = Spent.found,
           s.q = Spent.q
    PROVE  FillsInv(s)
<1>1. Spent.keyword = <<>> /\ Spent.vector = <<>> /\ Spent.q = search.q /\ search.q \in Queries
  BY SpentIs DEF SearchType
<1>2. Spent.found = [keyword |-> {}, vector |-> {}]
  BY DEF Spent, NoSearch, SearchType, Searches
<1>3. Bare(s)
  BY <1>1, <1>2 DEF Bare
<1> QED BY <1>1, <1>3, BareFills

LEMMA StepFills ==
    ASSUME TypeInv, SearchType, AnswerInv(search), FillsInv(search), [SearchNext]_searchVars
    PROVE  FillsInv(search')
<1>0. FillsInv(NoSearch)
  BY NoSearchType DEF FillsInv
<1>1. CASE StartSearch
  <2>1. PICK q \in Queries, m \in Models :
          search' = [NoSearch EXCEPT !.pc = IF ModeOf(q, m) = "vector" THEN "vector" ELSE "keyword",
                                     !.q = q, !.model = m, !.gone = {p \in Pages : OutOfIndex(p)}]
    BY <1>1 DEF StartSearch, Step
  <2>2. search'.q \in Queries /\ Bare(search')
    BY <2>1 DEF NoSearch, Bare
  <2> QED BY <2>2, BareFills
<1>2. CASE KeywordScan
  BY <1>2, KeywordStepFills
<1>3. CASE VectorScan
  BY <1>3, VectorStepFills
<1>4. CASE Materialize
  <2>1. search.pc = "materialize"
    BY <1>4 DEF Materialize
  <2>2. \E fused, results : search' = [Spent EXCEPT !.fused = fused, !.results = results]
    BY <1>4 DEF Materialize, Step
  <2>3. PICK fused, results : search' = [Spent EXCEPT !.fused = fused, !.results = results]
    BY <2>2
  <2>4. /\ search'.keyword = Spent.keyword /\ search'.vector = Spent.vector
        /\ search'.found = Spent.found /\ search'.q = Spent.q
    BY <2>3, SpentIs DEF Searches
  <2> QED BY <2>1, <2>4, SpentFills
<1>5. CASE EndMaterialize \/ Expand
  <2>1. search'.pc \in {"expand", "done"}
    BY <1>5 DEF EndMaterialize, Expand, Step, SearchType, Searches
  <2> QED BY <2>1 DEF FillsInv
<1>6. CASE SearchFails
  <2>1. CASE search' = [NoSearch EXCEPT !.pc = "failed"]
    <3>1. search'.pc = "failed"
      BY <2>1 DEF NoSearch
    <3> QED BY <3>1 DEF FillsInv
  <2>2. CASE search.pc = "materialize" /\ search' = [Spent EXCEPT !.fused = Tail(@)]
    <3>1. PICK fused : search' = [Spent EXCEPT !.fused = fused]
      BY <2>2
    <3>2. /\ search'.keyword = Spent.keyword /\ search'.vector = Spent.vector
          /\ search'.found = Spent.found /\ search'.q = Spent.q
      BY <3>1, SpentIs DEF Searches
    <3> QED BY <2>2, <3>2, SpentFills
  <2> QED BY <1>6, <2>1, <2>2 DEF SearchFails
<1>7. CASE Around
  BY <1>0, <1>7, AroundIsNext
<1>8. CASE UNCHANGED searchVars
  BY <1>8 DEF searchVars
<1> QED BY <1>1, <1>2, <1>3, <1>4, <1>5, <1>6, <1>7, <1>8 DEF SearchNext, Seek

(***************************************************************************)
(* keywordScanDepth and topPages: a long page cannot push the others out.  *)
(* For any depths and any number of hits, the vector list has as many      *)
(* pages as were found or asked for, and so has the keyword list unless    *)
(* more than Oversample chunks of a page match or the scan meets MaxScan.  *)
(***************************************************************************)
THEOREM NobodyCrowdedOut == SearchSpec => []NoPageCrowdedOut
<1>1. SearchInit => FillsInv(search)
  BY NoSearchType DEF SearchInit, FillsInv
<1>2. TypeInv /\ SearchType /\ AnswerInv(search) /\ FillsInv(search) /\ [SearchNext]_searchVars
        => FillsInv(search')
  BY StepFills
<1>3. FillsInv(search) => NoPageCrowdedOut
  BY DEF FillsInv, KeywordFull, VectorFull, Filled, Even, FoundPages, NoPageCrowdedOut
<1> DEFINE Fills == FillsInv(search)
<1>4. SearchInit => Fills
  BY <1>1
<1>5. TypeInv /\ SearchType /\ AnswerInv(search) /\ Fills /\ [SearchNext]_searchVars => Fills'
  BY <1>2
<1>6. Fills => NoPageCrowdedOut
  BY <1>3
<1> HIDE DEF Fills
<1> QED BY <1>4, <1>5, <1>6, SearchInvariant, PTL DEF SearchSpec
=============================================================================

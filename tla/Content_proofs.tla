--------------------------- MODULE Content_proofs --------------------------
(***************************************************************************)
(* Theorems about Content, for any answers of Notion, depth, budget and    *)
(* sizes: what is kept of a page is its beginning, a chunk fits, its       *)
(* heading is the path its lines are under, and the text is in the chunks, *)
(* all of it, once and in order.                                           *)
(*                                                                         *)
(* The argument for the first: the calls under way are the ancestors of    *)
(* the next block, each with as many children kept as it has looked at, so *)
(* whatever was kept lies before the next block in reading order, and what *)
(* a call leaves out it leaves out only when the budget is gone, for all   *)
(* calls at once.                                                          *)
(*                                                                         *)
(* For the others: each loop of BuildChunks is a recursive function whose  *)
(* values are the loop's states (Recursion), so that an invariant of the   *)
(* loop is shown by Induction over its rounds.                             *)
(***************************************************************************)
EXTENDS Content, SequenceTheorems, FiniteSetTheorems, WellFoundedInduction, TLAPS

-----------------------------------------------------------------------------
(* Reading order. *)

LEMMA AppendIs ==
    ASSUME NEW S, NEW s \in Seq(S), NEW e \in S
    PROVE  /\ Append(s, e) \in Seq(S) /\ Len(Append(s, e)) = Len(s) + 1
           /\ DOMAIN Append(s, e) = 1 .. Len(s) + 1
           /\ Append(s, e)[Len(s) + 1] = e
           /\ \A n \in 1 .. Len(s) : Append(s, e)[n] = s[n]
OBVIOUS

LEMMA AppendApart ==
    ASSUME NEW a \in Seq(Nat), NEW b \in Seq(Nat), NEW m \in Nat, NEW n \in Nat,
           Append(a, m) = Append(b, n)
    PROVE  a = b /\ m = n
<1>1. Len(a) = Len(b)
  BY AppendIs
<1>2. \A k \in 1 .. Len(a) : a[k] = b[k]
  BY <1>1, AppendIs
<1> QED BY <1>1, <1>2, AppendIs, SeqEqual

LEMMA BeforeItself == \A p \in Seq(Nat) : ~Before(p, p)
BY DEF Before, IsStrictPrefix

\* A strict prefix, by its elements.
LEMMA PrefixIs ==
    ASSUME NEW p \in Seq(Nat), NEW q \in Seq(Nat)
    PROVE  IsStrictPrefix(p, q) <=> Len(p) < Len(q) /\ \A n \in 1 .. Len(p) : p[n] = q[n]
<1>1. SubSeq(p, 1, Len(p)) = p
  BY SubSeqFull
<1>2. ASSUME Len(p) <= Len(q)
      PROVE  p = SubSeq(q, 1, Len(p)) <=> \A n \in 1 .. Len(p) : p[n] = q[n]
  <2>1. \A n \in 1 .. Len(p) : q[n] \in Nat
    BY <1>2
  <2>2. /\ SubSeq(q, 1, Len(p)) \in Seq(Nat) /\ Len(SubSeq(q, 1, Len(p))) = Len(p)
        /\ \A n \in 1 .. Len(p) : SubSeq(q, 1, Len(p))[n] = q[n]
    BY <1>2, <2>1
  <2>3. ASSUME \A n \in 1 .. Len(p) : p[n] = q[n] PROVE p = SubSeq(q, 1, Len(p))
    BY <2>2, <2>3, SeqEqual
  <2> QED BY <2>2, <2>3
<1>3. ASSUME Len(p) = Len(q), \A n \in 1 .. Len(p) : p[n] = q[n] PROVE p = q
  BY <1>3, SeqEqual
<1>4. p # q /\ Len(p) <= Len(q) /\ (\A n \in 1 .. Len(p) : p[n] = q[n]) => Len(p) < Len(q)
  BY <1>3
<1> QED BY <1>1, <1>2, <1>4 DEF IsStrictPrefix, IsPrefix

LEMMA BeforeBelow ==
    ASSUME NEW p \in Seq(Nat), NEW q \in Seq(Nat), NEW n \in Nat, Before(q, p) \/ q = p
    PROVE  Before(q, Append(p, n))
<1>1. CASE q = p \/ IsStrictPrefix(q, p)
  <2> DEFINE a == Append(p, n)
  <2>1. a \in Seq(Nat) /\ Len(a) = Len(p) + 1 /\ \A k \in 1 .. Len(p) : a[k] = p[k]
    BY AppendIs
  <2>2. Len(q) <= Len(p) /\ \A k \in 1 .. Len(q) : q[k] = p[k]
    BY <1>1, PrefixIs
  <2>3. Len(q) < Len(a) /\ \A k \in 1 .. Len(q) : q[k] = a[k]
    BY <2>1, <2>2
  <2>4. IsStrictPrefix(q, a)
    BY <2>1, <2>3, PrefixIs
  <2> QED BY <2>4 DEF Before
<1>2. CASE \E k \in DOMAIN q \cap DOMAIN p : q[k] < p[k] /\ \A m \in 1 .. k - 1 : q[m] = p[m]
  <2>1. PICK k \in DOMAIN q \cap DOMAIN p : q[k] < p[k] /\ \A m \in 1 .. k - 1 : q[m] = p[m]
    BY <1>2
  <2>2. k \in DOMAIN Append(p, n) /\ \A m \in 1 .. k : Append(p, n)[m] = p[m]
    BY <2>1, AppendIs
  <2>3. k \in DOMAIN q \cap DOMAIN Append(p, n) /\ q[k] < Append(p, n)[k]
        /\ \A m \in 1 .. k - 1 : q[m] = Append(p, n)[m]
    BY <2>1, <2>2
  <2> QED BY <2>3 DEF Before
<1> QED BY <1>1, <1>2 DEF Before

\* q goes through a child of p that is before its n-th.
LEMMA BeforeBeside ==
    ASSUME NEW p \in Seq(Nat), NEW q \in Seq(Nat), NEW n \in Nat,
           Len(q) > Len(p), \A m \in 1 .. Len(p) : q[m] = p[m], q[Len(p) + 1] < n
    PROVE  Before(q, Append(p, n))
<1> DEFINE k == Len(p) + 1
<1>1. k \in DOMAIN q \cap DOMAIN Append(p, n) /\ q[k] < Append(p, n)[k]
      /\ \A m \in 1 .. k - 1 : q[m] = Append(p, n)[m]
  BY AppendIs
<1> QED BY <1>1 DEF Before

-----------------------------------------------------------------------------
(* The invariant of the fetch. *)

Frames == [at : Seq(Nat), asked : BOOLEAN, rest : Seq(Blocks), kept : Nat]

TypeOK ==
    /\ pc \in {"fetch", "failed", "done"}
    /\ frames \in Seq(Frames)
    /\ budget \in 0 .. MaxBlocks
    /\ Paths \subseteq Seq(Nat) /\ IsFiniteSet(Paths) /\ block \in [Paths -> Blocks]
    /\ DOMAIN answered \subseteq Seq(Nat) /\ answered \in [DOMAIN answered -> Nat]
    /\ header \in Headers

Calls == 1 .. Len(frames)

\* The calls under way are for a block, its parent, the parent of that.
StackInv ==
    /\ pc = "fetch" => frames # <<>>
    /\ pc = "done" => frames = <<>>
    /\ \A i \in Calls : Len(frames[i].at) = i - 1 /\ (frames[i].asked => i <= MaxDepth)
    /\ \A i, j \in Calls : i < j => /\ \A m \in 1 .. i - 1 : frames[j].at[m] = frames[i].at[m]
                                    /\ frames[j].at[i] = frames[i].kept

\* A call has kept what it has looked at; what is kept of the page lies before what is left.
CallInv(f) ==
    /\ \A n \in 1 .. f.kept : Append(f.at, n) \in Paths
    /\ IF f.asked THEN f.at \in DOMAIN answered /\ answered[f.at] = f.kept + Len(f.rest)
       ELSE f.kept = 0
    /\ \A n \in Nat : n > f.kept => \A q \in Paths : Before(q, Append(f.at, n))

\* What a call that is over has left out.
Settled(p) ==
    \A n \in 1 .. answered[p] :
       Append(p, n) \notin Paths => budget = 0 /\ \A q \in Paths : Before(q, Append(p, n))

\* The children of a block are numbered.
NoGaps ==
    \A a \in Seq(Nat), n \in Nat :
       Append(a, n) \in Paths => n > 0 /\ \A k \in 1 .. n : Append(a, k) \in Paths

UnderWay(p) == \E i \in Calls : frames[i].asked /\ frames[i].at = p

FetchInv ==
    /\ TypeOK /\ StackInv
    /\ \A i \in Calls : CallInv(frames[i])
    /\ \A p \in DOMAIN answered : UnderWay(p) \/ Settled(p)
    /\ Cardinality(Paths) = IF budget = 0 THEN MaxBlocks - 1 ELSE MaxBlocks - budget
    /\ \A p \in Paths : Len(p) <= MaxDepth
    /\ NoGaps

LEMMA FetchInit == Init => FetchInv
<1> SUFFICES ASSUME Init PROVE FetchInv
  OBVIOUS
<1> DEFINE f == [at |-> <<>>, asked |-> FALSE, rest |-> <<>>, kept |-> 0]
<1>1. /\ frames = <<f>> /\ f \in Frames /\ pc = "fetch" /\ budget = MaxBlocks
      /\ Paths = {} /\ DOMAIN answered = {} /\ header \in Headers
  BY DEF Init, Frames, Paths
<1>2. frames \in Seq(Frames) /\ Len(frames) = 1 /\ frames[1] = f
  BY <1>1
<1>3. block \in [Paths -> Blocks] /\ answered \in [DOMAIN answered -> Nat]
  BY <1>1 DEF Init, Paths
<1>4. TypeOK
  BY <1>1, <1>2, <1>3, ContentAssumption, FS_EmptySet DEF TypeOK
<1>5. StackInv /\ \A i \in Calls : CallInv(frames[i])
  BY <1>1, <1>2 DEF StackInv, CallInv, Calls
<1>6. Cardinality(Paths) = 0
  BY <1>1, FS_EmptySet
<1> QED BY <1>1, <1>4, <1>5, <1>6, ContentAssumption DEF FetchInv, NoGaps

\* The calls that go on when the innermost returns.
LEMMA BelowIs ==
    ASSUME TypeOK, frames # <<>>
    PROVE  /\ Len(frames) \in Nat \ {0} /\ Top \in Frames
           /\ Below \in Seq(Frames) /\ Len(Below) = Len(frames) - 1
           /\ \A i \in 1 .. Len(frames) - 1 : Below[i] = frames[i]
           /\ \A i \in 1 .. Len(frames) : frames[i] \in Frames
<1>1. Len(frames) \in Nat \ {0} /\ \A i \in 1 .. Len(frames) : frames[i] \in Frames
  BY DEF TypeOK
<1>2. /\ SubSeq(frames, 1, Len(frames) - 1) \in Seq(Frames)
      /\ Len(SubSeq(frames, 1, Len(frames) - 1)) = Len(frames) - 1
      /\ \A i \in 1 .. Len(frames) - 1 : SubSeq(frames, 1, Len(frames) - 1)[i] = frames[i]
  <2> DEFINE m == Len(frames) - 1
  <2>1. m \in Nat /\ \A i \in 1 .. m : frames[i] \in Frames
    BY <1>1
  <2>2. frames \in Seq(Frames) /\ m <= Len(frames)
    BY <1>1 DEF TypeOK
  <2> HIDE DEF m
  <2>3. SubSeq(frames, 1, m) \in Seq(Frames) /\ Len(SubSeq(frames, 1, m)) = m
        /\ \A i \in 1 .. m : SubSeq(frames, 1, m)[i] = frames[i]
    BY <2>1, <2>2
  <2> QED BY <2>3 DEF m
<1> QED BY <1>1, <1>2 DEF Below, Top

\* The innermost call returns: it has left nothing out, or the budget is gone.
LEMMA ReturnKeeps ==
    ASSUME FetchInv, pc = "fetch", Return, UNCHANGED <<block, answered, header>>,
           budget' = budget \/ (budget <= 1 /\ budget' = 0),
           budget' = 0 \/ ~Top.asked \/ Top.rest = <<>>
    PROVE  FetchInv'
<1> DEFINE m == Len(frames)
<1>1. TypeOK /\ StackInv /\ frames # <<>>
  BY DEF FetchInv, StackInv
<1>2. /\ m \in Nat \ {0} /\ Top \in Frames /\ Top = frames[m]
      /\ frames' \in Seq(Frames) /\ Len(frames') = m - 1
      /\ \A i \in 1 .. m - 1 : frames'[i] = frames[i]
  BY <1>1, BelowIs DEF Return, Top
<1>3. budget \in Nat /\ budget' \in 0 .. MaxBlocks
  BY <1>1, ContentAssumption DEF TypeOK
<1>4. TypeOK'
  BY <1>1, <1>2, <1>3 DEF TypeOK, Return, Paths
<1>5. StackInv'
  <2>1. pc' = (IF frames' = <<>> THEN "done" ELSE "fetch")
    BY DEF Return
  <2>2. pc' = "done" => frames' = <<>>
    BY <2>1
  <2>3. pc' = "fetch" => frames' # <<>>
    BY <2>1
  <2>4. Calls' = 1 .. m - 1 /\ Calls = 1 .. m /\ Calls' \subseteq Calls
    BY <1>2 DEF Calls
  <2>5. \A i \in Calls' : frames'[i] = frames[i]
    BY <1>2, <2>4
  <2>6. \A i \in Calls' : Len(frames'[i].at) = i - 1 /\ (frames'[i].asked => i <= MaxDepth)
    BY <1>1, <2>4, <2>5 DEF StackInv
  <2>7. ASSUME NEW i \in Calls', NEW j \in Calls', i < j
        PROVE  /\ \A k \in 1 .. i - 1 : frames'[j].at[k] = frames'[i].at[k]
               /\ frames'[j].at[i] = frames'[i].kept
    <3>1. i \in Calls /\ j \in Calls /\ frames'[i] = frames[i] /\ frames'[j] = frames[j]
      BY <2>4, <2>5
    <3> QED BY <1>1, <2>7, <3>1 DEF StackInv
  <2> HIDE DEF m
  <2> QED BY <2>2, <2>3, <2>6, <2>7 DEF StackInv
<1>6. \A i \in Calls' : CallInv(frames[i])'
  BY <1>2 DEF FetchInv, CallInv, Calls, Paths
<1>8. ASSUME NEW p \in DOMAIN answered', ~UnderWay(p)' PROVE Settled(p)'
  <2>1. p \in DOMAIN answered /\ answered[p] \in Nat
    BY <1>1 DEF TypeOK
  <2>2. CASE Settled(p)
    <3>1. budget = 0 => budget' = 0
      BY <1>3
    <3> QED BY <2>2, <3>1 DEF Settled, Paths
  <2>3. CASE UnderWay(p)
    <3>1. PICK i \in Calls : frames[i].asked /\ frames[i].at = p
      BY <2>3 DEF UnderWay
    <3>2. i = m
      BY <1>2, <1>8, <3>1 DEF UnderWay, Calls
    <3>3. CallInv(Top) /\ Top.asked /\ Top.at = p
      BY <1>2, <3>1, <3>2 DEF FetchInv
    <3>4. answered[p] = Top.kept + Len(Top.rest) /\ Top.kept \in Nat /\ Len(Top.rest) \in Nat
      BY <1>2, <3>3 DEF CallInv, Frames
    <3>5. ASSUME NEW n \in 1 .. answered[p], Append(p, n) \notin Paths
          PROVE  budget' = 0 /\ \A q \in Paths : Before(q, Append(p, n))
      <4>1. n > Top.kept
        BY <2>1, <3>3, <3>4, <3>5 DEF CallInv
      <4>2. Top.rest # <<>>
        BY <3>4, <4>1
      <4> QED BY <2>1, <3>3, <4>1, <4>2 DEF CallInv
    <3> QED BY <3>5 DEF Settled, Paths
  <2> QED BY <2>1, <2>2, <2>3 DEF FetchInv
<1>9. Cardinality(Paths)' = IF budget' = 0 THEN MaxBlocks - 1 ELSE MaxBlocks - budget'
  <2>1. Paths' = Paths
    BY DEF Paths
  <2> QED BY <1>3, <2>1, ContentAssumption DEF FetchInv
<1>10. (\A p \in Paths' : Len(p) <= MaxDepth) /\ NoGaps'
  BY DEF FetchInv, Paths, NoGaps
<1> QED BY <1>4, <1>5, <1>6, <1>8, <1>9, <1>10 DEF FetchInv

\* The innermost call gets its answer.
LEMMA AnswerKeeps ==
    ASSUME FetchInv, pc = "fetch", ~Top.asked, ~TooDeep, NEW blocks \in Answers,
           frames' = Append(Below, [Top EXCEPT !.asked = TRUE, !.rest = blocks]),
           answered' = [p \in DOMAIN answered \cup {Top.at} |->
                          IF p = Top.at THEN Len(blocks) ELSE answered[p]],
           UNCHANGED <<pc, budget, block, header>>
    PROVE  FetchInv'
<1> DEFINE m == Len(frames)
           f == [Top EXCEPT !.asked = TRUE, !.rest = blocks]
<1>1. TypeOK /\ StackInv /\ frames # <<>>
  BY DEF FetchInv, StackInv
<1>2. /\ m \in Nat \ {0} /\ Top \in Frames /\ Top = frames[m]
      /\ Below \in Seq(Frames) /\ Len(Below) = m - 1
      /\ \A i \in 1 .. m - 1 : Below[i] = frames[i]
  BY <1>1, BelowIs DEF Top
<1>3. blocks \in Seq(Blocks) /\ Len(blocks) \in Nat
  BY ContentAssumption
<1>4. f \in Frames /\ f.at = Top.at /\ f.kept = Top.kept /\ f.asked /\ f.rest = blocks
  BY <1>2, <1>3 DEF Frames
<1>5. /\ frames' \in Seq(Frames) /\ Len(frames') = m /\ frames'[m] = f
      /\ \A i \in 1 .. m - 1 : frames'[i] = frames[i]
  <2> HIDE DEF f, m
  <2> QED BY <1>2, <1>4, AppendIs DEF f
<1> HIDE DEF f
<1>6. Top.at \in Seq(Nat) /\ CallInv(Top)
  BY <1>2 DEF Frames, FetchInv, Calls
<1>7. TypeOK'
  <2>1. answered' \in [DOMAIN answered' -> Nat] /\ DOMAIN answered' \subseteq Seq(Nat)
    BY <1>1, <1>3, <1>6 DEF TypeOK
  <2> QED BY <1>1, <1>5, <2>1 DEF TypeOK, Paths
<1>8. Calls' = 1 .. m /\ Calls = 1 .. m
  BY <1>5 DEF Calls
<1>9. \A i \in 1 .. m : frames'[i].at = frames[i].at /\ frames'[i].kept = frames[i].kept
  BY <1>2, <1>4, <1>5
<1>10. StackInv'
  <2>1. frames' # <<>> /\ m <= MaxDepth
    BY <1>2, <1>5, ContentAssumption DEF TooDeep
  <2>2. ASSUME NEW i \in 1 .. m PROVE Len(frames'[i].at) = i - 1 /\ i <= MaxDepth
    <3>1. i \in Calls /\ frames'[i].at = frames[i].at
      BY <1>8, <1>9
    <3> QED BY <1>1, <1>2, <2>1, <3>1, ContentAssumption DEF StackInv
  <2>3. ASSUME NEW i \in 1 .. m, NEW j \in 1 .. m, i < j
        PROVE  /\ \A k \in 1 .. i - 1 : frames'[j].at[k] = frames'[i].at[k]
               /\ frames'[j].at[i] = frames'[i].kept
    <3>1. i \in Calls /\ frames'[i].at = frames[i].at /\ frames'[i].kept = frames[i].kept
          /\ j \in Calls /\ frames'[j].at = frames[j].at
      BY <1>8, <1>9
    <3> QED BY <1>1, <2>3, <3>1 DEF StackInv
  <2> QED BY <1>1, <1>8, <2>1, <2>2, <2>3 DEF StackInv
<1>11. ASSUME NEW i \in Calls' PROVE CallInv(frames[i])'
  <2>1. CASE i = m
    <3>1. Top.at \in DOMAIN answered' /\ answered'[Top.at] = Len(blocks)
      OBVIOUS
    <3>2. Top.kept = 0
      BY <1>6 DEF CallInv
    <3> QED BY <1>4, <1>5, <1>6, <2>1, <3>1, <3>2 DEF CallInv, Paths
  <2>2. CASE i # m
    <3>1. i \in 1 .. m - 1 /\ i \in Calls /\ frames'[i] = frames[i] /\ m \in Calls /\ i < m
      BY <1>2, <1>5, <1>8, <2>2
    <3>2. frames[i].at # Top.at
      BY <1>1, <1>2, <3>1 DEF StackInv
    <3>3. CallInv(frames[i])
      BY <3>1 DEF FetchInv
    <3>4. frames[i].at \in DOMAIN answered =>
             frames[i].at \in DOMAIN answered' /\ answered'[frames[i].at] = answered[frames[i].at]
      BY <3>2
    <3> QED BY <3>1, <3>3, <3>4 DEF CallInv, Paths
  <2> QED BY <2>1, <2>2
<1>12. ASSUME NEW p \in DOMAIN answered', ~UnderWay(p)' PROVE Settled(p)'
  <2>1. p # Top.at
    BY <1>4, <1>5, <1>2, <1>12 DEF UnderWay, Calls
  <2>2. p \in DOMAIN answered /\ answered'[p] = answered[p]
    BY <2>1
  <2>3. ~UnderWay(p)
    <3> SUFFICES ASSUME NEW i \in Calls, frames[i].asked, frames[i].at = p PROVE FALSE
      BY DEF UnderWay
    <3>1. i \in 1 .. m - 1
      BY <1>2, <1>8, <2>1
    <3> QED BY <1>5, <1>8, <1>12, <3>1 DEF UnderWay
  <2> QED BY <2>2, <2>3 DEF FetchInv, Settled, Paths
<1>13. Paths' = Paths
  BY DEF Paths
<1>14. NoGaps'
  BY <1>13 DEF FetchInv, NoGaps
<1> QED BY <1>7, <1>10, <1>11, <1>12, <1>13, <1>14 DEF FetchInv

\* The next block is kept, and its children asked for.
LEMMA KeepKeeps ==
    ASSUME FetchInv, pc = "fetch", Top.asked, Top.rest # <<>>, ~Spent, Look
    PROVE  FetchInv'
<1> DEFINE m == Len(frames)
           b == Head(Top.rest)
           p == Append(Top.at, Top.kept + 1)
           next == [Top EXCEPT !.rest = Tail(@), !.kept = @ + 1]
           call == [at |-> p, asked |-> FALSE, rest |-> <<>>, kept |-> 0]
<1>1. TypeOK /\ StackInv /\ frames # <<>>
  BY DEF FetchInv, StackInv
<1>2. /\ m \in Nat \ {0} /\ Top \in Frames /\ Top = frames[m]
      /\ Below \in Seq(Frames) /\ Len(Below) = m - 1
      /\ \A i \in 1 .. m - 1 : Below[i] = frames[i]
  BY <1>1, BelowIs DEF Top
<1>3. /\ Top.at \in Seq(Nat) /\ Len(Top.at) = m - 1 /\ Top.kept \in Nat /\ m <= MaxDepth
      /\ Top.rest \in Seq(Blocks) /\ CallInv(Top)
  BY <1>1, <1>2 DEF Frames, FetchInv, Calls, StackInv
<1>4. /\ b \in Blocks /\ Tail(Top.rest) \in Seq(Blocks)
      /\ Len(Top.rest) \in Nat /\ Len(Tail(Top.rest)) = Len(Top.rest) - 1
  BY <1>3
<1>5. /\ p \in Seq(Nat) /\ Len(p) = m /\ p[m] = Top.kept + 1
      /\ \A k \in 1 .. m - 1 : p[k] = Top.at[k]
  BY <1>2, <1>3, AppendIs
<1>6. /\ next \in Frames /\ next.at = Top.at /\ next.kept = Top.kept + 1 /\ next.asked
      /\ next.rest = Tail(Top.rest)
  <2> DEFINE t == Tail(Top.rest)
           k == Top.kept + 1
           g == [Top EXCEPT !.rest = t, !.kept = k]
  <2>1. t \in Seq(Blocks) /\ k \in Nat
    BY <1>3, <1>4
  <2>2. next = g
    OBVIOUS
  <2> HIDE DEF next, t, k
  <2>3. /\ g \in Frames /\ g.at = Top.at /\ g.kept = k /\ (g.asked <=> Top.asked)
        /\ g.rest = t
    BY <1>2, <2>1 DEF Frames
  <2> QED BY <2>2, <2>3 DEF t, k
<1>7. call \in Frames /\ call.at = p /\ call.kept = 0 /\ ~call.asked
  BY <1>5 DEF Frames
<1>8. /\ budget' = Less(budget) /\ pc' = pc /\ UNCHANGED <<answered, header>>
      /\ block' = [q \in Paths \cup {p} |-> IF q = p THEN b ELSE block[q]]
      /\ frames' = Append(Below, next) \o (IF Descends(b) THEN <<call>> ELSE <<>>)
  BY DEF Look
<1>9. budget \in Nat /\ budget > 1 /\ budget <= MaxBlocks /\ budget' = budget - 1
  BY <1>1, <1>8, ContentAssumption DEF TypeOK, Spent, Less
<1>10. p \notin Paths
  <2>1. Top.kept + 1 \in Nat /\ Top.kept + 1 > Top.kept
    BY <1>3
  <2>2. p \in Paths => Before(p, p)
    BY <1>3, <2>1 DEF CallInv
  <2> QED BY <1>5, <2>2, BeforeItself
<1>11. Paths' = Paths \cup {p} /\ Paths \subseteq Seq(Nat)
  BY <1>1, <1>8 DEF Paths, TypeOK
<1>12. /\ frames' \in Seq(Frames) /\ frames'[m] = next
       /\ \A i \in 1 .. m - 1 : frames'[i] = frames[i]
       /\ \/ Len(frames') = m
          \/ Len(frames') = m + 1 /\ frames'[m + 1] = call
  <2> HIDE DEF next, call, m
  <2>1. /\ Append(Below, next) \in Seq(Frames) /\ Len(Append(Below, next)) = m
        /\ Append(Below, next)[m] = next
        /\ \A i \in 1 .. m - 1 : Append(Below, next)[i] = frames[i]
    BY <1>2, <1>6, AppendIs
  <2>2. CASE Descends(b)
    <3>1. frames' = Append(Append(Below, next), call)
      BY <1>7, <1>8, <2>1, <2>2, AppendIsConcat
    <3>2. /\ frames' \in Seq(Frames) /\ Len(frames') = m + 1 /\ frames'[m + 1] = call
          /\ \A i \in 1 .. m : frames'[i] = Append(Below, next)[i]
      BY <1>2, <1>7, <2>1, <3>1, AppendIs
    <3> QED BY <1>2, <2>1, <3>2
  <2>3. CASE ~Descends(b)
    <3>1. frames' = Append(Below, next)
      BY <1>8, <2>1, <2>3
    <3> QED BY <2>1, <3>1
  <2> QED BY <2>2, <2>3
<1> HIDE DEF b, next, call
<1>13. TypeOK'
  <2>1. block' \in [Paths' -> Blocks]
    BY <1>1, <1>4, <1>8, <1>11 DEF TypeOK
  <2>2. IsFiniteSet(Paths')
    BY <1>1, <1>11, FS_AddElement DEF TypeOK
  <2>3. Paths' \subseteq Seq(Nat) /\ budget' \in 0 .. MaxBlocks
    <3>1. budget' \in 0 .. MaxBlocks
      BY <1>9, ContentAssumption
    <3> HIDE DEF p
    <3> QED BY <1>5, <1>11, <3>1
  <2> QED BY <1>1, <1>8, <1>12, <2>1, <2>2, <2>3 DEF TypeOK
<1>14. Cardinality(Paths') = Cardinality(Paths) + 1
  BY <1>1, <1>10, <1>11, FS_AddElement DEF TypeOK
<1>15. Cardinality(Paths') = IF budget' = 0 THEN MaxBlocks - 1 ELSE MaxBlocks - budget'
  BY <1>9, <1>14, ContentAssumption DEF FetchInv
<1>16. \A q \in Paths' : Len(q) <= MaxDepth
  BY <1>3, <1>5, <1>11 DEF FetchInv
<1>17. Calls' = 1 .. Len(frames') /\ Calls = 1 .. m /\ Calls' \subseteq 1 .. m + 1
       /\ Calls \subseteq Calls'
  BY <1>2, <1>12 DEF Calls
<1>18. \A i \in Calls : frames'[i].at = frames[i].at
                         /\ (i # m => frames'[i] = frames[i])
                         /\ (frames'[i].asked <=> frames[i].asked)
  <2> TAKE i \in Calls
  <2>1. i \in 1 .. m - 1 => frames'[i] = frames[i]
    BY <1>12
  <2>2. i \in 1 .. m - 1 \/ i = m
    BY <1>2, <1>17
  <2>3. frames'[m].at = frames[m].at /\ (frames'[m].asked <=> frames[m].asked)
    BY <1>2, <1>6, <1>12
  <2> QED BY <2>1, <2>2, <2>3
<1>19. /\ \A i \in Calls : i < m => /\ \A k \in 1 .. i - 1 : p[k] = frames[i].at[k]
                                   /\ p[i] = frames[i].kept
       /\ m \in Calls /\ frames[m].at = Top.at
  <2>1. m \in Calls
    BY <1>2, <1>17
  <2>2. ASSUME NEW i \in Calls, i < m PROVE i \in 1 .. m - 1 /\ \A k \in 1 .. i - 1 : k \in 1 .. m - 1
    BY <1>2, <1>17, <2>2
  <2> HIDE DEF m
  <2> QED BY <1>1, <1>2, <1>5, <2>1, <2>2 DEF StackInv
<1>20. StackInv'
  <2>1. pc' = "fetch" /\ frames' # <<>>
    BY <1>2, <1>8, <1>12
  <2>2. ASSUME NEW i \in Calls' PROVE Len(frames'[i].at) = i - 1 /\ (frames'[i].asked => i <= MaxDepth)
    <3>1. CASE i \in Calls
      BY <1>1, <1>18, <3>1 DEF StackInv
    <3>2. CASE i \notin Calls
      BY <1>5, <1>7, <1>12, <1>17, <3>2
    <3> QED BY <3>1, <3>2
  <2>3. ASSUME NEW i \in Calls', NEW j \in Calls', i < j
        PROVE  /\ \A k \in 1 .. i - 1 : frames'[j].at[k] = frames'[i].at[k]
               /\ frames'[j].at[i] = frames'[i].kept
    <3>1. CASE j \in Calls
      <4>1. i \in Calls /\ i # m
        BY <1>2, <1>17, <2>3, <3>1
      <4> QED BY <1>1, <1>18, <2>3, <3>1, <4>1 DEF StackInv
    <3>2. CASE j \notin Calls
      <4>1. j = m + 1 /\ frames'[j].at = p /\ i \in Calls /\ (i < m \/ i = m)
        BY <1>2, <1>7, <1>12, <1>17, <2>3, <3>2
      <4>2. CASE i < m
        <5>1. frames'[i] = frames[i] /\ p[i] = frames[i].kept
              /\ \A k \in 1 .. i - 1 : p[k] = frames[i].at[k]
          <6>1. i # m
            BY <1>2, <4>1, <4>2
          <6> QED BY <1>18, <1>19, <4>1, <4>2, <6>1
        <5> HIDE DEF p, m
        <5> QED BY <4>1, <5>1
      <4>3. CASE i = m
        BY <1>5, <1>6, <1>12, <4>1, <4>3
      <4> QED BY <4>1, <4>2, <4>3
    <3> QED BY <3>1, <3>2
  <2> QED BY <2>1, <2>2, <2>3 DEF StackInv
<1>21. \A q \in Paths : Before(q, p)
  BY <1>3 DEF CallInv
<1>22. ASSUME NEW i \in Calls' PROVE CallInv(frames[i])'
  <2>1. CASE i \in Calls /\ i # m
    <3>1. frames'[i] = frames[i] /\ CallInv(frames[i]) /\ frames[i] \in Frames
      BY <1>1, <1>18, <2>1 DEF FetchInv, TypeOK, Calls
    <3>2. i < m /\ i \in 1 .. m /\ frames[i].at \in Seq(Nat) /\ Len(frames[i].at) = i - 1
      BY <1>1, <1>2, <1>17, <2>1, <3>1 DEF StackInv, Frames
    <3>3. ASSUME NEW n \in Nat, n > frames[i].kept PROVE Before(p, Append(frames[i].at, n))
      <4> DEFINE a == frames[i].at
      <4>1. a \in Seq(Nat) /\ Len(p) > Len(a) /\ \A k \in 1 .. Len(a) : p[k] = a[k]
        BY <1>2, <1>5, <1>19, <2>1, <3>2
      <4>2. p[Len(a) + 1] < n
        <5>1. Len(a) + 1 = i /\ i \in Calls /\ frames[i].kept < n
          BY <1>2, <1>17, <2>1, <3>2, <3>3
        <5> HIDE DEF a, p
        <5> QED BY <1>19, <3>2, <5>1
      <4> HIDE DEF a, p
      <4> QED BY <1>5, <4>1, <4>2, BeforeBeside DEF a
    <3> QED BY <1>8, <1>11, <3>1, <3>3 DEF CallInv
  <2>2. CASE i = m
    <3>1. ASSUME NEW n \in 1 .. next.kept PROVE Append(next.at, n) \in Paths'
      <4>1. n \in 1 .. Top.kept \/ n = Top.kept + 1
        BY <1>3, <1>6
      <4> QED BY <1>3, <1>6, <1>11, <4>1 DEF CallInv
    <3>2. next.at \in DOMAIN answered' /\ answered'[next.at] = next.kept + Len(next.rest)
      BY <1>3, <1>4, <1>6, <1>8 DEF CallInv
    <3>3. ASSUME NEW n \in Nat, n > next.kept, NEW q \in Paths' PROVE Before(q, Append(next.at, n))
      <4>1. n > Top.kept /\ p[m] < n
        BY <1>3, <1>5, <1>6, <3>3
      <4>2. CASE q \in Paths
        BY <1>3, <1>6, <4>1, <4>2 DEF CallInv
      <4>3. Len(p) > Len(Top.at) /\ p[Len(Top.at) + 1] < n /\ \A k \in 1 .. Len(Top.at) : p[k] = Top.at[k]
        BY <1>2, <1>3, <1>5, <4>1
      <4>4. CASE q = p
        <5> HIDE DEF p
        <5> QED BY <1>3, <1>5, <1>6, <4>3, <4>4, BeforeBeside
      <4> QED BY <1>11, <4>2, <4>4
    <3> QED BY <1>6, <1>12, <2>2, <3>1, <3>2, <3>3 DEF CallInv
  <2>3. CASE i \notin Calls
    <3>1. frames'[i] = call
      BY <1>12, <1>17, <2>3
    <3>2. ASSUME NEW n \in Nat, NEW q \in Paths' PROVE Before(q, Append(p, n))
      <4>1. q \in Seq(Nat) /\ (Before(q, p) \/ q = p)
        BY <1>5, <1>11, <1>21
      <4> HIDE DEF p
      <4> QED BY <1>5, <4>1, BeforeBelow
    <3> HIDE DEF p
    <3>3. call.kept = 0 /\ (call.asked <=> FALSE) /\ call.at = p /\ 1 .. call.kept = {}
      BY <1>7
    <3> QED BY <3>1, <3>2, <3>3 DEF CallInv
  <2> QED BY <2>1, <2>2, <2>3
<1>23. ASSUME NEW q \in DOMAIN answered' PROVE (UnderWay(q) \/ Settled(q))'
  <2>1. q \in DOMAIN answered /\ answered'[q] = answered[q]
    BY <1>8
  <2>2. CASE UnderWay(q)
    BY <1>17, <1>18, <2>2 DEF UnderWay
  <2>3. CASE Settled(q)
    <3>1. \A n \in 1 .. answered[q] : Append(q, n) \in Paths
      BY <1>9, <2>3 DEF Settled
    <3> QED BY <1>11, <2>1, <3>1 DEF Settled
  <2> QED BY <2>1, <2>2, <2>3 DEF FetchInv
<1>24. NoGaps'
  <2> SUFFICES ASSUME NEW a \in Seq(Nat), NEW n \in Nat, Append(a, n) \in Paths'
               PROVE  n > 0 /\ \A k \in 1 .. n : Append(a, k) \in Paths'
    BY DEF NoGaps
  <2>1. CASE Append(a, n) \in Paths
    BY <1>11, <2>1 DEF FetchInv, NoGaps
  <2>2. CASE Append(a, n) = p
    <3>1. a = Top.at /\ n = Top.kept + 1
      <4> DEFINE k == Top.kept + 1
                 t == Top.at
      <4>1. k \in Nat /\ t \in Seq(Nat) /\ Append(a, n) = Append(t, k)
        BY <1>3, <2>2
      <4> HIDE DEF k, t, p
      <4>2. a = t /\ n = k
        BY <4>1, AppendApart
      <4> QED BY <4>2 DEF k, t
    <3>2. \A k \in 1 .. n : k \in 1 .. Top.kept \/ k = Top.kept + 1
      BY <1>3, <3>1
    <3> QED BY <1>3, <1>11, <3>1, <3>2 DEF CallInv
  <2> QED BY <1>11, <2>1, <2>2
<1> QED BY <1>13, <1>15, <1>16, <1>20, <1>22, <1>23, <1>24 DEF FetchInv

LEMMA FetchStep == FetchInv /\ [Next]_vars => FetchInv'
<1> SUFFICES ASSUME FetchInv, [Next]_vars PROVE FetchInv'
  OBVIOUS
<1>1. CASE Ask
  <2>1. CASE TooDeep
    <3>1. CASE Return /\ UNCHANGED answered
      BY <1>1, <3>1, ReturnKeeps DEF Ask
    <3> QED BY <1>1, <2>1, <3>1 DEF Ask
  <2>2. CASE ~TooDeep
    BY <1>1, <2>2, AnswerKeeps DEF Ask
  <2> QED BY <2>1, <2>2
<1>2. CASE Denied
  BY <1>2, ReturnKeeps DEF Denied
<1>3. CASE Fail
  <2>1. pc' = "failed" /\ UNCHANGED <<frames, budget, block, answered, header>>
    BY <1>3 DEF Fail
  <2>2. TypeOK' /\ StackInv' /\ \A i \in Calls' : CallInv(frames[i])'
    BY <2>1 DEF FetchInv, TypeOK, StackInv, Calls, CallInv, Paths
  <2>3. \A p \in DOMAIN answered' : (UnderWay(p) \/ Settled(p))'
    BY <2>1 DEF FetchInv, UnderWay, Calls, Settled, Paths
  <2>4. /\ Cardinality(Paths') = IF budget' = 0 THEN MaxBlocks - 1 ELSE MaxBlocks - budget'
        /\ \A p \in Paths' : Len(p) <= MaxDepth
        /\ NoGaps'
    BY <2>1 DEF FetchInv, Paths, NoGaps
  <2> QED BY <2>2, <2>3, <2>4 DEF FetchInv
<1>4. CASE Look
  <2>1. pc = "fetch" /\ Top.asked /\ UNCHANGED <<answered, header>> /\ budget \in Nat
    BY <1>4 DEF Look, FetchInv, TypeOK
  <2>2. CASE Top.rest = <<>>
    BY <1>4, <2>1, <2>2, ReturnKeeps DEF Look
  <2>3. CASE Top.rest # <<>> /\ Spent
    <3>1. Return /\ UNCHANGED block /\ budget' = Less(budget)
      BY <1>4, <2>3 DEF Look
    <3>2. budget <= 1 /\ budget' = 0
      BY <2>1, <2>3, <3>1 DEF Spent, Less
    <3> QED BY <2>1, <3>1, <3>2, ReturnKeeps
  <2>4. CASE Top.rest # <<>> /\ ~Spent
    BY <1>4, <2>1, <2>4, KeepKeeps
  <2> QED BY <2>2, <2>3, <2>4
<1>5. CASE UNCHANGED vars
  <2>1. UNCHANGED <<pc, frames, budget, block, answered, header>>
    BY <1>5 DEF vars
  <2>2. TypeOK' /\ StackInv' /\ \A i \in Calls' : CallInv(frames[i])'
    BY <2>1 DEF FetchInv, TypeOK, StackInv, Calls, CallInv, Paths
  <2>3. \A p \in DOMAIN answered' : (UnderWay(p) \/ Settled(p))'
    BY <2>1 DEF FetchInv, UnderWay, Calls, Settled, Paths
  <2>4. /\ Cardinality(Paths') = IF budget' = 0 THEN MaxBlocks - 1 ELSE MaxBlocks - budget'
        /\ \A p \in Paths' : Len(p) <= MaxDepth
        /\ NoGaps'
    BY <2>1 DEF FetchInv, Paths, NoGaps
  <2> QED BY <2>2, <2>3, <2>4 DEF FetchInv
<1> QED BY <1>1, <1>2, <1>3, <1>4, <1>5 DEF Next

LEMMA FetchInvariant == Spec => []FetchInv
BY FetchInit, FetchStep, PTL DEF Spec

(***************************************************************************)
(* What is kept of a page is its beginning: fewer than MaxBlocksPerPage    *)
(* blocks, at most MaxBlockDepth levels, and nothing left out before one   *)
(* that is kept, wherever in the nested calls of fetchChildren the budget  *)
(* runs out and whatever Notion answers, refuses or is not asked for.      *)
(***************************************************************************)
THEOREM BeginningIsKept == Spec => []KeepsTheBeginning
<1>1. FetchInv => KeepsTheBeginning
  <2> SUFFICES ASSUME FetchInv PROVE KeepsTheBeginning
    OBVIOUS
  <2>1. budget \in Nat /\ MaxBlocks \in Nat \ {0} /\ Cardinality(Paths) < MaxBlocks
    BY ContentAssumption DEF FetchInv, TypeOK
  <2>2. ASSUME pc = "done", NEW p \in DOMAIN answered, NEW n \in 1 .. answered[p],
               Append(p, n) \notin Paths
        PROVE  Cardinality(Paths) = MaxBlocks - 1 /\ \A q \in Paths : Before(q, Append(p, n))
    <3>1. frames = <<>>
      BY <2>2 DEF FetchInv, StackInv
    <3>2. ~UnderWay(p)
      BY <3>1 DEF UnderWay, Calls
    <3>3. Settled(p)
      BY <3>2 DEF FetchInv
    <3>4. budget = 0 /\ \A q \in Paths : Before(q, Append(p, n))
      BY <2>2, <3>3 DEF Settled
    <3> QED BY <3>4 DEF FetchInv
  <2> QED BY <2>1, <2>2 DEF KeepsTheBeginning, FetchInv
<1> QED BY <1>1, FetchInvariant, PTL
-----------------------------------------------------------------------------
(* Loops: a recursive function is the sequence of the loop's states. *)

LEMMA Induction ==
    ASSUME NEW m \in Nat, NEW T, 0 \in T, \A n \in 0 .. m - 1 : n \in T => n + 1 \in T
    PROVE  \A n \in 0 .. m : n \in T
<1> DEFINE R == {ss \in Nat \X Nat : ss[1] < ss[2]}
           S == {n \in 0 .. m : n \notin T}
<1> SUFFICES ASSUME S # {} PROVE FALSE
  OBVIOUS
<1>1. IsWellFoundedOn(R, Nat)
  BY NatLessThanWellFounded DEF OpToRel
<1>2. S \in SUBSET Nat
  OBVIOUS
<1>3. PICK n \in S : \A k \in S : <<k, n>> \notin R
  <2> HIDE DEF S, R
  <2> QED BY <1>1, <1>2, WFMin
<1>4. \A k \in S : ~(k < n)
  <2> TAKE k \in S
  <2>1. <<k, n>> \in Nat \X Nat /\ <<k, n>> \notin R
    BY <1>2, <1>3
  <2> QED BY <2>1
<1>5. n \in 0 .. m /\ n # 0 /\ n \notin T
  OBVIOUS
<1>6. n - 1 \in 0 .. m - 1 /\ n - 1 < n /\ (n - 1) + 1 = n
  BY <1>5
<1>7. n - 1 \in T
  BY <1>4, <1>6
<1> QED BY <1>5, <1>6, <1>7

\* The values of g are made in m steps.
Follows(g, m, base, step) == g[0] = base /\ \A n \in 1 .. m : g[n] = step[n][g[n - 1]]

\* A recursion over the first m numbers is well defined.
LEMMA Recursion ==
    ASSUME NEW m \in Nat, NEW D, NEW base \in D, NEW step \in [1 .. m -> [D -> D]]
    PROVE  \E g \in [0 .. m -> D] : Follows(g, m, base, step)
<1> DEFINE Q(g, k) == Follows(g, k, base, step)
           T == {k \in 0 .. m : \E g \in [0 .. k -> D] : Q(g, k)}
<1>1. 0 \in T
  <2> DEFINE f == [n \in 0 .. 0 |-> base]
  <2>1. f \in [0 .. 0 -> D] /\ Q(f, 0)
    BY DEF Follows
  <2> HIDE DEF f
  <2> QED BY <2>1
<1>2. ASSUME NEW k \in 0 .. m - 1, k \in T PROVE k + 1 \in T
  <2>1. PICK f \in [0 .. k -> D] : Q(f, k)
    BY <1>2
  <2> DEFINE g == [n \in 0 .. k + 1 |-> IF n <= k THEN f[n] ELSE step[k + 1][f[k]]]
  <2>2. k + 1 \in 1 .. m /\ f[k] \in D /\ step[k + 1] \in [D -> D]
    OBVIOUS
  <2>3. g \in [0 .. k + 1 -> D]
    BY <2>2
  <2>4. ASSUME NEW n \in 1 .. k + 1 PROVE g[n] = step[n][g[n - 1]]
    <3>1. CASE n <= k
      <4>1. n - 1 \in 0 .. k + 1 /\ n - 1 <= k /\ n \in 1 .. k
        BY <3>1
      <4>2. g[n] = f[n] /\ g[n - 1] = f[n - 1]
        BY <3>1, <4>1
      <4> QED BY <4>1, <4>2, <2>1 DEF Follows
    <3>2. CASE n = k + 1
      <4>1. g[n] = step[k + 1][f[k]] /\ g[n - 1] = f[k]
        BY <3>2
      <4> QED BY <4>1, <3>2
    <3> QED BY <3>1, <3>2
  <2>5. g[0] = base
    BY <2>1 DEF Follows
  <2>6. Q(g, k + 1)
    BY <2>4, <2>5 DEF Follows
  <2> HIDE DEF g
  <2> QED BY <2>3, <2>6
<1>3. \A k \in 0 .. m : k \in T
  <2> HIDE DEF T
  <2> QED BY <1>1, <1>2, Induction
<1>4. m \in T
  BY <1>3
<1> QED BY <1>4

\* The concatenation of the first n sequences, for each n.
LEMMA FlattenUpTo ==
    ASSUME NEW S, NEW ss \in Seq(Seq(S))
    PROVE  \E f \in [0 .. Len(ss) -> Seq(S)] :
              /\ f[0] = <<>> /\ \A n \in 1 .. Len(ss) : f[n] = f[n - 1] \o ss[n]
              /\ FlattenSeq(ss) = f[Len(ss)]
<1> DEFINE m == Len(ss)
           step == [n \in 1 .. m |-> [x \in Seq(S) |-> x \o ss[n]]]
           Q(g) == g = [i \in 1 .. m |-> IF i = 1 THEN ss[i] ELSE g[i - 1] \o ss[i]]
           flat == CHOOSE g : Q(g)
<1>1. m \in Nat /\ \A n \in 1 .. m : ss[n] \in Seq(S)
  OBVIOUS
<1>2. step \in [1 .. m -> [Seq(S) -> Seq(S)]]
  BY <1>1
<1>3. PICK f \in [0 .. m -> Seq(S)] : Follows(f, m, <<>>, step)
  <2>1. <<>> \in Seq(S)
    OBVIOUS
  <2> HIDE DEF step, m
  <2> QED BY <1>1, <1>2, <2>1, Recursion
<1> HIDE DEF m, step
<1>4. f[0] = <<>> /\ \A n \in 1 .. m : f[n] = f[n - 1] \o ss[n]
  <2>1. ASSUME NEW n \in 1 .. m PROVE f[n] = f[n - 1] \o ss[n]
    <3>1. n - 1 \in 0 .. m /\ f[n - 1] \in Seq(S)
      BY <1>1
    <3>2. step[n][f[n - 1]] = f[n - 1] \o ss[n]
      BY <3>1 DEF step
    <3> QED BY <1>3, <3>2 DEF Follows
  <2> QED BY <1>3, <2>1 DEF Follows
<1>5. CASE m = 0
  <2>1. FlattenSeq(ss) = ss /\ ss = <<>>
    BY <1>5 DEF FlattenSeq, m
  <2> QED BY <1>4, <1>5, <2>1 DEF m
<1>6. CASE m # 0
  <2> DEFINE h == [i \in 1 .. m |-> f[i]]
  <2>1. ASSUME NEW i \in 1 .. m PROVE h[i] = IF i = 1 THEN ss[i] ELSE h[i - 1] \o ss[i]
    <3>1. CASE i = 1
      <4>1. f[i] = f[i - 1] \o ss[i] /\ ss[i] \in Seq(S)
        BY <1>1, <1>4
      <4>2. i - 1 = 0
        BY <3>1
      <4>3. f[i - 1] = <<>>
        BY <1>4, <4>2
      <4>4. f[i] = ss[i]
        BY <4>1, <4>3, ConcatEmptySeq
      <4> QED BY <3>1, <4>4
    <3>2. CASE i # 1
      <4>1. i - 1 \in 1 .. m
        BY <1>1, <3>2
      <4> QED BY <1>4, <3>2, <4>1
    <3> QED BY <3>1, <3>2
  <2>2. Q(h)
    <3> HIDE DEF h
    <3>1. h = [i \in 1 .. m |-> h[i]]
      BY DEF h
    <3>2. [i \in 1 .. m |-> h[i]] = [i \in 1 .. m |-> IF i = 1 THEN ss[i] ELSE h[i - 1] \o ss[i]]
      BY <2>1
    <3> QED BY <3>1, <3>2
  <2>3. Q(flat)
    BY <2>2
  <2>4. FlattenSeq(ss) = flat[m]
    BY <1>6 DEF FlattenSeq, m
  <2> DEFINE T == {n \in 0 .. m : n = 0 \/ flat[n] = f[n]}
  <2>5. \A n \in 0 .. m : n \in T
    <3>1. 0 \in T
      BY <1>1
    <3>2. ASSUME NEW n \in 0 .. m - 1, n \in T PROVE n + 1 \in T
      <4>1. n + 1 \in 1 .. m /\ (n + 1) - 1 = n
        BY <1>1
      <4>2. flat[n + 1] = IF n + 1 = 1 THEN ss[n + 1] ELSE flat[n] \o ss[n + 1]
        <5> HIDE DEF flat
        <5> QED BY <2>3, <4>1
      <4>3. f[n + 1] = f[n] \o ss[n + 1]
        BY <1>4, <4>1
      <4>4. CASE n = 0
        <5> HIDE DEF flat
        <5>1. ss[n + 1] \in Seq(S) /\ n + 1 = 1 /\ f[n] = <<>>
          BY <1>1, <1>4, <4>1, <4>4
        <5>2. flat[n + 1] = ss[n + 1]
          BY <4>2, <5>1
        <5>3. f[n + 1] = ss[n + 1]
          BY <4>3, <5>1, ConcatEmptySeq
        <5> QED BY <4>1, <5>2, <5>3
      <4>5. CASE n # 0
        <5>1. flat[n] = f[n] /\ n + 1 # 1
          BY <3>2, <4>5
        <5>2. flat[n + 1] = f[n + 1]
          <6> HIDE DEF flat
          <6> QED BY <4>2, <4>3, <5>1
        <5> QED BY <4>1, <5>2
      <4> QED BY <4>4, <4>5
    <3> HIDE DEF T
    <3> QED BY <1>1, <3>1, <3>2, Induction
  <2>6. flat[m] = f[m]
    <3>1. m \in 0 .. m
      BY <1>1
    <3> HIDE DEF flat
    <3> QED BY <1>6, <2>5, <3>1
  <2> QED BY <1>3, <1>4, <2>4, <2>6 DEF m
<1> QED BY <1>5, <1>6

LEMMA FlattenType ==
    ASSUME NEW S, NEW ss \in Seq(Seq(S))
    PROVE  FlattenSeq(ss) \in Seq(S)
<1>1. PICK f \in [0 .. Len(ss) -> Seq(S)] : FlattenSeq(ss) = f[Len(ss)]
  BY FlattenUpTo
<1>2. Len(ss) \in 0 .. Len(ss)
  OBVIOUS
<1> QED BY <1>1, <1>2

-----------------------------------------------------------------------------
(* The lines that are written. *)

BlockLines == [size : Nat, level : Nat, of : Seq(Nat)]
LinesOf(L) == [at : L, size : Nat, level : Nat]
PlainLines == LinesOf(Nat)

LEMMA AsBlockType ==
    ASSUME NEW ls \in Seq(BlockLines)
    PROVE  AsBlock(ls) \in Seq(BlockLines)
<1>1. Blank \in BlockLines
  BY DEF Blank, BlockLines
<1> QED BY <1>1, AppendIs DEF AsBlock

LEMMA OwnLinesType ==
    ASSUME FetchInv, NEW p \in Paths
    PROVE  OwnLines(p) \in Seq(BlockLines)
<1>1. p \in Seq(Nat) /\ block[p] \in Blocks
  BY DEF FetchInv, TypeOK
<1> DEFINE text == block[p].text
           own == [n \in DOMAIN text |-> [size |-> text[n].size, level |-> text[n].level, of |-> p]]
<1>2. text \in Seq([size : Nat, level : Nat])
  BY <1>1 DEF Blocks
<1> HIDE DEF text
<1>3. Len(text) \in Nat /\ DOMAIN text = 1 .. Len(text)
  BY <1>2
<1>4. \A n \in 1 .. Len(text) : text[n] \in [size : Nat, level : Nat]
  <2> DEFINE L == [size : Nat, level : Nat]
  <2>1. text \in Seq(L)
    BY <1>2
  <2> HIDE DEF L
  <2>2. \A n \in 1 .. Len(text) : text[n] \in L
    BY <2>1
  <2> QED BY <2>2 DEF L
<1>5. \A n \in 1 .. Len(text) :
         [size |-> text[n].size, level |-> text[n].level, of |-> p] \in BlockLines
  BY <1>1, <1>4 DEF BlockLines
<1>6. own \in [1 .. Len(text) -> BlockLines]
  BY <1>3, <1>5
<1>7. own \in Seq(BlockLines)
  <2> HIDE DEF own
  <2> QED BY <1>3, <1>6
<1> QED BY <1>7 DEF OwnLines, text

LEMMA RowsType ==
    ASSUME NEW ls \in Seq(BlockLines)
    PROVE  Rows(ls) \in Seq(BlockLines)
<1> DEFINE ss == [n \in DOMAIN ls |-> IF ls[n].size > 0 THEN <<ls[n]>> ELSE <<>>]
<1>1. \A n \in DOMAIN ls : ls[n] \in BlockLines
  OBVIOUS
<1>2. \A n \in DOMAIN ls : ss[n] \in Seq(BlockLines)
  BY <1>1
<1>3. Len(ls) \in Nat /\ DOMAIN ls = 1 .. Len(ls)
  OBVIOUS
<1>4. ss \in [1 .. Len(ls) -> Seq(BlockLines)]
  BY <1>2, <1>3
<1>5. ss \in Seq(Seq(BlockLines))
  <2> HIDE DEF ss
  <2> QED BY <1>3, <1>4
<1> HIDE DEF ss
<1> QED BY <1>5, FlattenType DEF Rows, ss

LEMMA WrittenType ==
    ASSUME FetchInv, NEW p \in Paths, NEW below \in Seq(BlockLines)
    PROVE  Written(p, below) \in Seq(BlockLines)
<1> DEFINE own == OwnLines(p)
           close == <<[size |-> CloseSize, level |-> 0, of |-> p]>>
<1>1. own \in Seq(BlockLines) /\ AsBlock(own) \in Seq(BlockLines)
  BY OwnLinesType, AsBlockType
<1>2. close \in Seq(BlockLines) /\ AsBlock(close) \in Seq(BlockLines)
  <2>1. p \in Seq(Nat) /\ CloseSize \in Nat
    BY ContentAssumption DEF FetchInv, TypeOK
  <2>2. close \in Seq(BlockLines)
    BY <2>1 DEF BlockLines
  <2> HIDE DEF close
  <2> QED BY <2>2, AsBlockType
<1>3. Rows(below) \in Seq(BlockLines) /\ AsBlock(Rows(below)) \in Seq(BlockLines)
  BY RowsType, AsBlockType
<1>4. block[p].kind \in Kinds
  BY DEF FetchInv, TypeOK, Blocks
<1> DEFINE text == (IF own = <<>> THEN <<>> ELSE AsBlock(own)) \o below
           item == own \o below
           toggle == AsBlock(own) \o below \o AsBlock(close)
           table == IF Rows(below) = <<>> THEN <<>> ELSE AsBlock(Rows(below))
<1>5. /\ text \in Seq(BlockLines) /\ item \in Seq(BlockLines)
      /\ toggle \in Seq(BlockLines) /\ table \in Seq(BlockLines)
  <2> HIDE DEF own, close
  <2> QED BY <1>1, <1>2, <1>3
<1>6. Written(p, below) \in {text, item, toggle, AsBlock(own), table, below, <<>>}
  <2>1. CASE block[p].kind = "text"
    BY <2>1 DEF Written
  <2>2. CASE block[p].kind = "item"
    BY <2>2 DEF Written
  <2>3. CASE block[p].kind = "toggle"
    BY <2>3 DEF Written
  <2>4. CASE block[p].kind \in {"leaf", "child"}
    BY <2>4 DEF Written
  <2>5. CASE block[p].kind = "table"
    BY <2>5 DEF Written
  <2>6. CASE block[p].kind \in {"group", "other"}
    BY <2>6 DEF Written
  <2>7. block[p].kind \in {"text", "item", "toggle", "leaf", "child", "table", "group", "other"}
    BY <1>4 DEF Kinds
  <2> HIDE DEF own, close, text, item, toggle, table
  <2> QED BY <2>1, <2>2, <2>3, <2>4, <2>5, <2>6, <2>7
<1>7. <<>> \in Seq(BlockLines)
  OBVIOUS
<1> HIDE DEF own, close, text, item, toggle, table
<1> QED BY <1>1, <1>5, <1>6, <1>7

LEMMA Least ==
    ASSUME NEW S \in SUBSET Nat, S # {}
    PROVE  \E k \in S : \A j \in S : k <= j
<1> DEFINE R == {ss \in Nat \X Nat : ss[1] < ss[2]}
<1>1. IsWellFoundedOn(R, Nat)
  BY NatLessThanWellFounded DEF OpToRel
<1>2. PICK k \in S : \A j \in S : <<j, k>> \notin R
  <2> HIDE DEF R
  <2> QED BY <1>1, WFMin
<1>3. \A j \in S : k <= j
  <2> TAKE j \in S
  <2>1. <<j, k>> \in Nat \X Nat /\ <<j, k>> \notin R
    BY <1>2
  <2> QED BY <2>1
<1> QED BY <1>3

LEMMA ChildrenIs ==
    ASSUME FetchInv, NEW p \in Seq(Nat)
    PROVE  \E k \in Nat : ChildrenOf(p) = 1 .. k
<1> DEFINE S == {n \in 0 .. MaxBlocks : n + 1 \notin ChildrenOf(p)}
<1>1. MaxBlocks \in Nat
  BY ContentAssumption
<1>2. MaxBlocks \in S /\ S \in SUBSET Nat
  BY <1>1 DEF ChildrenOf
<1>3. PICK k \in S : \A j \in S : k <= j
  <2> HIDE DEF S
  <2> QED BY <1>2, Least
<1>4. k \in Nat /\ k \in 0 .. MaxBlocks /\ k + 1 \notin ChildrenOf(p)
  BY <1>1, <1>3
<1>5. ASSUME NEW n \in 1 .. k PROVE n \in ChildrenOf(p)
  <2>1. n - 1 \in 0 .. MaxBlocks /\ n - 1 < k /\ (n - 1) + 1 = n
    BY <1>1, <1>4
  <2>2. n - 1 \notin S
    <3> HIDE DEF S
    <3> QED BY <1>3, <1>4, <2>1
  <2> QED BY <2>1, <2>2
<1>6. ASSUME NEW n \in ChildrenOf(p) PROVE n \in 1 .. k
  <2>1. n \in 1 .. MaxBlocks /\ Append(p, n) \in Paths
    BY DEF ChildrenOf
  <2>2. \A j \in 1 .. n : Append(p, j) \in Paths
    BY <1>1, <2>1 DEF FetchInv, NoGaps
  <2>3. ASSUME n > k PROVE FALSE
    <3>1. k + 1 \in 1 .. n /\ k + 1 \in 1 .. MaxBlocks
      BY <1>1, <1>4, <2>1, <2>3
    <3>2. k + 1 \in ChildrenOf(p)
      BY <2>2, <3>1 DEF ChildrenOf
    <3> QED BY <1>4, <3>2
  <2> QED BY <1>1, <1>4, <2>1, <2>3
<1> QED BY <1>4, <1>5, <1>6

LEMMA ChildLines ==
    ASSUME FetchInv, NEW p \in Seq(Nat), NEW x \in [Paths -> Seq(BlockLines)]
    PROVE  FlattenSeq([n \in ChildrenOf(p) |-> x[Append(p, n)]]) \in Seq(BlockLines)
<1> DEFINE ss == [n \in ChildrenOf(p) |-> x[Append(p, n)]]
<1>1. PICK k \in Nat : ChildrenOf(p) = 1 .. k
  BY ChildrenIs
<1>2. \A n \in ChildrenOf(p) : x[Append(p, n)] \in Seq(BlockLines)
  BY DEF ChildrenOf
<1>3. ss \in [1 .. k -> Seq(BlockLines)]
  BY <1>1, <1>2
<1>4. ss \in Seq(Seq(BlockLines))
  <2> HIDE DEF ss
  <2> QED BY <1>3
<1> HIDE DEF ss
<1>5. FlattenSeq(ss) \in Seq(BlockLines)
  BY <1>4, FlattenType
<1> QED BY <1>5 DEF ss

\* The lines of the children of p, of those of each block.
LinesBelow(p, x) == FlattenSeq([n \in ChildrenOf(p) |-> x[Append(p, n)]])

LEMMA RenderedType ==
    ASSUME FetchInv
    PROVE  Rendered[MaxDepth] \in [Paths -> Seq(BlockLines)]
<1> DEFINE D == [Paths -> Seq(BlockLines)]
           first == [p \in Paths |-> Written(p, <<>>)]
           above(x) == [p \in Paths |-> Written(p, LinesBelow(p, x))]
           step == [n \in 1 .. MaxDepth |-> [x \in D |-> above(x)]]
           Q(g) == g = [levels \in 0 .. MaxDepth |->
                          [p \in Paths |->
                             Written(p, IF levels = 0 THEN <<>>
                                        ELSE FlattenSeq([n \in ChildrenOf(p) |->
                                                           g[levels - 1][Append(p, n)]]))]]
<1>1. MaxDepth \in Nat /\ Paths \subseteq Seq(Nat)
  BY ContentAssumption DEF FetchInv, TypeOK
<1>2. first \in D
  <2>1. <<>> \in Seq(BlockLines)
    OBVIOUS
  <2>2. \A p \in Paths : Written(p, <<>>) \in Seq(BlockLines)
    BY <2>1, WrittenType
  <2> QED BY <2>2
<1>3. ASSUME NEW x \in D PROVE above(x) \in D
  <2>1. \A p \in Paths : LinesBelow(p, x) \in Seq(BlockLines)
    BY <1>1, ChildLines DEF LinesBelow
  <2>2. \A p \in Paths : Written(p, LinesBelow(p, x)) \in Seq(BlockLines)
    BY <2>1, WrittenType
  <2> QED BY <2>2
<1>4. step \in [1 .. MaxDepth -> [D -> D]]
  <2> HIDE DEF D, above
  <2> QED BY <1>3
<1>5. PICK g \in [0 .. MaxDepth -> D] : Follows(g, MaxDepth, first, step)
  <2> HIDE DEF D, first, step
  <2> QED BY <1>1, <1>2, <1>4, Recursion
<1>6. ASSUME NEW n \in 1 .. MaxDepth PROVE g[n] = above(g[n - 1])
  <2>1. n - 1 \in 0 .. MaxDepth
    BY <1>1
  <2>2. g[n - 1] \in D
    <3> HIDE DEF D
    <3> QED BY <2>1
  <2>3. step[n][g[n - 1]] = above(g[n - 1])
    <3> HIDE DEF D, above
    <3> QED BY <2>2
  <2> HIDE DEF step, D, above
  <2> QED BY <1>5, <2>3 DEF Follows
<1>7. Q(g)
  <2> DEFINE rhs == [levels \in 0 .. MaxDepth |->
                       [p \in Paths |->
                          Written(p, IF levels = 0 THEN <<>>
                                     ELSE FlattenSeq([n \in ChildrenOf(p) |->
                                                        g[levels - 1][Append(p, n)]]))]]
  <2>1. ASSUME NEW n \in 0 .. MaxDepth PROVE g[n] = rhs[n]
    <3>1. CASE n = 0
      <4>1. g[0] = first
        BY <1>5 DEF Follows
      <4>2. rhs[0] = first
        BY <1>1
      <4> QED BY <3>1, <4>1, <4>2
    <3>2. CASE n # 0
      <4>1. n \in 1 .. MaxDepth
        BY <1>1, <3>2
      <4>2. g[n] = above(g[n - 1])
        BY <1>6, <4>1
      <4>3. rhs[n] = above(g[n - 1])
        BY <3>2 DEF LinesBelow
      <4> QED BY <4>2, <4>3
    <3> QED BY <3>1, <3>2
  <2>2. g = [n \in 0 .. MaxDepth |-> g[n]]
    BY <1>5
  <2>3. rhs = [n \in 0 .. MaxDepth |-> rhs[n]]
    OBVIOUS
  <2>4. g = rhs
    <3> HIDE DEF rhs
    <3> QED BY <2>1, <2>2, <2>3
  <2> QED BY <2>4
<1>8. Rendered = CHOOSE f : Q(f)
  BY DEF Rendered
<1>9. Q(Rendered)
  <2> HIDE DEF Q
  <2> QED BY <1>7, <1>8
<1> DEFINE f == Rendered
           T == {n \in 0 .. MaxDepth : f[n] \in D}
<1>10. f[0] = first /\ \A n \in 1 .. MaxDepth : f[n] = above(f[n - 1])
  <2>1. f[0] = first
    BY <1>1, <1>9
  <2>2. ASSUME NEW n \in 1 .. MaxDepth PROVE f[n] = above(f[n - 1])
    <3>1. n \in 0 .. MaxDepth /\ n # 0
      BY <1>1
    <3> QED BY <1>9, <3>1 DEF LinesBelow
  <2> QED BY <2>1, <2>2
<1> HIDE DEF f, Q, first, above, D
<1>11. \A n \in 0 .. MaxDepth : n \in T
  <2>1. 0 \in T
    BY <1>1, <1>2, <1>10
  <2>2. ASSUME NEW n \in 0 .. MaxDepth - 1, n \in T PROVE n + 1 \in T
    <3>1. n + 1 \in 1 .. MaxDepth /\ n + 1 \in 0 .. MaxDepth /\ (n + 1) - 1 = n
      BY <1>1
    <3>2. f[n + 1] = above(f[n]) /\ f[n] \in D
      BY <1>10, <2>2, <3>1
    <3> QED BY <1>3, <3>1, <3>2
  <2> HIDE DEF T
  <2> QED BY <1>1, <2>1, <2>2, Induction
<1> QED BY <1>1, <1>11 DEF f, D

\* There is a last line with text, or none.
LEMMA LastTextIs ==
    ASSUME NEW ls \in Seq(BlockLines)
    PROVE  LastText(ls) \in 0 .. Len(ls)
<1> DEFINE m == Len(ls)
           S == {k \in 0 .. m : \A n \in k + 1 .. m : ls[n].size = 0}
<1>1. m \in Nat
  OBVIOUS
<1> HIDE DEF m
<1>2. m \in S /\ S \in SUBSET Nat
  BY <1>1
<1>3. PICK k \in S : \A j \in S : k <= j
  <2> HIDE DEF S
  <2> QED BY <1>2, Least
<1>4. k \in 0 .. m /\ \A n \in k + 1 .. m : ls[n].size = 0
  BY <1>3
<1>5. ASSUME k > 0 PROVE ls[k].size > 0
  <2>1. k - 1 \in 0 .. m /\ k - 1 \in Nat /\ ~(k <= k - 1) /\ (k - 1) + 1 = k /\ k \in 1 .. m
    BY <1>1, <1>4, <1>5
  <2>2. k - 1 \notin S
    <3> HIDE DEF S
    <3> QED BY <1>3, <2>1
  <2>3. PICK n \in k .. m : ls[n].size # 0
    BY <2>1, <2>2
  <2>4. n = k
    BY <1>1, <1>4, <2>1, <2>3
  <2>5. ls[k] \in BlockLines
    BY <2>1 DEF m
  <2>6. ls[k].size \in Nat
    BY <2>5 DEF BlockLines
  <2> QED BY <2>3, <2>4, <2>6
<1> QED BY <1>4, <1>5 DEF LastText, m

LEMMA LinesType ==
    ASSUME FetchInv
    PROVE  Lines \in Seq(PlainLines) /\ \A n \in 1 .. Len(Lines) : Lines[n].at = n
<1> DEFINE x == Rendered[MaxDepth]
           ss == [n \in ChildrenOf(<<>>) |-> x[Append(<<>>, n)]]
           all == FlattenSeq([n \in ChildrenOf(<<>>) |-> x[<<n>>]])
           last == LastText(all)
           kept == AsBlock(SubSeq(all, 1, last))
<1>1. all = FlattenSeq(ss)
  <2>1. \A n \in ChildrenOf(<<>>) : Append(<<>>, n) = <<n>>
    OBVIOUS
  <2>2. ss = [n \in ChildrenOf(<<>>) |-> x[<<n>>]]
    <3> HIDE DEF x
    <3> QED BY <2>1
  <2> HIDE DEF x
  <2> QED BY <2>2
<1>2. all \in Seq(BlockLines)
  <2>1. x \in [Paths -> Seq(BlockLines)] /\ <<>> \in Seq(Nat)
    BY RenderedType
  <2> HIDE DEF x
  <2>2. FlattenSeq(ss) \in Seq(BlockLines)
    BY <2>1, ChildLines
  <2> HIDE DEF ss
  <2> QED BY <1>1, <2>2
<1> HIDE DEF all
<1>3. last \in 0 .. Len(all)
  BY <1>2, LastTextIs
<1> HIDE DEF last
<1>4. SubSeq(all, 1, last) \in Seq(BlockLines)
  BY <1>2, <1>3
<1>5. kept \in Seq(BlockLines)
  BY <1>4, AsBlockType
<1>6. Lines = [n \in DOMAIN kept |-> [at |-> n, size |-> kept[n].size, level |-> kept[n].level]]
  BY DEF Lines, kept, all, last, x
<1> HIDE DEF kept
<1>7. Len(kept) \in Nat /\ DOMAIN kept = 1 .. Len(kept) /\ \A n \in 1 .. Len(kept) : kept[n] \in BlockLines
  BY <1>5
<1>8. \A n \in 1 .. Len(kept) :
         [at |-> n, size |-> kept[n].size, level |-> kept[n].level] \in PlainLines
  BY <1>7 DEF BlockLines, PlainLines, LinesOf
<1>9. Lines \in [1 .. Len(kept) -> PlainLines]
  BY <1>6, <1>7, <1>8
<1>10. Lines \in Seq(PlainLines) /\ Len(Lines) = Len(kept)
  BY <1>7, <1>9
<1>11. \A n \in 1 .. Len(kept) : Lines[n].at = n
  BY <1>6, <1>7
<1> QED BY <1>10, <1>11

-----------------------------------------------------------------------------
(* splitSections *)

Sects == [heading : Seq(Nat), body : Seq(PlainLines)]
Cutting == [out : Seq(Sects), path : Seq(Nat), body : Seq(PlainLines)]

LEMMA FlushedType ==
    ASSUME NEW acc \in Cutting
    PROVE  Flushed(acc) \in Cutting
<1> DEFINE s == [heading |-> acc.path, body |-> acc.body]
<1>1. acc.out \in Seq(Sects) /\ acc.path \in Seq(Nat) /\ acc.body \in Seq(PlainLines)
  BY DEF Cutting
<1>2. s \in Sects
  BY <1>1 DEF Sects
<1> HIDE DEF s
<1>3. Append(acc.out, s) \in Seq(Sects) /\ <<>> \in Seq(PlainLines)
  BY <1>1, <1>2, AppendIs
<1> QED BY <1>1, <1>3 DEF Cutting, Flushed, s

LEMMA CutType ==
    ASSUME NEW acc \in Cutting, NEW l \in PlainLines
    PROVE  Cut(acc, l) \in Cutting
<1>1. acc.out \in Seq(Sects) /\ acc.path \in Seq(Nat) /\ acc.body \in Seq(PlainLines)
  BY DEF Cutting
<1>2. CASE l.level = 0
  <2>1. Append(acc.body, l) \in Seq(PlainLines)
    BY <1>1, AppendIs
  <2> QED BY <1>1, <1>2, <2>1 DEF Cut, Cutting
<1>3. CASE l.level # 0
  <2>1. Flushed(acc) \in Cutting
    BY FlushedType
  <2> DEFINE path == Flushed(acc).path
             k == l.level - 1
  <2>2. path \in Seq(Nat) /\ l.at \in Nat /\ k \in Nat
    BY <1>3, <2>1 DEF Cutting, PlainLines, LinesOf
  <2>3. CASE l.level > Len(path)
    <3>1. PathWith(path, l) = Append(path, l.at)
      BY <2>3 DEF PathWith
    <3>2. PathWith(path, l) \in Seq(Nat)
      <4> HIDE DEF path
      <4> QED BY <2>2, <3>1, AppendIs
    <3> QED BY <1>3, <2>1, <3>2 DEF Cut, Cutting
  <2>4. CASE ~(l.level > Len(path))
    <3>1. PathWith(path, l) = Append(SubSeq(path, 1, k), l.at)
      BY <2>4 DEF PathWith
    <3>2. k <= Len(path)
      <4> HIDE DEF path
      <4> QED BY <2>2, <2>4 DEF PlainLines, LinesOf
    <3>3. SubSeq(path, 1, k) \in Seq(Nat)
      <4> HIDE DEF path, k
      <4> QED BY <2>2, <3>2
    <3>4. PathWith(path, l) \in Seq(Nat)
      <4> HIDE DEF path, k
      <4> QED BY <2>2, <3>1, <3>3, AppendIs
    <3> QED BY <1>3, <2>1, <3>4 DEF Cut, Cutting
  <2> QED BY <2>3, <2>4
<1> QED BY <1>2, <1>3

LEMMA CutUpToIs ==
    ASSUME NEW ls \in Seq(PlainLines)
    PROVE  /\ CutUpTo(ls)[0] = [out |-> <<>>, path |-> <<>>, body |-> <<>>]
           /\ \A n \in 1 .. Len(ls) : CutUpTo(ls)[n] = Cut(CutUpTo(ls)[n - 1], ls[n])
           /\ \A n \in 0 .. Len(ls) : CutUpTo(ls)[n] \in Cutting
<1> DEFINE m == Len(ls)
           base == [out |-> <<>>, path |-> <<>>, body |-> <<>>]
           step == [n \in 1 .. m |-> [acc \in Cutting |-> Cut(acc, ls[n])]]
           Q(g) == g = [n \in 0 .. m |->
                          IF n = 0 THEN [out |-> <<>>, path |-> <<>>, body |-> <<>>]
                          ELSE Cut(g[n - 1], ls[n])]
           f == CutUpTo(ls)
           T == {n \in 0 .. m : f[n] \in Cutting}
<1>1. m \in Nat /\ \A n \in 1 .. m : ls[n] \in PlainLines
  OBVIOUS
<1> HIDE DEF m
<1>2. base \in Cutting
  BY DEF Cutting
<1>3. step \in [1 .. m -> [Cutting -> Cutting]]
  BY <1>1, CutType
<1>4. PICK g \in [0 .. m -> Cutting] : Follows(g, m, base, step)
  <2> HIDE DEF base, step
  <2> QED BY <1>1, <1>2, <1>3, Recursion
<1>5. \A n \in 1 .. m : g[n] = Cut(g[n - 1], ls[n])
  <2> TAKE n \in 1 .. m
  <2>1. n - 1 \in 0 .. m
    BY <1>1
  <2>2. g[n - 1] \in Cutting
    BY <2>1
  <2>3. step[n][g[n - 1]] = Cut(g[n - 1], ls[n])
    BY <2>2
  <2> HIDE DEF step
  <2> QED BY <1>4, <2>3 DEF Follows
<1>6. Q(g)
  BY <1>4, <1>5 DEF Follows
<1>7. f = CHOOSE h : Q(h)
  BY DEF CutUpTo, m
<1>8. Q(f)
  BY <1>6, <1>7, Zenon
<1> HIDE DEF f
<1>9. f[0] = base /\ \A n \in 1 .. m : f[n] = Cut(f[n - 1], ls[n])
  BY <1>1, <1>8
<1> HIDE DEF base
<1>10. \A n \in 0 .. m : n \in T
  <2>1. 0 \in T
    BY <1>1, <1>2, <1>9
  <2>2. ASSUME NEW n \in 0 .. m - 1, n \in T PROVE n + 1 \in T
    <3>1. n + 1 \in 1 .. m /\ (n + 1) - 1 = n
      BY <1>1
    <3> QED BY <1>1, <1>9, <2>2, <3>1, CutType
  <2> HIDE DEF T
  <2> QED BY <1>1, <2>1, <2>2, Induction
<1> QED BY <1>9, <1>10 DEF f, m, base

LEMMA SectionsType ==
    ASSUME NEW ls \in Seq(PlainLines)
    PROVE  Sections(ls) \in Seq(Sects)
<1>1. Len(ls) \in 0 .. Len(ls)
  OBVIOUS
<1>2. Flushed(CutUpTo(ls)[Len(ls)]) \in Cutting
  BY <1>1, CutUpToIs, FlushedType
<1> QED BY <1>2 DEF Sections, Cutting

-----------------------------------------------------------------------------
(* The heading path. *)

LEMMA AboveNext ==
    ASSUME NEW ls \in Seq(PlainLines), NEW n \in 0 .. Len(ls) - 1
    PROVE  Above(ls, n + 2) =
              IF ls[n + 1].level = 0 THEN Above(ls, n + 1)
              ELSE {m \in Above(ls, n + 1) : ls[m].level < ls[n + 1].level} \cup {n + 1}
<1> DEFINE h == ls[n + 1].level
           here == Above(ls, n + 1)
           next == Above(ls, n + 2)
<1>1. n \in Nat /\ n + 1 \in 1 .. Len(ls) /\ (n + 1) - 1 = n /\ (n + 2) - 1 = n + 1
  OBVIOUS
<1>2. \A m \in 1 .. n + 1 : ls[m].level \in Nat
  <2>1. \A m \in 1 .. n + 1 : ls[m] \in PlainLines
    BY <1>1
  <2> QED BY <2>1 DEF PlainLines, LinesOf
<1>3. h \in Nat
  BY <1>1, <1>2
<1>4. \A m : m \in here <=> /\ m \in 1 .. n /\ ls[m].level > 0
                            /\ \A k \in m + 1 .. n : ls[k].level = 0 \/ ls[k].level > ls[m].level
  BY <1>1 DEF Above
<1>5. \A m : m \in next <=> /\ m \in 1 .. n + 1 /\ ls[m].level > 0
                            /\ \A k \in m + 1 .. n + 1 : ls[k].level = 0 \/ ls[k].level > ls[m].level
  BY <1>1 DEF Above
<1>6. ASSUME NEW m \in 1 .. n
      PROVE  m \in next <=> m \in here /\ (h = 0 \/ h > ls[m].level)
  <2>1. m + 1 .. n + 1 = (m + 1 .. n) \cup {n + 1}
    BY <1>1
  <2>2. m \in 1 .. n + 1
    BY <1>1
  <2> HIDE DEF here, next
  <2> QED BY <1>4, <1>5, <2>1, <2>2
<1>7. n + 1 \in next <=> h > 0
  <2>1. (n + 1) + 1 .. n + 1 = {} /\ n + 1 \in 1 .. n + 1
    BY <1>1
  <2> HIDE DEF next
  <2> QED BY <1>5, <2>1
<1>8. \A m \in here : m \in 1 .. n /\ ls[m].level \in Nat /\ ls[m].level > 0
  <2> HIDE DEF here
  <2> QED BY <1>1, <1>2, <1>4
<1>9. \A m \in next : m \in 1 .. n \/ m = n + 1
  <2> HIDE DEF next
  <2> QED BY <1>1, <1>5
<1> HIDE DEF here, next, h
<1>10. CASE h = 0
  <2>1. \A m : m \in next <=> m \in here
    BY <1>6, <1>7, <1>8, <1>9, <1>10
  <2>2. next = here
    BY <2>1
  <2> QED BY <1>10, <2>2 DEF next, here, h
<1>11. CASE h # 0
  <2>1. h > 0
    BY <1>3, <1>11
  <2>2. \A m : m \in next <=> (m \in here /\ ls[m].level < h) \/ m = n + 1
    BY <1>3, <1>6, <1>7, <1>8, <1>9, <1>11, <2>1
  <2>3. next = {m \in here : ls[m].level < h} \cup {n + 1}
    BY <2>2
  <2> QED BY <1>11, <2>3 DEF next, here, h
<1> QED BY <1>10, <1>11

\* The path after n lines: the headings the next line is under, one of each level.
PathInv(ls, path, n) ==
    /\ path \in Seq(Nat)
    /\ IsPathOf(path, Above(ls, n + 1))
    /\ \A i \in 1 .. Len(path) : path[i] \in 1 .. n /\ ls[path[i]].level = i

LEMMA PathStep ==
    ASSUME NEW ls \in Seq(PlainLines), NEW n \in 0 .. Len(ls) - 1, NEW path,
           PathInv(ls, path, n), Regular(ls), ls[n + 1].level > 0, ls[n + 1].at = n + 1
    PROVE  PathInv(ls, PathWith(path, ls[n + 1]), n + 1)
<1> DEFINE h == ls[n + 1].level
           k == h - 1
           q == SubSeq(path, 1, k)
           r == Append(q, n + 1)
<1>1. n \in Nat /\ n + 1 \in 1 .. Len(ls) /\ path \in Seq(Nat) /\ Len(path) \in Nat
  BY DEF PathInv
<1>2. h \in Nat /\ k \in Nat /\ h = k + 1
  <2>1. ls[n + 1] \in PlainLines
    BY <1>1
  <2> QED BY <2>1 DEF PlainLines, LinesOf
<1>3. k <= Len(path)
  <2>1. CASE h > 1
    <3>1. PICK m \in Above(ls, n + 1) : ls[m].level = h - 1
      BY <1>1, <2>1 DEF Regular
    <3>2. PICK i \in 1 .. Len(path) : path[i] = m
      BY <1>1, <3>1 DEF PathInv, IsPathOf, ToSet
    <3>3. i = k
      BY <3>1, <3>2 DEF PathInv
    <3> QED BY <1>1, <3>2, <3>3
  <2>2. CASE ~(h > 1)
    BY <1>1, <1>2, <2>2
  <2> QED BY <2>1, <2>2
<1> HIDE DEF h
<1>4. q \in Seq(Nat) /\ Len(q) = k /\ \A i \in 1 .. k : q[i] = path[i]
  <2> HIDE DEF k
  <2>1. \A i \in 1 .. k : path[i] \in Nat
    BY <1>1, <1>2, <1>3
  <2> QED BY <1>1, <1>2, <1>3, <2>1
<1>5. PathWith(path, ls[n + 1]) = r
  <2>1. CASE h > Len(path)
    <3>1. k = Len(path)
      BY <1>1, <1>2, <1>3, <2>1
    <3>2. q = path
      BY <1>1, <3>1, SubSeqFull
    <3> HIDE DEF q
    <3> QED BY <2>1, <3>2 DEF PathWith, h
  <2>2. CASE ~(h > Len(path))
    BY <2>2 DEF PathWith, h
  <2> QED BY <2>1, <2>2
<1> HIDE DEF q
<1>6. /\ r \in Seq(Nat) /\ Len(r) = k + 1 /\ r[k + 1] = n + 1
      /\ \A i \in 1 .. k : r[i] = path[i]
  BY <1>1, <1>2, <1>4, AppendIs
<1> HIDE DEF r, k
<1>7. \A i \in 1 .. k : i \in 1 .. Len(path) /\ path[i] \in 1 .. n /\ ls[path[i]].level = i
  BY <1>1, <1>2, <1>3 DEF PathInv
<1>8. ASSUME NEW i \in 1 .. Len(r) PROVE r[i] \in 1 .. n + 1 /\ ls[r[i]].level = i
  <2>1. CASE i = k + 1
    BY <1>1, <1>2, <1>6, <2>1 DEF h
  <2>2. CASE i # k + 1
    <3>1. i \in 1 .. k
      BY <1>2, <1>6, <2>2
    <3>2. r[i] = path[i] /\ path[i] \in 1 .. n /\ ls[path[i]].level = i
      BY <1>6, <1>7, <3>1
    <3>3. \A x \in 1 .. n : x \in 1 .. n + 1
      BY <1>1
    <3> QED BY <3>2, <3>3, Zenon
  <2> QED BY <2>1, <2>2
<1>9. ASSUME NEW i \in 1 .. Len(r), NEW j \in 1 .. Len(r), i < j PROVE r[i] < r[j]
  <2>1. i \in 1 .. k /\ r[i] = path[i]
    BY <1>2, <1>6, <1>9
  <2>2. CASE j = k + 1
    BY <1>1, <1>6, <1>7, <2>1, <2>2
  <2>3. CASE j # k + 1
    <3>1. j \in 1 .. k /\ r[j] = path[j]
      BY <1>2, <1>6, <2>3
    <3>2. i \in DOMAIN path /\ j \in DOMAIN path
      BY <1>1, <1>7, <2>1, <3>1
    <3> QED BY <1>9, <2>1, <3>1, <3>2 DEF PathInv, IsPathOf
  <2> QED BY <2>2, <2>3
<1>10. Above(ls, n + 2) = {m \in Above(ls, n + 1) : ls[m].level < h} \cup {n + 1}
  <2>1. h # 0 /\ h = ls[n + 1].level
    BY <1>2 DEF h
  <2>2. Above(ls, n + 2) = IF h = 0 THEN Above(ls, n + 1)
                           ELSE {m \in Above(ls, n + 1) : ls[m].level < h} \cup {n + 1}
    BY <2>1, AboveNext
  <2> QED BY <2>1, <2>2
<1>11. Above(ls, n + 1) = {path[i] : i \in 1 .. Len(path)}
  BY <1>1 DEF PathInv, IsPathOf, ToSet
<1>12. ToSet(r) = {r[i] : i \in 1 .. k + 1}
  BY <1>6 DEF ToSet
<1>13. \A m : m \in ToSet(r) <=> m \in Above(ls, n + 2)
  <2>1. ASSUME NEW i \in 1 .. k + 1 PROVE r[i] \in Above(ls, n + 2)
    <3>1. CASE i = k + 1
      BY <1>6, <1>10, <3>1
    <3>2. CASE i # k + 1
      <4>1. i \in 1 .. k
        BY <1>2, <3>2
      <4>2. path[i] \in Above(ls, n + 1) /\ ls[path[i]].level < h /\ r[i] = path[i]
        <5>1. i \in 1 .. Len(path) /\ r[i] = path[i] /\ ls[path[i]].level = i
          BY <1>6, <1>7, <4>1
        <5>2. i < h
          BY <1>2, <4>1
        <5>3. path[i] \in Above(ls, n + 1)
          BY <1>11, <5>1, Zenon
        <5> QED BY <5>1, <5>2, <5>3
      <4> QED BY <1>10, <4>2
    <3> QED BY <3>1, <3>2
  <2>2. ASSUME NEW m \in Above(ls, n + 2) PROVE m \in {r[i] : i \in 1 .. k + 1}
    <3>1. CASE m = n + 1
      <4>1. k + 1 \in 1 .. k + 1
        BY <1>2
      <4> QED BY <1>6, <3>1, <4>1
    <3>2. CASE m # n + 1
      <4>1. m \in Above(ls, n + 1) /\ ls[m].level < h
        BY <1>10, <3>2
      <4>2. PICK i \in 1 .. Len(path) : m = path[i]
        BY <1>11, <4>1
      <4>3. ls[path[i]].level = i
        BY <4>2 DEF PathInv
      <4>4. i \in 1 .. k /\ i \in 1 .. k + 1
        BY <1>1, <1>2, <4>1, <4>2, <4>3
      <4> QED BY <1>6, <4>2, <4>4
    <3> QED BY <3>1, <3>2
  <2> QED BY <1>12, <2>1, <2>2
<1>14. IsPathOf(r, Above(ls, n + 2))
  <2>1. ToSet(r) = Above(ls, n + 2)
    BY <1>13
  <2>2. DOMAIN r = 1 .. Len(r)
    BY <1>6
  <2> QED BY <1>9, <2>1, <2>2 DEF IsPathOf
<1>15. (n + 1) + 1 = n + 2
  BY <1>1
<1> QED BY <1>5, <1>6, <1>8, <1>14, <1>15 DEF PathInv

\* After n lines: of the sections and of what is to be the next, each line is under the heading.
CutInv(ls, acc, n) ==
    /\ PathInv(ls, acc.path, n)
    /\ \A i \in 1 .. Len(acc.body) : Above(ls, acc.body[i].at) = Above(ls, n + 1)
    /\ \A j \in 1 .. Len(acc.out) : \A i \in 1 .. Len(acc.out[j].body) :
          IsPathOf(acc.out[j].heading, Above(ls, acc.out[j].body[i].at))

LEMMA FlushedKeeps ==
    ASSUME NEW ls, NEW acc \in Cutting, NEW n, CutInv(ls, acc, n)
    PROVE  \A j \in 1 .. Len(Flushed(acc).out) : \A i \in 1 .. Len(Flushed(acc).out[j].body) :
              IsPathOf(Flushed(acc).out[j].heading, Above(ls, Flushed(acc).out[j].body[i].at))
<1> DEFINE s == [heading |-> acc.path, body |-> acc.body]
           out == Flushed(acc).out
<1>1. acc.out \in Seq(Sects) /\ acc.path \in Seq(Nat) /\ acc.body \in Seq(PlainLines)
  BY DEF Cutting
<1>2. s \in Sects
  BY <1>1 DEF Sects
<1>3. out = IF HasText(acc.body) THEN Append(acc.out, s) ELSE acc.out
  BY DEF Flushed, Cutting
<1>4. \A i \in 1 .. Len(s.body) : IsPathOf(s.heading, Above(ls, s.body[i].at))
  BY DEF CutInv, PathInv
<1> HIDE DEF s, out
<1>5. CASE HasText(acc.body)
  <2>1. /\ Len(out) = Len(acc.out) + 1 /\ out[Len(acc.out) + 1] = s
        /\ \A j \in 1 .. Len(acc.out) : out[j] = acc.out[j]
    BY <1>1, <1>2, <1>3, <1>5, AppendIs
  <2>2. ASSUME NEW j \in 1 .. Len(out), NEW i \in 1 .. Len(out[j].body)
        PROVE  IsPathOf(out[j].heading, Above(ls, out[j].body[i].at))
    <3>1. CASE j = Len(acc.out) + 1
      BY <1>4, <2>1, <2>2, <3>1
    <3>2. CASE j # Len(acc.out) + 1
      <4>1. j \in 1 .. Len(acc.out) /\ out[j] = acc.out[j]
        BY <1>1, <2>1, <3>2
      <4> QED BY <2>2, <4>1 DEF CutInv
    <3> QED BY <3>1, <3>2
  <2> QED BY <2>2 DEF out
<1>6. CASE ~HasText(acc.body)
  BY <1>3, <1>6 DEF CutInv, out
<1> QED BY <1>5, <1>6

LEMMA CutKeeps ==
    ASSUME NEW ls \in Seq(PlainLines), NEW n \in 0 .. Len(ls) - 1, NEW acc \in Cutting,
           CutInv(ls, acc, n), Regular(ls), ls[n + 1].at = n + 1
    PROVE  CutInv(ls, Cut(acc, ls[n + 1]), n + 1)
<1> DEFINE l == ls[n + 1]
           new == Cut(acc, l)
<1>1. l \in PlainLines /\ n \in Nat /\ (n + 1) + 1 = n + 2
  OBVIOUS
<1>2. acc.out \in Seq(Sects) /\ acc.path \in Seq(Nat) /\ acc.body \in Seq(PlainLines)
  BY DEF Cutting
<1>3. l.level \in Nat /\ l.at = n + 1
  BY <1>1 DEF PlainLines, LinesOf
<1>4. CASE l.level = 0
  <2> DEFINE body == Append(acc.body, l)
  <2>1. Above(ls, n + 2) = Above(ls, n + 1)
    BY <1>4, AboveNext
  <2>2. new.path = acc.path /\ new.out = acc.out /\ new.body = body
    BY <1>4 DEF Cut, Cutting
  <2> HIDE DEF l, new
  <2>3. PathInv(ls, new.path, n + 1)
    <3>1. \A i \in 1 .. n : i \in 1 .. n + 1
      BY <1>1
    <3> QED BY <1>1, <2>1, <2>2, <3>1 DEF CutInv, PathInv
  <2>4. /\ Len(body) = Len(acc.body) + 1 /\ body[Len(acc.body) + 1] = l
        /\ \A i \in 1 .. Len(acc.body) : body[i] = acc.body[i]
    BY <1>1, <1>2, AppendIs
  <2> HIDE DEF body
  <2>5. ASSUME NEW i \in 1 .. Len(body) PROVE Above(ls, body[i].at) = Above(ls, n + 2)
    <3>1. CASE i = Len(acc.body) + 1
      BY <1>3, <2>1, <2>4, <3>1
    <3>2. CASE i # Len(acc.body) + 1
      <4>1. i \in 1 .. Len(acc.body) /\ body[i] = acc.body[i]
        BY <1>2, <2>4, <3>2
      <4> QED BY <2>1, <4>1 DEF CutInv
    <3> QED BY <3>1, <3>2
  <2>6. CutInv(ls, new, n + 1)
    BY <1>1, <2>2, <2>3, <2>5 DEF CutInv
  <2> QED BY <2>6 DEF new, l
<1>5. CASE l.level # 0
  <2>1. new.path = PathWith(acc.path, l) /\ new.out = Flushed(acc).out /\ new.body = <<>>
    BY <1>5 DEF Cut, Flushed, Cutting
  <2>2. PathInv(ls, PathWith(acc.path, l), n + 1)
    <3>1. PathInv(ls, acc.path, n) /\ l.level > 0
      BY <1>3, <1>5 DEF CutInv
    <3> QED BY <3>1, PathStep
  <2> HIDE DEF new, l
  <2>3. Len(new.body) = 0
    BY <2>1
  <2>4. \A j \in 1 .. Len(new.out) : \A i \in 1 .. Len(new.out[j].body) :
           IsPathOf(new.out[j].heading, Above(ls, new.out[j].body[i].at))
    <3>1. \A j \in 1 .. Len(Flushed(acc).out) : \A i \in 1 .. Len(Flushed(acc).out[j].body) :
             IsPathOf(Flushed(acc).out[j].heading, Above(ls, Flushed(acc).out[j].body[i].at))
      BY FlushedKeeps
    <3> QED BY <2>1, <3>1
  <2>5. PathInv(ls, new.path, n + 1)
    BY <2>1, <2>2
  <2>6. CutInv(ls, new, n + 1)
    BY <2>3, <2>4, <2>5 DEF CutInv
  <2> QED BY <2>6 DEF new, l
<1> QED BY <1>4, <1>5

LEMMA SectionsAreHeaded ==
    ASSUME NEW ls \in Seq(PlainLines), Regular(ls), \A n \in 1 .. Len(ls) : ls[n].at = n
    PROVE  \A j \in 1 .. Len(Sections(ls)) : \A i \in 1 .. Len(Sections(ls)[j].body) :
              IsPathOf(Sections(ls)[j].heading, Above(ls, Sections(ls)[j].body[i].at))
<1> DEFINE m == Len(ls)
           f == CutUpTo(ls)
           T == {n \in 0 .. m : CutInv(ls, f[n], n)}
<1>1. /\ f[0] = [out |-> <<>>, path |-> <<>>, body |-> <<>>]
      /\ \A n \in 1 .. m : f[n] = Cut(f[n - 1], ls[n])
      /\ \A n \in 0 .. m : f[n] \in Cutting
  BY CutUpToIs
<1>2. m \in Nat
  OBVIOUS
<1> HIDE DEF f
<1>3. \A n \in 0 .. m : n \in T
  <2>1. 0 \in T
    <3>1. Above(ls, 1) = {}
      BY DEF Above
    <3>2. PathInv(ls, <<>>, 0)
      BY <3>1 DEF PathInv, IsPathOf, ToSet
    <3> QED BY <1>1, <1>2, <3>2 DEF CutInv
  <2>2. ASSUME NEW n \in 0 .. m - 1, n \in T PROVE n + 1 \in T
    <3>1. n + 1 \in 1 .. m /\ (n + 1) - 1 = n /\ n \in 0 .. m /\ n + 1 \in 0 .. m
      BY <1>2
    <3>2. CutInv(ls, Cut(f[n], ls[n + 1]), n + 1)
      BY <1>1, <2>2, <3>1, CutKeeps
    <3> QED BY <1>1, <3>1, <3>2
  <2> HIDE DEF T, m
  <2> QED BY <1>2, <2>1, <2>2, Induction
<1>4. m \in 0 .. m
  BY <1>2
<1>5. f[m] \in Cutting /\ CutInv(ls, f[m], m)
  BY <1>1, <1>3, <1>4
<1>6. Sections(ls) = Flushed(f[m]).out
  BY DEF Sections, f
<1> HIDE DEF m
<1> QED BY <1>5, <1>6, FlushedKeeps

-----------------------------------------------------------------------------
(* splitBySize *)

LEMMA SizeIsNat ==
    ASSUME NEW L, NEW ls \in Seq(LinesOf(L))
    PROVE  SizeOf(ls) \in Nat
<1> DEFINE m == Len(ls)
           step == [n \in 1 .. m |-> [x \in Nat |-> x + ls[n].size + 1]]
           Q(g) == g = [n \in 0 .. m |-> IF n = 0 THEN 0 ELSE g[n - 1] + ls[n].size + 1]
           f == CHOOSE h : Q(h)
           T == {n \in 0 .. m : f[n] \in Nat}
<1>1. m \in Nat /\ \A n \in 1 .. m : ls[n].size \in Nat
  <2>1. \A n \in 1 .. m : ls[n] \in LinesOf(L)
    OBVIOUS
  <2> QED BY <2>1 DEF LinesOf
<1> HIDE DEF m
<1>2. step \in [1 .. m -> [Nat -> Nat]]
  BY <1>1
<1>3. PICK g \in [0 .. m -> Nat] : Follows(g, m, 0, step)
  <2> HIDE DEF step
  <2> QED BY <1>1, <1>2, Recursion
<1>4. \A n \in 1 .. m : g[n] = g[n - 1] + ls[n].size + 1
  <2> TAKE n \in 1 .. m
  <2>1. n - 1 \in 0 .. m
    BY <1>1
  <2>2. g[n - 1] \in Nat
    BY <2>1
  <2>3. step[n][g[n - 1]] = g[n - 1] + ls[n].size + 1
    BY <2>2
  <2> HIDE DEF step
  <2> QED BY <1>3, <2>3 DEF Follows
<1>5. Q(g)
  BY <1>3, <1>4 DEF Follows
<1>6. Q(f)
  BY <1>5, Zenon
<1>7. SizeOf(ls) = f[m]
  BY DEF SizeOf, m
<1> HIDE DEF f
<1>8. f[0] = 0 /\ \A n \in 1 .. m : f[n] = f[n - 1] + ls[n].size + 1
  BY <1>1, <1>6
<1>9. \A n \in 0 .. m : n \in T
  <2>1. 0 \in T
    BY <1>1, <1>8
  <2>2. ASSUME NEW n \in 0 .. m - 1, n \in T PROVE n + 1 \in T
    <3>1. n + 1 \in 1 .. m /\ (n + 1) - 1 = n
      BY <1>1
    <3>2. f[n + 1] = f[n] + ls[n + 1].size + 1 /\ f[n] \in Nat /\ ls[n + 1].size \in Nat
      BY <1>1, <1>8, <2>2, <3>1
    <3>3. f[n + 1] \in Nat
      BY <3>2
    <3>4. n + 1 \in 0 .. m
      BY <1>1, <3>1
    <3> QED BY <3>3, <3>4
  <2> HIDE DEF T
  <2> QED BY <1>1, <2>1, <2>2, Induction
<1> QED BY <1>1, <1>7, <1>9

Paras(L) == [lines : Seq(L), size : Nat]
Splitting(L) ==
    {acc \in [done : Seq(Paras(L)), cur : Paras(L), open : BOOLEAN] : acc.open => acc.cur.size > 0}

LEMMA AddLineType ==
    ASSUME NEW L, NEW acc \in Splitting(L), NEW l \in LinesOf(L)
    PROVE  AddLine(acc, l) \in Splitting(L)
<1>1. /\ acc.done \in Seq(Paras(L)) /\ acc.cur \in Paras(L) /\ acc.open \in BOOLEAN
      /\ acc.open => acc.cur.size > 0
  BY DEF Splitting
<1>2. /\ acc.cur.lines \in Seq(L) /\ acc.cur.size \in Nat /\ l.at \in L /\ l.size \in Nat
      /\ acc.cur = [lines |-> acc.cur.lines, size |-> acc.cur.size]
  BY <1>1 DEF Paras, LinesOf
<1>3. CASE l.size = 0 /\ acc.open
  <2> DEFINE k == acc.cur.size - 1
             ended == [acc.cur EXCEPT !.size = k]
             done == Append(acc.done, ended)
  <2>1. k \in Nat
    BY <1>1, <1>2, <1>3
  <2>2. ended = [acc.cur EXCEPT !.size = @ - 1]
    OBVIOUS
  <2>3. ended \in Paras(L)
    <3> HIDE DEF k
    <3> QED BY <1>1, <2>1 DEF Paras
  <2>4. done \in Seq(Paras(L))
    <3> HIDE DEF ended
    <3> QED BY <1>1, <2>3, AppendIs
  <2>5. NoLines \in Paras(L)
    BY DEF NoLines, Paras
  <2>6. AddLine(acc, l) = [done |-> done, cur |-> NoLines, open |-> FALSE]
    BY <1>3, <2>2 DEF AddLine
  <2> HIDE DEF done
  <2> QED BY <2>4, <2>5, <2>6 DEF Splitting
<1>4. CASE ~(l.size = 0 /\ acc.open)
  <2> DEFINE k == acc.cur.size + l.size + 1
             lines == IF l.size = 0 THEN acc.cur.lines ELSE Append(acc.cur.lines, l.at)
             cur == [lines |-> lines, size |-> k]
  <2>1. k \in Nat /\ k > 0
    BY <1>2
  <2>2. lines \in Seq(L)
    BY <1>2, AppendIs
  <2>3. AddLine(acc, l).done = acc.done
    BY <1>1, <1>4 DEF AddLine, Splitting
  <2>4. AddLine(acc, l).open = TRUE
    BY <1>1, <1>4 DEF AddLine, Splitting
  <2>5. AddLine(acc, l).cur = cur
    BY <1>1, <1>2, <1>4 DEF AddLine, Splitting, Paras
  <2>6. AddLine(acc, l) = [done |-> acc.done, cur |-> cur, open |-> TRUE]
    BY <1>1, <1>4, <2>3, <2>4, <2>5 DEF AddLine, Splitting
  <2> HIDE DEF k, lines
  <2>7. cur \in Paras(L) /\ cur.size > 0
    BY <2>1, <2>2 DEF Paras
  <2> HIDE DEF cur
  <2> QED BY <1>1, <2>6, <2>7 DEF Splitting
<1> QED BY <1>3, <1>4

LEMMA SplitUpToIs ==
    ASSUME NEW L, NEW ls \in Seq(LinesOf(L))
    PROVE  /\ SplitUpTo(ls)[0] = [done |-> <<>>, cur |-> NoLines, open |-> FALSE]
           /\ \A n \in 1 .. Len(ls) : SplitUpTo(ls)[n] = AddLine(SplitUpTo(ls)[n - 1], ls[n])
           /\ \A n \in 0 .. Len(ls) : SplitUpTo(ls)[n] \in Splitting(L)
<1> DEFINE m == Len(ls)
           base == [done |-> <<>>, cur |-> NoLines, open |-> FALSE]
           step == [n \in 1 .. m |-> [acc \in Splitting(L) |-> AddLine(acc, ls[n])]]
           Q(g) == g = [n \in 0 .. m |->
                          IF n = 0 THEN [done |-> <<>>, cur |-> NoLines, open |-> FALSE]
                          ELSE AddLine(g[n - 1], ls[n])]
           f == SplitUpTo(ls)
           T == {n \in 0 .. m : f[n] \in Splitting(L)}
<1>1. m \in Nat /\ \A n \in 1 .. m : ls[n] \in LinesOf(L)
  OBVIOUS
<1> HIDE DEF m
<1>2. base \in Splitting(L)
  BY DEF Splitting, NoLines, Paras
<1>3. step \in [1 .. m -> [Splitting(L) -> Splitting(L)]]
  BY <1>1, AddLineType
<1>4. PICK g \in [0 .. m -> Splitting(L)] : Follows(g, m, base, step)
  <2> HIDE DEF base, step
  <2> QED BY <1>1, <1>2, <1>3, Recursion
<1>5. \A n \in 1 .. m : g[n] = AddLine(g[n - 1], ls[n])
  <2> TAKE n \in 1 .. m
  <2>1. n - 1 \in 0 .. m
    BY <1>1
  <2>2. g[n - 1] \in Splitting(L)
    BY <2>1
  <2>3. step[n][g[n - 1]] = AddLine(g[n - 1], ls[n])
    BY <2>2
  <2> HIDE DEF step
  <2> QED BY <1>4, <2>3 DEF Follows
<1>6. Q(g)
  BY <1>4, <1>5 DEF Follows
<1>7. f = CHOOSE h : Q(h)
  BY DEF SplitUpTo, m
<1>8. Q(f)
  BY <1>6, <1>7, Zenon
<1> HIDE DEF f
<1>9. f[0] = base /\ \A n \in 1 .. m : f[n] = AddLine(f[n - 1], ls[n])
  <2>1. f[0] = base
    BY <1>1, <1>8
  <2>2. \A n \in 1 .. m : n \in 0 .. m /\ n # 0
    BY <1>1
  <2>3. ASSUME NEW n \in 1 .. m PROVE f[n] = AddLine(f[n - 1], ls[n])
    BY <1>8, <2>2
  <2> QED BY <2>1, <2>3
<1> HIDE DEF base
<1>10. \A n \in 0 .. m : n \in T
  <2>1. 0 \in T
    BY <1>1, <1>2, <1>9
  <2>2. ASSUME NEW n \in 0 .. m - 1, n \in T PROVE n + 1 \in T
    <3>1. n + 1 \in 1 .. m /\ (n + 1) - 1 = n
      BY <1>1
    <3>2. f[n] \in Splitting(L) /\ f[n + 1] = AddLine(f[n], ls[n + 1])
      BY <1>9, <2>2, <3>1
    <3>3. f[n + 1] \in Splitting(L)
      BY <1>1, <3>1, <3>2, AddLineType
    <3>4. n + 1 \in 0 .. m
      BY <1>1, <3>1
    <3> QED BY <3>3, <3>4
  <2> HIDE DEF T
  <2> QED BY <1>1, <2>1, <2>2, Induction
<1> QED BY <1>9, <1>10 DEF f, m, base

LEMMA ParagraphsType ==
    ASSUME NEW L, NEW ls \in Seq(LinesOf(L))
    PROVE  Paragraphs(ls) \in Seq(Paras(L))
<1> DEFINE end == SplitUpTo(ls)[Len(ls)]
<1>1. Len(ls) \in 0 .. Len(ls)
  OBVIOUS
<1>2. end \in Splitting(L)
  BY <1>1, SplitUpToIs
<1>3. end.done \in Seq(Paras(L)) /\ end.cur \in Paras(L)
  BY <1>2 DEF Splitting
<1> QED BY <1>3, AppendIs DEF Paragraphs

Parts(L) == [lines : Seq(L), all : Nat, from : Int, to : Int]

\* What is as long as the cap lets it be.
Fits == {z \in Int : z <= ChunkMax}
FitPieces(L) == [parts : Seq(Parts(L)), size : Fits]
Gathering(L) == [parts : Seq(Parts(L)), size : 0 .. ChunkMax]
Taking(L) == [out : Seq(FitPieces(L)), cur : Gathering(L)]

LEMMA WholeType ==
    ASSUME NEW L, NEW p \in Paras(L)
    PROVE  Whole(p) \in Parts(L)
BY DEF Whole, Part, Parts, Paras

LEMMA CutsType ==
    ASSUME NEW L, NEW p \in Paras(L)
    PROVE  Cuts(p) \in Seq(FitPieces(L))
<1> DEFINE t == ChunkTarget
           s == p.size
           k == (s + t - 1) \div t
           to(n) == Smaller(n * t, s)
           from(n) == (n - 1) * t + 1
           piece(n) == [parts |-> <<Part(p, from(n), to(n))>>, size |-> to(n) - from(n) + 1]
<1>1. t \in Nat /\ t > 0 /\ s \in Nat /\ p.lines \in Seq(L) /\ ChunkMax \in Nat /\ t <= ChunkMax
  BY ContentAssumption DEF Paras
<1>2. Cuts(p) = [n \in 1 .. k |-> piece(n)]
  BY DEF Cuts
<1> HIDE DEF t, s
<1>3. k \in Nat
  BY <1>1
<1>4. ASSUME NEW n \in 1 .. k PROVE piece(n) \in FitPieces(L)
  <2>1. n \in Nat
    BY <1>3
  <2>2. n * t \in Int /\ (n - 1) * t = n * t - t
    BY <1>1, <2>1
  <2>3. to(n) \in Int /\ to(n) <= n * t
    BY <1>1, <2>2 DEF Smaller
  <2>4. from(n) \in Int /\ from(n) = n * t - t + 1
    BY <1>1, <2>2
  <2> HIDE DEF to, from
  <2>5. to(n) - from(n) + 1 \in Fits
    BY <1>1, <2>2, <2>3, <2>4 DEF Fits
  <2>6. Part(p, from(n), to(n)) \in Parts(L)
    BY <1>1, <2>3, <2>4 DEF Part, Parts, s
  <2> QED BY <2>5, <2>6 DEF FitPieces
<1> HIDE DEF k, piece
<1>5. Cuts(p) \in [1 .. k -> FitPieces(L)]
  BY <1>2, <1>4
<1> QED BY <1>3, <1>5

LEMMA TakeType ==
    ASSUME NEW L, NEW acc \in Taking(L), NEW p \in Paras(L)
    PROVE  Take(acc, p) \in Taking(L)
<1> DEFINE a == IF Full(acc.cur, p) THEN [out |-> Append(acc.out, acc.cur), cur |-> NoPiece] ELSE acc
<1>1. /\ acc.out \in Seq(FitPieces(L)) /\ acc.cur \in Gathering(L)
      /\ acc.cur.parts \in Seq(Parts(L)) /\ acc.cur.size \in Nat /\ acc.cur.size <= ChunkMax
      /\ p.size \in Nat
  BY ContentAssumption DEF Taking, Gathering, Paras
<1>2. acc.cur \in FitPieces(L)
  BY <1>1, ContentAssumption DEF Gathering, FitPieces, Fits
<1>3. NoPiece \in Gathering(L) /\ NoPiece.size = 0
  BY ContentAssumption DEF NoPiece, Gathering
<1>4. a \in Taking(L) /\ (a.cur.size = 0 \/ a.cur.size + p.size <= ChunkTarget)
  <2>1. CASE Full(acc.cur, p)
    <3>1. Append(acc.out, acc.cur) \in Seq(FitPieces(L))
      BY <1>1, <1>2, AppendIs
    <3> QED BY <1>3, <2>1, <3>1 DEF Taking
  <2>2. CASE ~Full(acc.cur, p)
    BY <1>1, <2>2, ContentAssumption DEF Full
  <2> QED BY <2>1, <2>2
<1>5. Take(acc, p) = IF p.size > ChunkMax THEN [a EXCEPT !.out = @ \o Cuts(p)]
                     ELSE [a EXCEPT !.cur = [parts |-> Append(@.parts, Whole(p)),
                                             size |-> @.size + p.size + (IF @.size > 0 THEN 2 ELSE 0)]]
  BY DEF Take
<1> HIDE DEF a
<1>6. /\ a.out \in Seq(FitPieces(L)) /\ a.cur \in Gathering(L)
      /\ a.cur.parts \in Seq(Parts(L)) /\ a.cur.size \in Nat /\ a.cur.size <= ChunkMax
  BY <1>4, ContentAssumption DEF Taking, Gathering
<1>7. CASE p.size > ChunkMax
  <2>1. a.out \o Cuts(p) \in Seq(FitPieces(L))
    BY <1>6, CutsType
  <2> QED BY <1>4, <1>5, <1>7, <2>1 DEF Taking
<1>8. CASE ~(p.size > ChunkMax)
  <2> DEFINE parts == Append(a.cur.parts, Whole(p))
             k == a.cur.size + p.size + (IF a.cur.size > 0 THEN 2 ELSE 0)
             cur == [parts |-> parts, size |-> k]
  <2>1. parts \in Seq(Parts(L))
    BY <1>6, WholeType, AppendIs
  <2>2. k \in 0 .. ChunkMax
    <3>1. ChunkTarget \in Nat /\ ChunkMax \in Nat /\ ChunkTarget + 2 <= ChunkMax
      BY ContentAssumption
    <3>2. CASE a.cur.size = 0
      BY <1>1, <1>8, <3>1, <3>2
    <3>3. CASE a.cur.size # 0
      <4>1. a.cur.size + p.size <= ChunkTarget
        BY <1>4, <3>3
      <4> QED BY <1>1, <1>6, <3>1, <3>3, <4>1
    <3> QED BY <3>2, <3>3
  <2>3. Take(acc, p) = [a EXCEPT !.cur = cur]
    BY <1>5, <1>8
  <2> HIDE DEF parts, k
  <2>4. cur \in Gathering(L)
    BY <2>1, <2>2 DEF Gathering
  <2> HIDE DEF cur
  <2> QED BY <1>4, <2>3, <2>4 DEF Taking
<1> QED BY <1>7, <1>8

LEMMA TakenUpToIs ==
    ASSUME NEW L, NEW all \in Seq(Paras(L))
    PROVE  /\ TakenUpTo(all)[0] = [out |-> <<>>, cur |-> NoPiece]
           /\ \A n \in 1 .. Len(all) : TakenUpTo(all)[n] = Take(TakenUpTo(all)[n - 1], all[n])
           /\ \A n \in 0 .. Len(all) : TakenUpTo(all)[n] \in Taking(L)
<1> DEFINE m == Len(all)
           base == [out |-> <<>>, cur |-> NoPiece]
           step == [n \in 1 .. m |-> [acc \in Taking(L) |-> Take(acc, all[n])]]
           Q(g) == g = [n \in 0 .. m |->
                          IF n = 0 THEN [out |-> <<>>, cur |-> NoPiece]
                          ELSE Take(g[n - 1], all[n])]
           f == TakenUpTo(all)
           T == {n \in 0 .. m : f[n] \in Taking(L)}
<1>1. m \in Nat /\ \A n \in 1 .. m : all[n] \in Paras(L)
  OBVIOUS
<1> HIDE DEF m
<1>2. base \in Taking(L)
  BY ContentAssumption DEF Taking, NoPiece, Gathering
<1>3. step \in [1 .. m -> [Taking(L) -> Taking(L)]]
  BY <1>1, TakeType
<1>4. PICK g \in [0 .. m -> Taking(L)] : Follows(g, m, base, step)
  <2> HIDE DEF base, step
  <2> QED BY <1>1, <1>2, <1>3, Recursion
<1>5. \A n \in 1 .. m : g[n] = Take(g[n - 1], all[n])
  <2> TAKE n \in 1 .. m
  <2>1. n - 1 \in 0 .. m
    BY <1>1
  <2>2. g[n - 1] \in Taking(L)
    BY <2>1
  <2>3. step[n][g[n - 1]] = Take(g[n - 1], all[n])
    BY <2>2
  <2> HIDE DEF step
  <2> QED BY <1>4, <2>3 DEF Follows
<1>6. Q(g)
  BY <1>4, <1>5 DEF Follows
<1>7. f = CHOOSE h : Q(h)
  BY DEF TakenUpTo, m
<1>8. Q(f)
  BY <1>6, <1>7, Zenon
<1> HIDE DEF f
<1>9. f[0] = base /\ \A n \in 1 .. m : f[n] = Take(f[n - 1], all[n])
  BY <1>1, <1>8
<1> HIDE DEF base
<1>10. \A n \in 0 .. m : n \in T
  <2>1. 0 \in T
    BY <1>1, <1>2, <1>9
  <2>2. ASSUME NEW n \in 0 .. m - 1, n \in T PROVE n + 1 \in T
    <3>1. n + 1 \in 1 .. m /\ (n + 1) - 1 = n
      BY <1>1
    <3>2. f[n] \in Taking(L) /\ f[n + 1] = Take(f[n], all[n + 1])
      BY <1>9, <2>2, <3>1
    <3>3. f[n + 1] \in Taking(L)
      BY <1>1, <3>1, <3>2, TakeType
    <3>4. n + 1 \in 0 .. m
      BY <1>1, <3>1
    <3> QED BY <3>3, <3>4
  <2> HIDE DEF T
  <2> QED BY <1>1, <2>1, <2>2, Induction
<1> QED BY <1>9, <1>10 DEF f, m, base

LEMMA PiecesType ==
    ASSUME NEW L, NEW ls \in Seq(LinesOf(L))
    PROVE  Pieces(ls) \in Seq(FitPieces(L))
<1> DEFINE all == Paragraphs(ls)
           end == TakenUpTo(all)[Len(all)]
           parts == [n \in DOMAIN all |-> Whole(all[n])]
           piece == [parts |-> parts, size |-> SizeOf(ls)]
<1>1. all \in Seq(Paras(L))
  BY ParagraphsType
<1>2. Pieces(ls) = IF SizeOf(ls) <= ChunkMax THEN <<piece>>
                   ELSE IF end.cur.size = 0 THEN end.out ELSE Append(end.out, end.cur)
  BY DEF Pieces
<1> HIDE DEF all
<1>3. CASE SizeOf(ls) <= ChunkMax
  <2>1. Len(all) \in Nat /\ DOMAIN all = 1 .. Len(all) /\ \A n \in 1 .. Len(all) : all[n] \in Paras(L)
    BY <1>1
  <2>2. parts \in [1 .. Len(all) -> Parts(L)]
    BY <2>1, WholeType
  <2>3. parts \in Seq(Parts(L))
    <3> HIDE DEF parts
    <3> QED BY <2>1, <2>2
  <2>4. SizeOf(ls) \in Fits
    BY <1>3, SizeIsNat DEF Fits
  <2> HIDE DEF parts
  <2>5. piece \in FitPieces(L)
    BY <2>3, <2>4 DEF FitPieces
  <2> HIDE DEF piece
  <2> QED BY <1>2, <1>3, <2>5
<1>4. CASE ~(SizeOf(ls) <= ChunkMax)
  <2>1. Len(all) \in 0 .. Len(all)
    BY <1>1
  <2>2. end \in Taking(L)
    BY <1>1, <2>1, TakenUpToIs
  <2> HIDE DEF end
  <2>3. end.out \in Seq(FitPieces(L)) /\ end.cur \in Gathering(L)
    BY <2>2 DEF Taking
  <2>4. end.cur \in FitPieces(L)
    BY <2>3, ContentAssumption DEF Gathering, FitPieces, Fits
  <2>5. Append(end.out, end.cur) \in Seq(FitPieces(L))
    BY <2>3, <2>4, AppendIs
  <2> QED BY <1>2, <1>4, <2>3, <2>5
<1> QED BY <1>3, <1>4

-----------------------------------------------------------------------------
(* BuildChunks *)

FitChunks(H, L) == [heading : H, parts : Seq(Parts(L)), size : Fits]

LEMMA ChunksOfType ==
    ASSUME NEW section, NEW L, NEW ls \in Seq(LinesOf(L))
    PROVE  ChunksOf(section, ls) \in Seq(FitChunks({section.heading}, L))
<1> DEFINE F == FitChunks({section.heading}, L)
           pieces == Pieces(ls)
           chunk(n) == [heading |-> section.heading, parts |-> pieces[n].parts, size |-> pieces[n].size]
           told(n) == \E k \in DOMAIN pieces[n].parts : pieces[n].parts[k].lines # <<>>
           ss == [n \in DOMAIN pieces |-> IF told(n) THEN <<chunk(n)>> ELSE <<>>]
<1>1. pieces \in Seq(FitPieces(L))
  BY PiecesType
<1>2. ChunksOf(section, ls) = FlattenSeq(ss)
  BY DEF ChunksOf
<1> HIDE DEF pieces, told
<1>3. Len(pieces) \in Nat /\ DOMAIN pieces = 1 .. Len(pieces)
      /\ \A n \in 1 .. Len(pieces) : pieces[n] \in FitPieces(L)
  BY <1>1
<1>4. \A n \in 1 .. Len(pieces) : chunk(n) \in F
  BY <1>1, <1>3 DEF FitPieces, FitChunks
<1> HIDE DEF chunk, F
<1>5. \A n \in 1 .. Len(pieces) : <<chunk(n)>> \in Seq(F) /\ <<>> \in Seq(F)
  BY <1>4
<1>6. ss \in [1 .. Len(pieces) -> Seq(F)]
  BY <1>3, <1>5
<1> HIDE DEF ss
<1>7. ss \in Seq(Seq(F))
  BY <1>3, <1>6
<1> QED BY <1>2, <1>7, FlattenType DEF F

LEMMA WithHeaderType ==
    ASSUME FetchInv, NEW L, 0 \in L, NEW ls \in Seq(LinesOf(L))
    PROVE  WithHeader(ls) \in Seq(LinesOf(L))
<1> DEFINE title == <<HeaderLine, [HeaderLine EXCEPT !.size = 0]>>
<1>1. header \in Nat
  BY ContentAssumption DEF FetchInv, TypeOK
<1>2. HeaderLine \in LinesOf(L) /\ [HeaderLine EXCEPT !.size = 0] \in LinesOf(L)
  BY <1>1 DEF HeaderLine, LinesOf
<1>3. title \in Seq(LinesOf(L))
  BY <1>2
<1> HIDE DEF title
<1>4. title \o ls \in Seq(LinesOf(L))
  BY <1>3
<1> QED BY <1>4 DEF WithHeader, title

LEMMA SeqInto ==
    ASSUME NEW A, NEW B, A \subseteq B, NEW s \in Seq(A)
    PROVE  s \in Seq(B)
<1>1. Len(s) \in Nat /\ s \in [1 .. Len(s) -> A]
  OBVIOUS
<1>2. s \in [1 .. Len(s) -> B]
  BY <1>1
<1> QED BY <1>1, <1>2

\* The chunks of a page with a body, section by section.
LEMMA ChunksAre ==
    ASSUME FetchInv, NEW S, NEW sections \in Seq(Sects), sections = Sections(Lines), NEW L,
           \A n \in 1 .. Len(sections) :
              /\ 0 \in L[n] /\ sections[n].body \in Seq(LinesOf(L[n]))
              /\ FitChunks({sections[n].heading}, L[n]) \subseteq S
    PROVE  Chunks = OnlyHeader \/ Chunks \in Seq(S)
<1> DEFINE body(n) == IF n = 1 THEN WithHeader(sections[n].body) ELSE sections[n].body
           ss == [n \in DOMAIN sections |->
                    ChunksOf(sections[n], IF n = 1 THEN WithHeader(sections[n].body)
                                          ELSE sections[n].body)]
           all == FlattenSeq(ss)
<1>1. Chunks = IF all = <<>> THEN OnlyHeader ELSE all
  BY DEF Chunks
<1>2. Len(sections) \in Nat /\ DOMAIN sections = 1 .. Len(sections)
  OBVIOUS
<1>3. ASSUME NEW n \in 1 .. Len(sections) PROVE ss[n] \in Seq(S)
  <2>1. body(n) \in Seq(LinesOf(L[n]))
    BY WithHeaderType
  <2>2. ss[n] = ChunksOf(sections[n], body(n))
    BY <1>2
  <2> HIDE DEF body, ss
  <2>3. ss[n] \in Seq(FitChunks({sections[n].heading}, L[n]))
    BY <2>1, <2>2, ChunksOfType
  <2> QED BY <2>3, SeqInto
<1>4. ss \in [1 .. Len(sections) -> Seq(S)]
  <2>1. ss = [n \in 1 .. Len(sections) |-> ss[n]]
    BY <1>2
  <2> HIDE DEF ss
  <2> QED BY <1>3, <2>1
<1> HIDE DEF ss
<1>5. ss \in Seq(Seq(S))
  BY <1>2, <1>4
<1>6. all \in Seq(S)
  BY <1>5, FlattenType
<1> HIDE DEF all
<1> QED BY <1>1, <1>6

(***************************************************************************)
(* What splitBySize cuts is never longer than the cap: no piece it closes  *)
(* or appends to, with the blank line between paragraphs, and no cut of a  *)
(* paragraph beyond the cap.  Only the chunk of a page without a body is   *)
(* not of its cutting.                                                     *)
(***************************************************************************)
THEOREM CutTextStaysSmall == Spec => []CutTextFits
<1>1. FetchInv => CutTextFits
  <2> SUFFICES ASSUME FetchInv PROVE CutTextFits
    OBVIOUS
  <2> DEFINE sections == Sections(Lines)
             S == FitChunks(Seq(Nat), Nat)
             L == [n \in 1 .. Len(sections) |-> Nat]
  <2>1. sections \in Seq(Sects)
    BY LinesType, SectionsType
  <2>2. ASSUME NEW n \in 1 .. Len(sections)
        PROVE  /\ 0 \in L[n] /\ sections[n].body \in Seq(LinesOf(L[n]))
               /\ FitChunks({sections[n].heading}, L[n]) \subseteq S
    <3> HIDE DEF sections
    <3>1. L[n] = Nat /\ sections[n] \in Sects
      BY <2>1
    <3> QED BY <3>1 DEF Sects, PlainLines, FitChunks
  <2>3. Chunks = OnlyHeader \/ Chunks \in Seq(S)
    <3> HIDE DEF S, L
    <3> QED BY <2>1, <2>2, ChunksAre
  <2>4. ASSUME Chunks \in Seq(S), NEW n \in DOMAIN Chunks PROVE Chunks[n].size <= ChunkMax
    <3>1. Chunks[n] \in S
      BY <2>4
    <3> QED BY <3>1 DEF FitChunks, Fits
  <2> HIDE DEF S
  <2> QED BY <2>3, <2>4 DEF CutTextFits
<1> QED BY <1>1, FetchInvariant, PTL

(***************************************************************************)
(* On a page whose headings do not skip a level, the heading of a chunk is *)
(* the path of headings that each of its lines is under, whatever the      *)
(* sizes cut: splitSections' path is that of the outline.                  *)
(***************************************************************************)
THEOREM HeadingsArePaths == Spec => []RegularHeadingIsPath
<1>1. FetchInv => RegularHeadingIsPath
  <2> SUFFICES ASSUME FetchInv, Regular(Lines)
               PROVE  \A n \in DOMAIN Chunks : HeadedBy(Lines, Chunks[n])
    BY DEF RegularHeadingIsPath, HeadingIsPath
  <2> DEFINE ls == Lines
             sections == Sections(ls)
             S == {c \in FitChunks(Seq(Nat), Nat) : HeadedBy(ls, c)}
             under(h) == {l \in Nat : l > 0 => IsPathOf(h, Above(ls, l))}
             L == [n \in 1 .. Len(sections) |-> under(sections[n].heading)]
  <2>1. ls \in Seq(PlainLines) /\ \A n \in 1 .. Len(ls) : ls[n].at = n
    BY LinesType
  <2>2. sections \in Seq(Sects)
    BY <2>1, SectionsType
  <2>3. \A j \in 1 .. Len(sections) : \A i \in 1 .. Len(sections[j].body) :
           IsPathOf(sections[j].heading, Above(ls, sections[j].body[i].at))
    <3> HIDE DEF ls
    <3> QED BY <2>1, SectionsAreHeaded DEF ls
  <2>4. ASSUME NEW n \in 1 .. Len(sections)
        PROVE  /\ 0 \in L[n] /\ sections[n].body \in Seq(LinesOf(L[n]))
               /\ FitChunks({sections[n].heading}, L[n]) \subseteq S
    <3> DEFINE s == sections[n]
               U == under(s.heading)
    <3>1. L[n] = U /\ s \in Sects
      BY <2>2
    <3>2. s.heading \in Seq(Nat) /\ s.body \in Seq(PlainLines)
      BY <3>1 DEF Sects
    <3>3. \A i \in 1 .. Len(s.body) : IsPathOf(s.heading, Above(ls, s.body[i].at))
      BY <2>3
    <3> HIDE DEF sections, s
    <3>4. 0 \in U /\ U \subseteq Nat
      OBVIOUS
    <3>5. \A i \in 1 .. Len(s.body) : s.body[i] \in LinesOf(U)
      <4>1. \A i \in 1 .. Len(s.body) : s.body[i] \in PlainLines
        BY <3>2
      <4> QED BY <3>3, <4>1 DEF PlainLines, LinesOf
    <3>6. s.body \in Seq(LinesOf(U))
      <4>1. Len(s.body) \in Nat /\ s.body \in [1 .. Len(s.body) -> PlainLines]
        BY <3>2
      <4> HIDE DEF U
      <4>2. s.body \in [1 .. Len(s.body) -> LinesOf(U)]
        BY <3>5, <4>1
      <4> QED BY <4>1, <4>2
    <3>7. ASSUME NEW c \in FitChunks({s.heading}, U) PROVE c \in S
      <4>1. c.heading = s.heading /\ c.parts \in Seq(Parts(U)) /\ c.size \in Fits
        BY DEF FitChunks
      <4>2. \A k \in 1 .. Len(c.parts) : c.parts[k] \in Parts(U)
        <5> HIDE DEF U
        <5> QED BY <4>1
      <4>3. ASSUME NEW k \in DOMAIN c.parts, NEW l \in ToSet(c.parts[k].lines), l > 0
            PROVE  IsPathOf(c.heading, Above(ls, l))
        <5>1. c.parts[k].lines \in Seq(U)
          BY <4>1, <4>2 DEF Parts
        <5>2. l \in U
          <6> HIDE DEF U
          <6> QED BY <5>1 DEF ToSet
        <5> QED BY <4>1, <4>3, <5>2
      <4>4. HeadedBy(ls, c)
        BY <4>3 DEF HeadedBy
      <4>5. c.parts \in Seq(Parts(Nat))
        <5>1. Parts(U) \subseteq Parts(Nat)
          <6> HIDE DEF U
          <6>1. \A q \in Seq(U) : q \in Seq(Nat)
            BY <3>4, SeqInto
          <6> QED BY <6>1 DEF Parts
        <5> HIDE DEF U
        <5> QED BY <4>1, <5>1, SeqInto
      <4>6. c = [heading |-> c.heading, parts |-> c.parts, size |-> c.size]
        BY DEF FitChunks
      <4>7. c \in FitChunks(Seq(Nat), Nat)
        BY <3>2, <4>1, <4>5, <4>6 DEF FitChunks
      <4> QED BY <4>4, <4>7
    <3> HIDE DEF S, L, U
    <3> QED BY <3>1, <3>4, <3>6, <3>7 DEF s
  <2>5. Chunks = OnlyHeader \/ Chunks \in Seq(S)
    <3> HIDE DEF S, L
    <3> QED BY <2>2, <2>4, ChunksAre
  <2>6. ASSUME Chunks \in Seq(S), NEW n \in DOMAIN Chunks PROVE HeadedBy(Lines, Chunks[n])
    <3>1. Chunks[n] \in S
      <4> HIDE DEF S
      <4> QED BY <2>6
    <3> QED BY <3>1
  <2>7. ASSUME Chunks = OnlyHeader, NEW n \in DOMAIN Chunks PROVE HeadedBy(Lines, Chunks[n])
    <3>1. OnlyHeader # <<>> => n = 1
      BY <2>7 DEF OnlyHeader
    <3>2. n = 1 /\ Chunks[n].parts = <<Whole([lines |-> <<0>>, size |-> header])>>
      BY <2>7, <3>1 DEF OnlyHeader
    <3>3. \A k \in DOMAIN Chunks[n].parts : Chunks[n].parts[k].lines = <<0>>
      BY <3>2 DEF Whole, Part
    <3> QED BY <3>3 DEF HeadedBy, ToSet
  <2> QED BY <2>5, <2>6, <2>7
<1> QED BY <1>1, FetchInvariant, PTL

-----------------------------------------------------------------------------
(* The text of a page, line by line. *)

Later(X, Y) == \A x \in X, y \in Y : x < y

\* The lines with text among the first n.
TextOf(ls, n) == {a \in Nat : \E i \in 1 .. n : ls[i].size > 0 /\ ls[i].at = a}

Ascending(ls) ==
    \A i, j \in 1 .. Len(ls) : i < j /\ ls[i].size > 0 /\ ls[j].size > 0 => ls[i].at < ls[j].at

LEMMA TextNext ==
    ASSUME NEW ls \in Seq(PlainLines), NEW n \in 0 .. Len(ls) - 1
    PROVE  /\ TextOf(ls, n + 1) = TextOf(ls, n) \cup (IF ls[n + 1].size > 0 THEN {ls[n + 1].at} ELSE {})
           /\ Ascending(ls) /\ ls[n + 1].size > 0 => Later(TextOf(ls, n), {ls[n + 1].at})
<1>1. n \in Nat /\ n + 1 \in 1 .. Len(ls) /\ 1 .. n + 1 = (1 .. n) \cup {n + 1}
      /\ \A i \in 1 .. n : i \in 1 .. Len(ls) /\ i < n + 1
  OBVIOUS
<1>2. ls[n + 1].at \in Nat
  <2>1. ls[n + 1] \in PlainLines
    BY <1>1
  <2> QED BY <2>1 DEF PlainLines, LinesOf
<1>3. \A a : a \in TextOf(ls, n + 1) <=>
         a \in TextOf(ls, n) \cup (IF ls[n + 1].size > 0 THEN {ls[n + 1].at} ELSE {})
  BY <1>1, <1>2 DEF TextOf
<1>4. Ascending(ls) /\ ls[n + 1].size > 0 => Later(TextOf(ls, n), {ls[n + 1].at})
  BY <1>1 DEF TextOf, Later, Ascending
<1> QED BY <1>3, <1>4

LEMMA ToSetAppend ==
    ASSUME NEW s \in Seq(Nat), NEW e \in Nat
    PROVE  ToSet(Append(s, e)) = ToSet(s) \cup {e}
<1> DEFINE t == Append(s, e)
<1>1. /\ DOMAIN t = 1 .. Len(s) + 1 /\ t[Len(s) + 1] = e /\ \A n \in 1 .. Len(s) : t[n] = s[n]
      /\ Len(s) \in Nat /\ DOMAIN s = 1 .. Len(s)
  BY AppendIs
<1>2. 1 .. Len(s) + 1 = (1 .. Len(s)) \cup {Len(s) + 1}
  BY <1>1
<1> HIDE DEF t
<1>3. \A x : x \in ToSet(t) <=> x \in ToSet(s) \cup {e}
  BY <1>1, <1>2 DEF ToSet
<1>4. ToSet(t) = ToSet(s) \cup {e}
  BY <1>3
<1> QED BY <1>4 DEF t

-----------------------------------------------------------------------------
(* Paragraphs: in the order of their lines, and all of them. *)

ParasTold(ps) == {a \in Nat : \E i \in 1 .. Len(ps) : a \in ToSet(ps[i].lines)}

ParasInv(ps) ==
    /\ \A i, j \in 1 .. Len(ps) : i < j => Later(ToSet(ps[i].lines), ToSet(ps[j].lines))
    /\ \A i \in 1 .. Len(ps) : ps[i].lines # <<>> => ps[i].size > 0

LEMMA ParaLines == \A p \in Paras(Nat) : ToSet(p.lines) \subseteq Nat
BY DEF Paras, ToSet

LEMMA ParasAppend ==
    ASSUME NEW ps \in Seq(Paras(Nat)), NEW p \in Paras(Nat), ParasInv(ps),
           Later(ParasTold(ps), ToSet(p.lines)), p.lines # <<>> => p.size > 0
    PROVE  /\ ParasInv(Append(ps, p))
           /\ ParasTold(Append(ps, p)) = ParasTold(ps) \cup ToSet(p.lines)
<1> DEFINE m == Len(ps)
           qs == Append(ps, p)
<1>1. m \in Nat /\ Len(qs) = m + 1 /\ qs[m + 1] = p /\ \A i \in 1 .. m : qs[i] = ps[i]
  BY AppendIs
<1>2. 1 .. m + 1 = (1 .. m) \cup {m + 1}
  BY <1>1
<1>3. ToSet(p.lines) \subseteq Nat
  BY DEF Paras, ToSet
<1>4. \A i \in 1 .. m : ToSet(ps[i].lines) \subseteq ParasTold(ps)
  <2>1. \A i \in 1 .. m : ps[i] \in Paras(Nat)
    OBVIOUS
  <2>2. \A i \in 1 .. m : ToSet(ps[i].lines) \subseteq Nat
    BY <2>1, ParaLines
  <2> QED BY <2>2 DEF ParasTold
<1> HIDE DEF qs, m
<1>5. \A a : a \in ParasTold(qs) <=> a \in ParasTold(ps) \cup ToSet(p.lines)
  BY <1>1, <1>2, <1>3 DEF ParasTold, m
<1>6. ASSUME NEW i \in 1 .. m + 1, NEW j \in 1 .. m + 1, i < j
      PROVE  Later(ToSet(qs[i].lines), ToSet(qs[j].lines))
  <2>1. i \in 1 .. m /\ qs[i] = ps[i]
    BY <1>1, <1>6
  <2>2. CASE j = m + 1
    BY <1>1, <1>4, <2>1, <2>2 DEF Later
  <2>3. CASE j # m + 1
    <3>1. j \in 1 .. m /\ qs[j] = ps[j]
      BY <1>1, <2>3
    <3> QED BY <1>6, <2>1, <3>1 DEF ParasInv, m
  <2> QED BY <2>2, <2>3
<1>7. \A i \in 1 .. m + 1 : qs[i].lines # <<>> => qs[i].size > 0
  BY <1>1, <1>2 DEF ParasInv, m
<1>8. ParasInv(qs)
  BY <1>1, <1>6, <1>7 DEF ParasInv
<1>9. ParasTold(qs) = ParasTold(ps) \cup ToSet(p.lines)
  BY <1>5
<1> QED BY <1>8, <1>9 DEF qs

\* After n lines.
SplitInv(ls, acc, n) ==
    /\ ParasInv(acc.done) /\ Later(ParasTold(acc.done), ToSet(acc.cur.lines))
    /\ ParasTold(acc.done) \cup ToSet(acc.cur.lines) = TextOf(ls, n)
    /\ acc.cur.lines # <<>> => acc.cur.size > 1

LEMMA AddLineKeeps ==
    ASSUME NEW ls \in Seq(PlainLines), NEW n \in 0 .. Len(ls) - 1, Ascending(ls),
           NEW acc \in Splitting(Nat), SplitInv(ls, acc, n)
    PROVE  SplitInv(ls, AddLine(acc, ls[n + 1]), n + 1)
<1> DEFINE l == ls[n + 1]
           new == AddLine(acc, l)
<1>1. /\ acc.done \in Seq(Paras(Nat)) /\ acc.cur \in Paras(Nat) /\ acc.open \in BOOLEAN
      /\ acc.open => acc.cur.size > 0
  BY DEF Splitting
<1>2. acc.cur.lines \in Seq(Nat) /\ acc.cur.size \in Nat
  BY <1>1 DEF Paras
<1>3. l.at \in Nat /\ l.size \in Nat
  <2>1. l \in PlainLines
    OBVIOUS
  <2> QED BY <2>1 DEF PlainLines, LinesOf
<1>4. TextOf(ls, n + 1) = TextOf(ls, n) \cup (IF l.size > 0 THEN {l.at} ELSE {})
      /\ (l.size > 0 => Later(TextOf(ls, n), {l.at}))
  BY TextNext
<1>5. CASE l.size = 0 /\ acc.open
  <2> DEFINE k == acc.cur.size - 1
             ended == [acc.cur EXCEPT !.size = k]
             done == Append(acc.done, ended)
  <2>1. k \in Nat
    BY <1>1, <1>2, <1>5
  <2>2. ended = [acc.cur EXCEPT !.size = @ - 1]
    OBVIOUS
  <2>3. new.done = done /\ new.cur = NoLines
    BY <1>5, <2>2 DEF AddLine
  <2>4. ended.lines # <<>> => k > 0
    <3>1. ended.lines = acc.cur.lines
      BY <1>1 DEF Paras
    <3> QED BY <1>2, <3>1 DEF SplitInv
  <2> HIDE DEF k
  <2>5. ended \in Paras(Nat) /\ ended.lines = acc.cur.lines /\ ended.size = k
    BY <1>1, <2>1 DEF Paras
  <2> HIDE DEF ended, new, l
  <2>6. ParasInv(done) /\ ParasTold(done) = ParasTold(acc.done) \cup ToSet(acc.cur.lines)
    BY <1>1, <2>4, <2>5, ParasAppend DEF SplitInv
  <2>7. ToSet(NoLines.lines) = {} /\ NoLines.lines = <<>>
    BY DEF NoLines, ToSet
  <2>8. TextOf(ls, n + 1) = TextOf(ls, n)
    BY <1>4, <1>5
  <2> HIDE DEF done
  <2>9. SplitInv(ls, new, n + 1)
    BY <2>3, <2>6, <2>7, <2>8 DEF SplitInv, Later
  <2> QED BY <2>9 DEF new, l
<1>6. CASE ~(l.size = 0 /\ acc.open)
  <2> DEFINE k == acc.cur.size + l.size + 1
             lines == IF l.size = 0 THEN acc.cur.lines ELSE Append(acc.cur.lines, l.at)
  <2>1. new.done = acc.done
    BY <1>1, <1>6 DEF AddLine, Splitting
  <2>2. new.cur.size = k /\ new.cur.lines = lines
    BY <1>1, <1>6 DEF AddLine, Splitting, Paras
  <2> HIDE DEF new, l
  <2>3. CASE l.size = 0
    <3>1. TextOf(ls, n + 1) = TextOf(ls, n) /\ lines = acc.cur.lines /\ k > acc.cur.size /\ k \in Nat
      BY <1>2, <1>4, <2>3
    <3> HIDE DEF k, lines
    <3>2. lines # <<>> => k > 1
      BY <1>2, <3>1 DEF SplitInv
    <3>3. SplitInv(ls, new, n + 1)
      BY <2>1, <2>2, <3>1, <3>2 DEF SplitInv
    <3> QED BY <3>3 DEF new, l
  <2>4. CASE l.size # 0
    <3>1. l.size > 0 /\ k > 1
      BY <1>2, <1>3, <2>4
    <3>2. ToSet(lines) = ToSet(acc.cur.lines) \cup {l.at}
      BY <1>2, <1>3, <2>4, ToSetAppend
    <3>3. TextOf(ls, n + 1) = TextOf(ls, n) \cup {l.at} /\ Later(TextOf(ls, n), {l.at})
      BY <1>4, <3>1
    <3> HIDE DEF k, lines
    <3>4. Later(ParasTold(acc.done), ToSet(lines))
      BY <3>2, <3>3 DEF SplitInv, Later
    <3>5. ParasTold(acc.done) \cup ToSet(lines) = TextOf(ls, n + 1)
      BY <3>2, <3>3 DEF SplitInv
    <3>6. SplitInv(ls, new, n + 1)
      BY <2>1, <2>2, <3>1, <3>4, <3>5 DEF SplitInv
    <3> QED BY <3>6 DEF new, l
  <2> QED BY <2>3, <2>4
<1> QED BY <1>5, <1>6

LEMMA ParagraphsTell ==
    ASSUME NEW ls \in Seq(PlainLines), Ascending(ls)
    PROVE  ParasInv(Paragraphs(ls)) /\ ParasTold(Paragraphs(ls)) = TextOf(ls, Len(ls))
<1> DEFINE m == Len(ls)
           f == SplitUpTo(ls)
           T == {n \in 0 .. m : SplitInv(ls, f[n], n)}
<1>1. /\ f[0] = [done |-> <<>>, cur |-> NoLines, open |-> FALSE]
      /\ \A n \in 1 .. m : f[n] = AddLine(f[n - 1], ls[n])
      /\ \A n \in 0 .. m : f[n] \in Splitting(Nat)
  BY SplitUpToIs DEF PlainLines
<1>2. m \in Nat
  OBVIOUS
<1> HIDE DEF f
<1>3. \A n \in 0 .. m : n \in T
  <2>1. 0 \in T
    <3>1. TextOf(ls, 0) = {} /\ ParasTold(<<>>) = {} /\ ParasInv(<<>>)
      BY DEF TextOf, ParasTold, ParasInv
    <3>2. ToSet(NoLines.lines) = {} /\ NoLines.lines = <<>>
      BY DEF NoLines, ToSet
    <3> QED BY <1>1, <1>2, <3>1, <3>2 DEF SplitInv, Later
  <2>2. ASSUME NEW n \in 0 .. m - 1, n \in T PROVE n + 1 \in T
    <3>1. n + 1 \in 1 .. m /\ (n + 1) - 1 = n /\ n \in 0 .. m /\ n + 1 \in 0 .. m
      BY <1>2
    <3>2. SplitInv(ls, AddLine(f[n], ls[n + 1]), n + 1)
      BY <1>1, <2>2, <3>1, AddLineKeeps
    <3> QED BY <1>1, <3>1, <3>2
  <2> HIDE DEF T, m
  <2> QED BY <1>2, <2>1, <2>2, Induction
<1>4. m \in 0 .. m
  BY <1>2
<1> DEFINE end == f[m]
<1>5. end \in Splitting(Nat) /\ SplitInv(ls, end, m)
  BY <1>1, <1>3, <1>4
<1>6. Paragraphs(ls) = Append(end.done, end.cur)
  BY DEF Paragraphs, f
<1> HIDE DEF end
<1>7. end.done \in Seq(Paras(Nat)) /\ end.cur \in Paras(Nat)
  BY <1>5 DEF Splitting
<1>8. end.cur.lines # <<>> => end.cur.size > 0
  BY <1>5, <1>7 DEF SplitInv, Paras
<1>9. ParasInv(end.done) /\ Later(ParasTold(end.done), ToSet(end.cur.lines))
      /\ ParasTold(end.done) \cup ToSet(end.cur.lines) = TextOf(ls, m)
  BY <1>5 DEF SplitInv
<1> QED BY <1>6, <1>7, <1>8, <1>9, ParasAppend

-----------------------------------------------------------------------------
(* What a sequence of pieces or chunks holds: the set of their parts. *)

AllParts(C) == UNION {ToSet(C[n].parts) : n \in DOMAIN C}

PrecedeAll(X, Y) == \A p \in X, q \in Y : Precedes(p, q)

\* Of each part with lines there is every rune.
Complete(X) ==
    \A p \in X : p.lines # <<>> =>
       \A rune \in 1 .. p.all : \E q \in X : q.lines = p.lines /\ q.from <= rune /\ rune <= q.to

LinesTold(X) == {a \in Nat : \E p \in X : a \in ToSet(p.lines)}

LEMMA CompleteIs == \A C : Complete(AllParts(C)) => WithoutGaps(C)
<1> TAKE C
<1> SUFFICES ASSUME Complete(AllParts(C)), NEW n \in DOMAIN C, NEW k \in DOMAIN C[n].parts,
                    C[n].parts[k].lines # <<>>, NEW rune \in 1 .. C[n].parts[k].all
             PROVE  \E m \in DOMAIN C : \E j \in DOMAIN C[m].parts :
                       /\ C[m].parts[j].lines = C[n].parts[k].lines
                       /\ C[m].parts[j].from <= rune /\ rune <= C[m].parts[j].to
  BY DEF WithoutGaps
<1>1. C[n].parts[k] \in AllParts(C)
  BY DEF AllParts, ToSet
<1>2. PICK q \in AllParts(C) : q.lines = C[n].parts[k].lines /\ q.from <= rune /\ rune <= q.to
  BY <1>1 DEF Complete
<1> QED BY <1>2 DEF AllParts, ToSet

LEMMA ToldIs == \A C, X : X \subseteq LinesTold(AllParts(C)) => Covers(C, X)
<1> TAKE C, X
<1> SUFFICES ASSUME X \subseteq LinesTold(AllParts(C)), NEW l \in X
             PROVE  \E n \in DOMAIN C : \E k \in DOMAIN C[n].parts : l \in ToSet(C[n].parts[k].lines)
  BY DEF Covers
<1>1. PICK p \in AllParts(C) : l \in ToSet(p.lines)
  BY DEF LinesTold
<1> QED BY <1>1 DEF AllParts, ToSet

LEMMA LaterPrecedes ==
    ASSUME NEW X, NEW Y, X \subseteq Parts(Nat), Y \subseteq Parts(Nat),
           Later(LinesTold(X), LinesTold(Y))
    PROVE  PrecedeAll(X, Y)
<1> SUFFICES ASSUME NEW p \in X, NEW q \in Y, NEW a \in ToSet(p.lines), NEW b \in ToSet(q.lines)
             PROVE  a < b
  BY DEF PrecedeAll, Precedes
<1>1. p.lines \in Seq(Nat) /\ q.lines \in Seq(Nat)
  BY DEF Parts
<1>2. a \in Nat /\ b \in Nat
  BY <1>1 DEF ToSet
<1> QED BY <1>2 DEF LinesTold, Later

\* One after the other.
LEMMA ConcatTells ==
    ASSUME NEW S, NEW C \in Seq(S), NEW D \in Seq(S)
    PROVE  /\ AllParts(C \o D) = AllParts(C) \cup AllParts(D)
           /\ InOrder(C) /\ InOrder(D) /\ PrecedeAll(AllParts(C), AllParts(D)) => InOrder(C \o D)
<1> DEFINE e == C \o D
           c == Len(C)
           d == Len(D)
<1>1. /\ c \in Nat /\ d \in Nat /\ DOMAIN C = 1 .. c /\ DOMAIN D = 1 .. d /\ DOMAIN e = 1 .. c + d
      /\ \A n \in 1 .. c : e[n] = C[n]
      /\ \A n \in 1 .. c + d : n > c => e[n] = D[n - c]
      /\ \A n \in 1 .. d : e[n + c] = D[n]
  OBVIOUS
<1> HIDE DEF e, c, d
<1>2. \A n \in 1 .. d : n + c \in 1 .. c + d
  BY <1>1
<1>3. \A n \in 1 .. c : n \in 1 .. c + d
  BY <1>1
<1>4. \A n \in 1 .. c + d : n \in 1 .. c \/ (n > c /\ n - c \in 1 .. d)
  BY <1>1
<1>5. AllParts(e) = AllParts(C) \cup AllParts(D)
  <2>1. \A n \in 1 .. c + d : ToSet(e[n].parts) \subseteq AllParts(C) \cup AllParts(D)
    BY <1>1, <1>4 DEF AllParts
  <2>2. \A n \in 1 .. c : ToSet(C[n].parts) \subseteq AllParts(e)
    BY <1>1, <1>3 DEF AllParts
  <2>3. \A n \in 1 .. d : ToSet(D[n].parts) \subseteq AllParts(e)
    BY <1>1, <1>2 DEF AllParts
  <2>4. AllParts(C) \subseteq AllParts(e) /\ AllParts(D) \subseteq AllParts(e)
    BY <1>1, <2>2, <2>3 DEF AllParts
  <2>5. AllParts(e) \subseteq AllParts(C) \cup AllParts(D)
    BY <1>1, <2>1 DEF AllParts
  <2> QED BY <2>4, <2>5
<1>6. ASSUME InOrder(C), InOrder(D), PrecedeAll(AllParts(C), AllParts(D)) PROVE InOrder(e)
  <2> SUFFICES ASSUME NEW m \in 1 .. c + d, NEW n \in 1 .. c + d,
                      NEW j \in DOMAIN e[m].parts, NEW k \in DOMAIN e[n].parts,
                      m < n \/ (m = n /\ j < k)
               PROVE  Precedes(e[m].parts[j], e[n].parts[k])
    BY <1>1 DEF InOrder
  <2>1. CASE m \in 1 .. c /\ n \in 1 .. c
    BY <1>1, <1>6, <2>1 DEF InOrder
  <2>2. CASE m > c /\ n > c
    <3>1. m - c \in 1 .. d /\ n - c \in 1 .. d /\ e[m] = D[m - c] /\ e[n] = D[n - c]
      BY <1>1, <2>2
    <3>2. m - c < n - c \/ (m - c = n - c /\ j < k)
      BY <1>1, <2>2
    <3> DEFINE x == m - c
               y == n - c
    <3>3. /\ x \in DOMAIN D /\ y \in DOMAIN D /\ e[m] = D[x] /\ e[n] = D[y]
          /\ j \in DOMAIN D[x].parts /\ k \in DOMAIN D[y].parts
      BY <1>1, <3>1
    <3>4. x < y \/ (x = y /\ j < k)
      BY <3>2
    <3> HIDE DEF x, y
    <3> QED BY <1>6, <3>3, <3>4 DEF InOrder
  <2>3. CASE m \in 1 .. c /\ n > c
    <3>1. n - c \in 1 .. d /\ e[m] = C[m] /\ e[n] = D[n - c]
      BY <1>1, <2>3
    <3>2. e[m].parts[j] \in AllParts(C) /\ e[n].parts[k] \in AllParts(D)
      BY <1>1, <2>3, <3>1 DEF AllParts, ToSet
    <3> QED BY <1>6, <3>2 DEF PrecedeAll
  <2>4. ~(m > c /\ n \in 1 .. c)
    BY <1>1
  <2> QED BY <1>4, <2>1, <2>2, <2>3, <2>4
<1> QED BY <1>5, <1>6 DEF e

\* One piece, by its parts.
LEMMA SingleTells ==
    ASSUME NEW c
    PROVE  /\ AllParts(<<c>>) = ToSet(c.parts)
           /\ (\A j, k \in DOMAIN c.parts : j < k => Precedes(c.parts[j], c.parts[k]))
              => InOrder(<<c>>)
<1> DEFINE C == <<c>>
<1>1. DOMAIN C = {1} /\ C[1] = c
  OBVIOUS
<1> HIDE DEF C
<1>2. AllParts(C) = ToSet(c.parts)
  BY <1>1 DEF AllParts
<1>3. ASSUME \A j, k \in DOMAIN c.parts : j < k => Precedes(c.parts[j], c.parts[k])
      PROVE  InOrder(C)
  <2> SUFFICES ASSUME NEW m \in DOMAIN C, NEW n \in DOMAIN C,
                      NEW j \in DOMAIN C[m].parts, NEW k \in DOMAIN C[n].parts,
                      m < n \/ (m = n /\ j < k)
               PROVE  Precedes(C[m].parts[j], C[n].parts[k])
    BY DEF InOrder
  <2>1. m = 1 /\ n = 1
    BY <1>1
  <2>2. j < k
    BY <2>1
  <2> QED BY <1>1, <1>3, <2>1, <2>2
<1> QED BY <1>2, <1>3 DEF C

\* A piece whose parts are whole paragraphs, one after the other.
Gathered(parts) ==
    /\ \A k \in 1 .. Len(parts) : parts[k].from = 1 /\ parts[k].to = parts[k].all
    /\ \A j, k \in 1 .. Len(parts) : j < k => Later(ToSet(parts[j].lines), ToSet(parts[k].lines))

LEMMA GatheredTells ==
    ASSUME NEW c, c.parts \in Seq(Parts(Nat)), Gathered(c.parts)
    PROVE  /\ ToSet(c.parts) \subseteq Parts(Nat) /\ AllParts(<<c>>) = ToSet(c.parts)
           /\ InOrder(<<c>>) /\ Complete(ToSet(c.parts))
<1>1. DOMAIN c.parts = 1 .. Len(c.parts) /\ \A k \in 1 .. Len(c.parts) : c.parts[k] \in Parts(Nat)
  OBVIOUS
<1>2. ToSet(c.parts) \subseteq Parts(Nat)
  BY <1>1 DEF ToSet
<1>3. \A j, k \in DOMAIN c.parts : j < k => Precedes(c.parts[j], c.parts[k])
  BY <1>1 DEF Gathered, Precedes, Later
<1>4. \A p \in ToSet(c.parts) : p.from = 1 /\ p.to = p.all
  BY <1>1 DEF ToSet, Gathered
<1>5. Complete(ToSet(c.parts))
  BY <1>2, <1>4 DEF Complete, Parts
<1> QED BY <1>2, <1>3, <1>5, SingleTells

LEMMA GatherMore ==
    ASSUME NEW parts \in Seq(Parts(Nat)), Gathered(parts), NEW p \in Paras(Nat),
           Later(LinesTold(ToSet(parts)), ToSet(p.lines))
    PROVE  /\ Append(parts, Whole(p)) \in Seq(Parts(Nat)) /\ Gathered(Append(parts, Whole(p)))
           /\ LinesTold(ToSet(Append(parts, Whole(p))))
                = LinesTold(ToSet(parts)) \cup ToSet(p.lines)
<1> DEFINE m == Len(parts)
           w == Whole(p)
           more == Append(parts, w)
           X == ToSet(parts)
           Y == ToSet(more)
<1>1. w \in Parts(Nat) /\ w.lines = p.lines /\ w.from = 1 /\ w.to = w.all
  BY WholeType DEF Whole, Part
<1>2. ToSet(p.lines) \subseteq Nat
  BY ParaLines
<1> HIDE DEF w
<1>3. /\ m \in Nat /\ more \in Seq(Parts(Nat)) /\ Len(more) = m + 1 /\ more[m + 1] = w
      /\ DOMAIN more = 1 .. m + 1 /\ DOMAIN parts = 1 .. m
      /\ \A k \in 1 .. m : more[k] = parts[k] /\ parts[k] \in Parts(Nat)
  BY <1>1, AppendIs
<1>4. 1 .. m + 1 = (1 .. m) \cup {m + 1}
  BY <1>3
<1> HIDE DEF more, m
<1>5. Y = X \cup {w}
  BY <1>3, <1>4 DEF ToSet
<1>6. LinesTold(Y) = LinesTold(X) \cup ToSet(p.lines)
  BY <1>1, <1>2, <1>5 DEF LinesTold
<1>7. \A k \in 1 .. m : ToSet(parts[k].lines) \subseteq LinesTold(X)
  <2> TAKE k \in 1 .. m
  <2>1. parts[k] \in X /\ parts[k].lines \in Seq(Nat)
    BY <1>3 DEF ToSet, Parts
  <2>2. ToSet(parts[k].lines) \subseteq Nat
    BY <2>1 DEF ToSet
  <2> QED BY <2>1, <2>2 DEF LinesTold
<1>8. ASSUME NEW j \in 1 .. m + 1, NEW k \in 1 .. m + 1, j < k
      PROVE  Later(ToSet(more[j].lines), ToSet(more[k].lines))
  <2>1. j \in 1 .. m /\ more[j] = parts[j]
    BY <1>3, <1>8
  <2>2. CASE k = m + 1
    BY <1>1, <1>3, <1>7, <2>1, <2>2 DEF Later
  <2>3. CASE k # m + 1
    <3>1. k \in 1 .. m /\ more[k] = parts[k]
      BY <1>3, <2>3
    <3> QED BY <1>8, <2>1, <3>1 DEF Gathered, m
  <2> QED BY <2>2, <2>3
<1>9. \A k \in 1 .. m + 1 : more[k].from = 1 /\ more[k].to = more[k].all
  BY <1>1, <1>3, <1>4 DEF Gathered, m
<1>10. Gathered(more)
  BY <1>3, <1>8, <1>9 DEF Gathered
<1> QED BY <1>3, <1>6, <1>10 DEF more, w

\* The piece of the target's size that holds the rune.
LEMMA RunePiece ==
    ASSUME NEW t \in Nat \ {0}, NEW s \in Nat, NEW rune \in 1 .. s
    PROVE  \E n \in 1 .. (s + t - 1) \div t : (n - 1) * t + 1 <= rune /\ rune <= n * t
<1> DEFINE k == (s + t - 1) \div t
           n == (rune + t - 1) \div t
<1>1. t \in Nat /\ t > 0 /\ rune \in Nat /\ rune > 0 /\ rune <= s
  OBVIOUS
<1>2. k \in Int /\ s <= k * t
  BY <1>1
<1>3. n \in Int /\ rune <= n * t /\ n * t <= rune + t - 1
  BY <1>1
<1> HIDE DEF k, n
<1>4. n > 0
  BY <1>1, <1>3
<1>5. (n - 1) * t = n * t - t
  BY <1>1, <1>3
<1>6. (n - 1) * t + 1 <= rune
  BY <1>1, <1>3, <1>5
<1>7. n <= k
  BY <1>1, <1>2, <1>3
<1>8. n \in 1 .. k
  BY <1>2, <1>3, <1>4, <1>7
<1> QED BY <1>3, <1>6, <1>8 DEF k

\* A paragraph that is cut: its pieces follow each other, and none of its runes is lost.
LEMMA CutsTell ==
    ASSUME NEW p \in Paras(Nat), p.size > ChunkMax
    PROVE  /\ InOrder(Cuts(p)) /\ Complete(AllParts(Cuts(p))) /\ AllParts(Cuts(p)) \subseteq Parts(Nat)
           /\ LinesTold(AllParts(Cuts(p))) = ToSet(p.lines)
<1> DEFINE t == ChunkTarget
           s == p.size
           k == (s + t - 1) \div t
           to(n) == Smaller(n * t, s)
           from(n) == (n - 1) * t + 1
           part(n) == Part(p, from(n), to(n))
           C == Cuts(p)
<1>1. t \in Nat \ {0} /\ s \in Nat /\ s > 0 /\ p.lines \in Seq(Nat)
  BY ContentAssumption DEF Paras
<1>2. C = [n \in 1 .. k |-> [parts |-> <<part(n)>>, size |-> to(n) - from(n) + 1]]
  BY DEF Cuts
<1>3. \A n : /\ part(n).lines = p.lines /\ part(n).all = s /\ part(n).from = from(n)
             /\ part(n).to = to(n)
  BY DEF Part
<1> HIDE DEF t, s
<1>4. k \in Int
  BY <1>1
<1> HIDE DEF k, part
<1>5. ASSUME NEW n \in 1 .. k
      PROVE  /\ to(n) \in Int /\ from(n) \in Int /\ to(n) <= n * t /\ n * t \in Int
             /\ from(n) = n * t - t + 1
             /\ \A rune \in 1 .. s : rune <= n * t => rune <= to(n)
  <2>1. n \in Nat
    BY <1>4
  <2>2. n * t \in Int /\ (n - 1) * t = n * t - t
    BY <1>1, <2>1
  <2> QED BY <1>1, <2>2 DEF Smaller
<1>6. ASSUME NEW m \in 1 .. k, NEW n \in 1 .. k, m < n PROVE to(m) < from(n)
  <2>1. m \in Nat /\ n \in Nat /\ m <= n - 1
    BY <1>4, <1>6
  <2>2. m * t <= n * t - t
    <3>1. PICK z \in Nat : n = m + z + 1
      <4>1. n - m - 1 \in Nat /\ n = m + (n - m - 1) + 1
        BY <2>1
      <4> QED BY <4>1
    <3>2. n * t = m * t + z * t + t /\ z * t \in Nat /\ m * t \in Nat
      BY <1>1, <2>1, <3>1
    <3> QED BY <1>1, <3>2
  <2> DEFINE x == m * t
             y == n * t
  <2>3. /\ to(m) \in Int /\ to(m) <= x /\ x \in Int /\ y \in Int /\ from(n) = y - t + 1
        /\ x <= y - t /\ t \in Int
    <3> HIDE DEF to, from
    <3> QED BY <1>1, <1>5, <2>2
  <2> HIDE DEF to, from, x, y
  <2> QED BY <2>3
<1> HIDE DEF to, from
<1>7. DOMAIN C = 1 .. k /\ \A n \in 1 .. k : C[n].parts = <<part(n)>>
  BY <1>2
<1> HIDE DEF C
<1>8. \A n \in 1 .. k : DOMAIN C[n].parts = {1} /\ C[n].parts[1] = part(n)
  BY <1>7
<1>9. AllParts(C) = {part(n) : n \in 1 .. k}
  <2>1. \A n \in 1 .. k : ToSet(C[n].parts) = {part(n)}
    BY <1>8 DEF ToSet
  <2>2. \A q : q \in AllParts(C) <=> \E n \in 1 .. k : q = part(n)
    <3>1. \A q : q \in AllParts(C) <=> \E n \in DOMAIN C : q \in ToSet(C[n].parts)
      BY DEF AllParts
    <3>2. \A n \in 1 .. k : \A q : q \in ToSet(C[n].parts) <=> q = part(n)
      BY <2>1
    <3>3. DOMAIN C = 1 .. k
      BY <1>7
    <3> QED BY <3>1, <3>2, <3>3
  <2> QED BY <2>2
<1>10. InOrder(C)
  <2> SUFFICES ASSUME NEW m \in 1 .. k, NEW n \in 1 .. k, m < n PROVE Precedes(part(m), part(n))
    BY <1>7, <1>8 DEF InOrder
  <2> QED BY <1>3, <1>6 DEF Precedes
<1>11. AllParts(C) \subseteq Parts(Nat)
  BY <1>1, <1>3, <1>5, <1>9 DEF Parts, Part, part
<1>12. ASSUME NEW rune \in 1 .. s
       PROVE  \E n \in 1 .. k : from(n) <= rune /\ rune <= to(n)
  <2>1. PICK n \in 1 .. k : (n - 1) * t + 1 <= rune /\ rune <= n * t
    BY <1>1, RunePiece DEF k
  <2>2. from(n) <= rune
    BY <2>1 DEF from
  <2> QED BY <1>5, <2>1, <2>2
<1>13. Complete(AllParts(C))
  BY <1>3, <1>9, <1>12 DEF Complete
<1>14. LinesTold(AllParts(C)) = ToSet(p.lines)
  <2>1. ToSet(p.lines) \subseteq Nat
    BY ParaLines
  <2>2. 1 \in 1 .. s
    BY <1>1 DEF s
  <2>3. \E n \in 1 .. k : TRUE
    BY <1>12, <2>2
  <2> QED BY <1>3, <1>9, <2>1, <2>3 DEF LinesTold
<1> QED BY <1>10, <1>11, <1>13, <1>14 DEF C

Tells(C) == InOrder(C) /\ Complete(AllParts(C))

LEMMA AllPartsType ==
    ASSUME NEW S, \A c \in S : c.parts \in Seq(Parts(Nat)), NEW C \in Seq(S)
    PROVE  AllParts(C) \subseteq Parts(Nat)
<1>1. DOMAIN C = 1 .. Len(C) /\ \A n \in 1 .. Len(C) : C[n] \in S
  OBVIOUS
<1>2. \A n \in 1 .. Len(C) : ToSet(C[n].parts) \subseteq Parts(Nat)
  <2> TAKE n \in 1 .. Len(C)
  <2>1. C[n].parts \in Seq(Parts(Nat))
    BY <1>1
  <2> QED BY <2>1 DEF ToSet
<1> QED BY <1>1, <1>2 DEF AllParts

LEMMA CompleteUnion ==
    \A X, Y : Complete(X) /\ Complete(Y) => Complete(X \cup Y)
BY DEF Complete

LEMMA ToldUnion ==
    \A X, Y : LinesTold(X \cup Y) = LinesTold(X) \cup LinesTold(Y)
BY DEF LinesTold

LEMMA AppendConcat ==
    ASSUME NEW S, NEW C \in Seq(S), NEW c \in S
    PROVE  Append(C, c) = C \o <<c>>
OBVIOUS

\* Later text after what there is.
LEMMA TellsMore ==
    ASSUME NEW S, \A c \in S : c.parts \in Seq(Parts(Nat)), NEW C \in Seq(S), NEW D \in Seq(S),
           Tells(C), Tells(D), Later(LinesTold(AllParts(C)), LinesTold(AllParts(D)))
    PROVE  /\ Tells(C \o D)
           /\ LinesTold(AllParts(C \o D)) = LinesTold(AllParts(C)) \cup LinesTold(AllParts(D))
<1>1. AllParts(C) \subseteq Parts(Nat) /\ AllParts(D) \subseteq Parts(Nat)
  BY AllPartsType
<1>2. PrecedeAll(AllParts(C), AllParts(D))
  BY <1>1, LaterPrecedes
<1>3. AllParts(C \o D) = AllParts(C) \cup AllParts(D) /\ InOrder(C \o D)
  BY <1>2, ConcatTells DEF Tells
<1>4. Complete(AllParts(C) \cup AllParts(D))
  BY CompleteUnion DEF Tells
<1> QED BY <1>3, <1>4, ToldUnion DEF Tells

\* The lines of the first n paragraphs.
ToldUpTo(ps, n) == {a \in Nat : \E i \in 1 .. n : a \in ToSet(ps[i].lines)}

TakeInv(ps, acc, n) ==
    LET told == LinesTold(AllParts(acc.out)) gathered == LinesTold(ToSet(acc.cur.parts)) IN
    /\ Tells(acc.out) /\ Gathered(acc.cur.parts)
    /\ Later(told, gathered) /\ told \cup gathered = ToldUpTo(ps, n)
    /\ acc.cur.size = 0 => gathered = {}

LEMMA CloseKeeps ==
    ASSUME NEW acc \in Taking(Nat), NEW ps, NEW n, TakeInv(ps, acc, n)
    PROVE  /\ Append(acc.out, acc.cur) \in Seq(FitPieces(Nat)) /\ Tells(Append(acc.out, acc.cur))
           /\ LinesTold(AllParts(Append(acc.out, acc.cur))) = ToldUpTo(ps, n)
<1> DEFINE F == FitPieces(Nat)
           D == <<acc.cur>>
<1>1. acc.out \in Seq(F) /\ acc.cur \in F /\ acc.cur.parts \in Seq(Parts(Nat))
  BY ContentAssumption DEF Taking, Gathering, FitPieces, Fits
<1>2. \A c \in F : c.parts \in Seq(Parts(Nat))
  BY DEF FitPieces
<1>3. AllParts(D) = ToSet(acc.cur.parts) /\ Tells(D)
  BY <1>1, GatheredTells DEF TakeInv, Tells
<1> HIDE DEF F
<1>4. D \in Seq(F)
  BY <1>1
<1>5. Append(acc.out, acc.cur) = acc.out \o D /\ Append(acc.out, acc.cur) \in Seq(F)
  BY <1>1, AppendConcat, AppendIs
<1> HIDE DEF D
<1>6. /\ Tells(acc.out \o D)
      /\ LinesTold(AllParts(acc.out \o D)) = LinesTold(AllParts(acc.out)) \cup LinesTold(AllParts(D))
  BY <1>1, <1>2, <1>3, <1>4, TellsMore DEF TakeInv
<1> QED BY <1>3, <1>5, <1>6 DEF TakeInv, F

LEMMA NothingTold == LinesTold({}) = {} /\ Gathered(<<>>) /\ ToSet(<<>>) = {}
                     /\ AllParts(<<>>) = {} /\ Tells(<<>>)
BY DEF LinesTold, Gathered, ToSet, AllParts, Tells, InOrder, Complete

LEMMA ToldNext ==
    ASSUME NEW ps \in Seq(Paras(Nat)), ParasInv(ps), NEW n \in 0 .. Len(ps) - 1
    PROVE  /\ ToldUpTo(ps, n + 1) = ToldUpTo(ps, n) \cup ToSet(ps[n + 1].lines)
           /\ Later(ToldUpTo(ps, n), ToSet(ps[n + 1].lines))
           /\ ps[n + 1] \in Paras(Nat) /\ ps[n + 1].size \in Nat
           /\ ps[n + 1].lines # <<>> => ps[n + 1].size > 0
<1> DEFINE m == Len(ps)
<1>1. m \in Nat /\ n + 1 \in 1 .. m /\ ps[n + 1] \in Paras(Nat) /\ 1 .. n + 1 = (1 .. n) \cup {n + 1}
      /\ \A i \in 1 .. n : i \in 1 .. m /\ i < n + 1
  OBVIOUS
<1>2. ToSet(ps[n + 1].lines) \subseteq Nat /\ ps[n + 1].size \in Nat
  BY <1>1, ParaLines DEF Paras
<1>3. ToldUpTo(ps, n + 1) = ToldUpTo(ps, n) \cup ToSet(ps[n + 1].lines)
  BY <1>1, <1>2 DEF ToldUpTo
<1>4. Later(ToldUpTo(ps, n), ToSet(ps[n + 1].lines))
  BY <1>1 DEF ToldUpTo, Later, ParasInv
<1>5. ps[n + 1].lines # <<>> => ps[n + 1].size > 0
  BY <1>1 DEF ParasInv
<1> QED BY <1>1, <1>2, <1>3, <1>4, <1>5

LEMMA TakeKeeps ==
    ASSUME NEW ps \in Seq(Paras(Nat)), ParasInv(ps), NEW n \in 0 .. Len(ps) - 1,
           NEW acc \in Taking(Nat), TakeInv(ps, acc, n)
    PROVE  TakeInv(ps, Take(acc, ps[n + 1]), n + 1)
<1> DEFINE F == FitPieces(Nat)
           p == ps[n + 1]
           a == IF Full(acc.cur, p) THEN [out |-> Append(acc.out, acc.cur), cur |-> NoPiece] ELSE acc
           gathered == LinesTold(ToSet(a.cur.parts))
           told == LinesTold(AllParts(a.out))
<1>1. Take(acc, p) = IF p.size > ChunkMax THEN [a EXCEPT !.out = @ \o Cuts(p)]
                     ELSE [a EXCEPT !.cur = [parts |-> Append(@.parts, Whole(p)),
                                             size |-> @.size + p.size + (IF @.size > 0 THEN 2 ELSE 0)]]
  BY DEF Take
<1>2. /\ ToldUpTo(ps, n + 1) = ToldUpTo(ps, n) \cup ToSet(p.lines)
      /\ Later(ToldUpTo(ps, n), ToSet(p.lines))
      /\ p \in Paras(Nat) /\ p.size \in Nat /\ (p.lines # <<>> => p.size > 0)
  BY ToldNext
<1> HIDE DEF p
<1>3. /\ a.out \in Seq(F) /\ a.cur.parts \in Seq(Parts(Nat)) /\ a.cur.size \in Nat
      /\ a = [out |-> a.out, cur |-> a.cur]
      /\ TakeInv(ps, a, n)
      /\ p.size > ChunkMax => a.cur.size = 0
  <2>1. acc.out \in Seq(F) /\ acc.cur.parts \in Seq(Parts(Nat)) /\ acc.cur.size \in Nat
        /\ acc = [out |-> acc.out, cur |-> acc.cur]
    BY ContentAssumption DEF Taking, Gathering
  <2>2. CASE Full(acc.cur, p)
    <3>1. a = [out |-> Append(acc.out, acc.cur), cur |-> NoPiece]
      BY <2>2
    <3>2. a.cur.parts = <<>> /\ a.cur.size = 0 /\ a.out = Append(acc.out, acc.cur)
          /\ a = [out |-> a.out, cur |-> a.cur]
      <4> DEFINE o == Append(acc.out, acc.cur)
      <4>1. a = [out |-> o, cur |-> NoPiece]
        BY <3>1
      <4> HIDE DEF a, o
      <4>2. a.out = o /\ a.cur = NoPiece /\ a = [out |-> a.out, cur |-> a.cur]
        BY <4>1
      <4> QED BY <4>2 DEF NoPiece, o
    <3> HIDE DEF a, F
    <3>3. a.out \in Seq(F) /\ Tells(a.out) /\ LinesTold(AllParts(a.out)) = ToldUpTo(ps, n)
      BY <3>2, CloseKeeps DEF F
    <3>4. TakeInv(ps, a, n)
      BY <3>2, <3>3, NothingTold DEF TakeInv, Later
    <3> QED BY <3>2, <3>3, <3>4
  <2>3. CASE ~Full(acc.cur, p)
    <3>1. a = acc
      BY <2>3
    <3>2. p.size > ChunkMax => acc.cur.size = 0
      <4>1. ChunkTarget \in Nat /\ ChunkMax \in Nat /\ ChunkTarget <= ChunkMax
        BY ContentAssumption
      <4>2. acc.cur.size = 0 \/ acc.cur.size + p.size <= ChunkTarget
        BY <1>2, <2>1, <2>3, <4>1 DEF Full
      <4> QED BY <1>2, <2>1, <4>1, <4>2
    <3> HIDE DEF a, F
    <3> QED BY <2>1, <3>1, <3>2
  <2> QED BY <2>2, <2>3
<1>4. told \cup gathered = ToldUpTo(ps, n) /\ Later(told, gathered) /\ Tells(a.out)
      /\ Gathered(a.cur.parts) /\ (a.cur.size = 0 => gathered = {})
  BY <1>3 DEF TakeInv
<1> HIDE DEF a
<1>5. CASE p.size > ChunkMax
  <2> DEFINE D == Cuts(p)
             b == [out |-> a.out \o D, cur |-> a.cur]
  <2>1. Take(acc, p) = b
    BY <1>1, <1>3, <1>5
  <2>2. Tells(D) /\ LinesTold(AllParts(D)) = ToSet(p.lines) /\ D \in Seq(F)
    BY <1>2, <1>5, CutsTell, CutsType DEF Tells
  <2>3. \A c \in F : c.parts \in Seq(Parts(Nat))
    BY DEF FitPieces
  <2>4. gathered = {} /\ told = ToldUpTo(ps, n)
    BY <1>3, <1>4, <1>5
  <2> HIDE DEF D, F
  <2>5. Later(LinesTold(AllParts(a.out)), LinesTold(AllParts(D)))
    BY <1>2, <2>2, <2>4
  <2>6. Tells(a.out \o D) /\ LinesTold(AllParts(a.out \o D)) = told \cup ToSet(p.lines)
    <3>1. a.out \in Seq(F) /\ Tells(a.out) /\ D \in Seq(F) /\ Tells(D)
      BY <1>3, <1>4, <2>2
    <3>2. LinesTold(AllParts(D)) = ToSet(p.lines)
      BY <2>2
    <3> QED BY <2>3, <2>5, <3>1, <3>2, TellsMore
  <2>7. TakeInv(ps, b, n + 1)
    BY <1>2, <1>4, <2>4, <2>6 DEF TakeInv, Later
  <2> QED BY <2>1, <2>7 DEF p
<1>6. CASE ~(p.size > ChunkMax)
  <2> DEFINE parts == Append(a.cur.parts, Whole(p))
             k == a.cur.size + p.size + (IF a.cur.size > 0 THEN 2 ELSE 0)
             b == [out |-> a.out, cur |-> [parts |-> parts, size |-> k]]
  <2>1. Take(acc, p) = b
    BY <1>1, <1>3, <1>6
  <2>2. Later(gathered, ToSet(p.lines)) /\ Later(told, ToSet(p.lines))
    BY <1>2, <1>4 DEF Later
  <2>3. Gathered(parts) /\ LinesTold(ToSet(parts)) = gathered \cup ToSet(p.lines)
    BY <1>2, <1>3, <1>4, <2>2, GatherMore
  <2>4. k = 0 => a.cur.size = 0 /\ p.size = 0
    BY <1>2, <1>3
  <2>5. k = 0 => gathered = {} /\ ToSet(p.lines) = {}
    <3> HIDE DEF k
    <3>1. k = 0 => p.lines = <<>>
      <4>1. p.lines # <<>> => p.size # 0
        BY <1>2
      <4> QED BY <2>4, <4>1
    <3> QED BY <1>4, <2>4, <3>1, NothingTold
  <2> HIDE DEF parts, k
  <2>6. TakeInv(ps, b, n + 1)
    BY <1>2, <1>4, <2>2, <2>3, <2>5 DEF TakeInv, Later
  <2> QED BY <2>1, <2>6 DEF p
<1> QED BY <1>5, <1>6

\* splitBySize: every line of the text, once and in order.
LEMMA PiecesTell ==
    ASSUME NEW ls \in Seq(PlainLines), Ascending(ls)
    PROVE  Tells(Pieces(ls)) /\ LinesTold(AllParts(Pieces(ls))) = TextOf(ls, Len(ls))
<1> DEFINE ps == Paragraphs(ls)
           m == Len(ps)
           f == TakenUpTo(ps)
           end == f[m]
           parts == [n \in DOMAIN ps |-> Whole(ps[n])]
           T == {n \in 0 .. m : TakeInv(ps, f[n], n)}
<1>1. ps \in Seq(Paras(Nat)) /\ ParasInv(ps) /\ ParasTold(ps) = TextOf(ls, Len(ls))
  BY ParagraphsTell, ParagraphsType DEF PlainLines
<1>2. Pieces(ls) = IF SizeOf(ls) <= ChunkMax THEN <<[parts |-> parts, size |-> SizeOf(ls)]>>
                   ELSE IF end.cur.size = 0 THEN end.out ELSE Append(end.out, end.cur)
  BY DEF Pieces
<1>3. ToldUpTo(ps, m) = TextOf(ls, Len(ls))
  BY <1>1 DEF ToldUpTo, ParasTold
<1> HIDE DEF ps
<1>4. m \in Nat /\ DOMAIN ps = 1 .. m /\ \A n \in 1 .. m : ps[n] \in Paras(Nat)
  BY <1>1
<1>5. CASE SizeOf(ls) <= ChunkMax
  <2> DEFINE c == [parts |-> parts, size |-> SizeOf(ls)]
  <2>1. \A n \in 1 .. m : parts[n] = Whole(ps[n])
    BY <1>4
  <2>2. parts \in [1 .. m -> Parts(Nat)]
    BY <1>4, WholeType
  <2>3. DOMAIN parts = 1 .. m
    BY <1>4
  <2>4. c.parts = parts
    OBVIOUS
  <2> HIDE DEF parts
  <2>5. parts \in Seq(Parts(Nat)) /\ Len(parts) = m
    BY <1>4, <2>2
  <2>6. \A n \in 1 .. m : /\ parts[n].lines = ps[n].lines /\ parts[n].from = 1
                          /\ parts[n].to = parts[n].all
    <3>1. \A p : Whole(p).lines = p.lines /\ Whole(p).from = 1 /\ Whole(p).to = Whole(p).all
      BY DEF Whole, Part
    <3> QED BY <2>1, <3>1
  <2>7. Gathered(parts)
    BY <1>1, <2>5, <2>6 DEF Gathered, ParasInv
  <2> HIDE DEF c
  <2>8. Tells(<<c>>) /\ AllParts(<<c>>) = ToSet(parts)
    BY <2>4, <2>5, <2>7, GatheredTells DEF Tells
  <2>9. LinesTold(ToSet(parts)) = ToldUpTo(ps, m)
    <3>1. \A p : p \in ToSet(parts) <=> \E n \in 1 .. m : p = parts[n]
      BY <2>3 DEF ToSet
    <3>2. \A a \in Nat : a \in LinesTold(ToSet(parts)) <=> a \in ToldUpTo(ps, m)
      BY <2>6, <3>1 DEF LinesTold, ToldUpTo
    <3> QED BY <3>2 DEF LinesTold, ToldUpTo
  <2> QED BY <1>2, <1>3, <1>5, <2>8, <2>9 DEF c
<1>6. CASE ~(SizeOf(ls) <= ChunkMax)
  <2>1. /\ f[0] = [out |-> <<>>, cur |-> NoPiece]
        /\ \A n \in 1 .. m : f[n] = Take(f[n - 1], ps[n])
        /\ \A n \in 0 .. m : f[n] \in Taking(Nat)
    BY <1>1, TakenUpToIs
  <2> HIDE DEF f
  <2>2. \A n \in 0 .. m : n \in T
    <3>1. 0 \in T
      <4>1. ToldUpTo(ps, 0) = {}
        BY DEF ToldUpTo
      <4>2. f[0].out = <<>> /\ f[0].cur.parts = <<>>
        BY <2>1 DEF NoPiece
      <4>3. TakeInv(ps, f[0], 0)
        BY <4>1, <4>2, NothingTold DEF TakeInv, Later
      <4> QED BY <1>4, <4>3
    <3>2. ASSUME NEW n \in 0 .. m - 1, n \in T PROVE n + 1 \in T
      <4>1. n + 1 \in 1 .. m /\ (n + 1) - 1 = n /\ n \in 0 .. m /\ n + 1 \in 0 .. m
        BY <1>4
      <4>2. TakeInv(ps, Take(f[n], ps[n + 1]), n + 1)
        BY <1>1, <2>1, <3>2, <4>1, TakeKeeps
      <4> QED BY <2>1, <4>1, <4>2
    <3> HIDE DEF T, m
    <3> QED BY <1>4, <3>1, <3>2, Induction
  <2>3. m \in 0 .. m
    BY <1>4
  <2>4. end \in Taking(Nat) /\ TakeInv(ps, end, m)
    BY <2>1, <2>2, <2>3
  <2> HIDE DEF end
  <2>5. CASE end.cur.size = 0
    BY <1>2, <1>3, <1>6, <2>4, <2>5 DEF TakeInv
  <2>6. CASE end.cur.size # 0
    <3>1. Pieces(ls) = Append(end.out, end.cur)
      BY <1>2, <1>6, <2>6
    <3> QED BY <1>3, <2>4, <3>1, CloseKeeps
  <2> QED BY <2>5, <2>6
<1> QED BY <1>5, <1>6

\* The parts of the first n pieces.
SomeParts(C, n) == UNION {ToSet(C[m].parts) : m \in 1 .. n}

\* What add leaves out has no lines.
LEMMA ChunksOfTell ==
    ASSUME NEW section, NEW ls \in Seq(PlainLines), Ascending(ls)
    PROVE  /\ Tells(ChunksOf(section, ls))
           /\ LinesTold(AllParts(ChunksOf(section, ls))) = TextOf(ls, Len(ls))
<1> DEFINE F == FitChunks({section.heading}, Nat)
           pieces == Pieces(ls)
           m == Len(pieces)
           chunk(n) == [heading |-> section.heading, parts |-> pieces[n].parts, size |-> pieces[n].size]
           kept(n) == \E k \in DOMAIN pieces[n].parts : pieces[n].parts[k].lines # <<>>
           ss == [n \in DOMAIN pieces |-> IF kept(n) THEN <<chunk(n)>> ELSE <<>>]
<1>1. pieces \in Seq(FitPieces(Nat)) /\ Tells(pieces)
      /\ LinesTold(AllParts(pieces)) = TextOf(ls, Len(ls))
  BY PiecesType, PiecesTell DEF PlainLines
<1>2. ChunksOf(section, ls) = FlattenSeq(ss)
  BY DEF ChunksOf
<1> HIDE DEF pieces
<1>3. m \in Nat /\ DOMAIN pieces = 1 .. m
      /\ \A n \in 1 .. m : pieces[n] \in FitPieces(Nat)
  BY <1>1
<1>4. \A n \in 1 .. m : chunk(n) \in F /\ chunk(n).parts = pieces[n].parts
  BY <1>1, <1>3 DEF FitPieces, FitChunks
<1> HIDE DEF chunk, F, m
<1>5. \A n \in 1 .. m : ss[n] = IF kept(n) THEN <<chunk(n)>> ELSE <<>>
  BY <1>3
<1>6. ss \in [1 .. m -> Seq(F)]
  <2>1. \A n \in 1 .. m : <<chunk(n)>> \in Seq(F) /\ <<>> \in Seq(F)
    BY <1>4
  <2> QED BY <1>3, <2>1
<1> HIDE DEF ss, kept
<1>7. ss \in Seq(Seq(F)) /\ Len(ss) = m
  BY <1>3, <1>6
<1>8. PICK f \in [0 .. m -> Seq(F)] :
         /\ f[0] = <<>> /\ \A n \in 1 .. m : f[n] = f[n - 1] \o ss[n]
         /\ FlattenSeq(ss) = f[m]
  BY <1>7, FlattenUpTo
<1> DEFINE P(n) == /\ InOrder(f[n]) /\ AllParts(f[n]) \subseteq SomeParts(pieces, n)
                   /\ \A q \in SomeParts(pieces, n) : q.lines # <<>> => q \in AllParts(f[n])
           T == {n \in 0 .. m : P(n)}
<1>9. \A n \in 0 .. m : n \in T
  <2>1. 0 \in T
    <3>1. SomeParts(pieces, 0) = {}
      BY DEF SomeParts
    <3> QED BY <1>3, <1>8, <3>1, NothingTold DEF Tells
  <2>2. ASSUME NEW n \in 0 .. m - 1, n \in T PROVE n + 1 \in T
    <3> DEFINE g == f[n]
               h == ss[n + 1]
               X == ToSet(pieces[n + 1].parts)
    <3>1. n + 1 \in 1 .. m /\ (n + 1) - 1 = n /\ n \in 0 .. m /\ n + 1 \in 0 .. m
          /\ 1 .. n + 1 = (1 .. n) \cup {n + 1} /\ \A i \in 1 .. n : i \in 1 .. m /\ i < n + 1
      BY <1>3
    <3>2. g \in Seq(F) /\ h \in Seq(F) /\ f[n + 1] = g \o h
      BY <1>6, <1>8, <3>1
    <3>3. P(n)
      BY <2>2
    <3>4. SomeParts(pieces, n + 1) = SomeParts(pieces, n) \cup X
      <4>1. \A q : q \in SomeParts(pieces, n + 1) <=> \E i \in 1 .. n + 1 : q \in ToSet(pieces[i].parts)
        BY DEF SomeParts
      <4>2. \A q : q \in SomeParts(pieces, n) <=> \E i \in 1 .. n : q \in ToSet(pieces[i].parts)
        BY DEF SomeParts
      <4>3. \A q : q \in SomeParts(pieces, n + 1) <=> q \in SomeParts(pieces, n) \cup X
        BY <3>1, <4>1, <4>2
      <4> HIDE DEF X
      <4> QED BY <4>3
    <3>5. CASE kept(n + 1)
      <4>1. h = <<chunk(n + 1)>> /\ chunk(n + 1).parts = pieces[n + 1].parts
        BY <1>4, <1>5, <3>1, <3>5
      <4>2. \A j, k \in DOMAIN pieces[n + 1].parts : j < k =>
               Precedes(pieces[n + 1].parts[j], pieces[n + 1].parts[k])
        BY <1>1, <1>3, <3>1 DEF Tells, InOrder
      <4>3. InOrder(h) /\ AllParts(h) = X
        BY <4>1, <4>2, SingleTells
      <4>4. \A i \in 1 .. n : PrecedeAll(ToSet(pieces[i].parts), X)
        <5> SUFFICES ASSUME NEW i \in 1 .. n, NEW p \in ToSet(pieces[i].parts), NEW q \in X
                     PROVE  Precedes(p, q)
          BY DEF PrecedeAll
        <5>1. PICK j \in DOMAIN pieces[i].parts : p = pieces[i].parts[j]
          BY DEF ToSet
        <5>2. PICK k \in DOMAIN pieces[n + 1].parts : q = pieces[n + 1].parts[k]
          BY DEF ToSet
        <5>3. i \in DOMAIN pieces /\ n + 1 \in DOMAIN pieces /\ i < n + 1 /\ InOrder(pieces)
          BY <1>1, <1>3, <3>1 DEF Tells
        <5> DEFINE z == n + 1
        <5> HIDE DEF z
        <5>4. Precedes(pieces[i].parts[j], pieces[z].parts[k])
          BY <5>3 DEF InOrder, z
        <5> QED BY <5>1, <5>2, <5>4 DEF z
      <4>5. PrecedeAll(SomeParts(pieces, n), X)
        <5> HIDE DEF X
        <5> QED BY <4>4 DEF PrecedeAll, SomeParts
      <4> HIDE DEF X, g, h
      <4>6. PrecedeAll(AllParts(g), AllParts(h))
        BY <3>3, <4>3, <4>5 DEF PrecedeAll, g
      <4>7. InOrder(g \o h) /\ AllParts(g \o h) = AllParts(g) \cup X
        BY <3>2, <3>3, <4>3, <4>6, ConcatTells DEF g
      <4>8. P(n + 1)
        BY <3>2, <3>3, <3>4, <4>7 DEF g
      <4> QED BY <3>1, <4>8
    <3>6. CASE ~kept(n + 1)
      <4>1. h = <<>>
        BY <1>5, <3>1, <3>6
      <4>2. \A q \in X : q.lines = <<>>
        BY <3>6 DEF kept, ToSet
      <4>3. f[n + 1] = g
        <5> HIDE DEF g, h
        <5> QED BY <3>2, <4>1, ConcatEmptySeq
      <4> HIDE DEF X
      <4>4. P(n + 1)
        BY <3>3, <3>4, <4>2, <4>3
      <4> QED BY <3>1, <4>4
    <3> QED BY <3>5, <3>6
  <2> HIDE DEF T
  <2> QED BY <1>3, <2>1, <2>2, Induction
<1> DEFINE all == f[m]
           Y == AllParts(all)
           Z == AllParts(pieces)
<1>10. P(m)
  <2>1. m \in 0 .. m
    BY <1>3
  <2> QED BY <1>9, <2>1
<1>11. Z = SomeParts(pieces, m)
  BY <1>3 DEF AllParts, SomeParts
<1>12. InOrder(all) /\ Y \subseteq Z /\ \A q \in Z : q.lines # <<>> => q \in Y
  BY <1>10, <1>11
<1> HIDE DEF Y, Z
<1>13. Complete(Y)
  BY <1>1, <1>12 DEF Tells, Complete, Z
<1>14. LinesTold(Y) = LinesTold(Z)
  BY <1>12 DEF LinesTold, ToSet
<1> QED BY <1>1, <1>2, <1>8, <1>12, <1>13, <1>14 DEF Tells, Y, Z

-----------------------------------------------------------------------------
(* Sections: the lines below the headings, in order. *)

TextIn(ls) == TextOf(ls, Len(ls))

LinesUpTo(ls, n) == {i \in 1 .. n : ls[i].size > 0 /\ ls[i].level = 0}

SectsTold(out) == {a \in Nat : \E j \in 1 .. Len(out) : a \in TextIn(out[j].body)}

InSequence(out) ==
    /\ \A j \in 1 .. Len(out) : Ascending(out[j].body)
    /\ \A i, j \in 1 .. Len(out) : i < j => Later(TextIn(out[i].body), TextIn(out[j].body))

\* After n lines.
CutText(ls, acc, n) ==
    /\ InSequence(acc.out) /\ Ascending(acc.body)
    /\ Later(SectsTold(acc.out), TextIn(acc.body))
    /\ SectsTold(acc.out) \cup TextIn(acc.body) = LinesUpTo(ls, n)

LEMMA TextAppend ==
    ASSUME NEW ls \in Seq(PlainLines), NEW l \in PlainLines
    PROVE  /\ TextIn(Append(ls, l)) = TextIn(ls) \cup (IF l.size > 0 THEN {l.at} ELSE {})
           /\ Ascending(ls) /\ Later(TextIn(ls), {l.at}) => Ascending(Append(ls, l))
<1> DEFINE m == Len(ls)
           more == Append(ls, l)
<1>1. /\ m \in Nat /\ more \in Seq(PlainLines) /\ Len(more) = m + 1 /\ more[m + 1] = l
      /\ \A n \in 1 .. m : more[n] = ls[n]
  BY AppendIs
<1>2. 1 .. m + 1 = (1 .. m) \cup {m + 1}
  BY <1>1
<1>3. l.at \in Nat /\ \A n \in 1 .. m : ls[n].at \in Nat
  <2>1. \A n \in 1 .. m : ls[n] \in PlainLines
    OBVIOUS
  <2> QED BY <2>1 DEF PlainLines, LinesOf
<1> HIDE DEF more, m
<1>4. \A a \in Nat : a \in TextIn(more) <=> a \in TextIn(ls) \/ (l.size > 0 /\ l.at = a)
  BY <1>1, <1>2 DEF TextIn, TextOf, m
<1>5. TextIn(more) = TextIn(ls) \cup (IF l.size > 0 THEN {l.at} ELSE {})
  <2>1. TextIn(more) \subseteq Nat /\ TextIn(ls) \subseteq Nat
    BY DEF TextIn, TextOf
  <2> QED BY <1>3, <1>4, <2>1
<1>6. ASSUME Ascending(ls), Later(TextIn(ls), {l.at}) PROVE Ascending(more)
  <2> SUFFICES ASSUME NEW i \in 1 .. m + 1, NEW j \in 1 .. m + 1, i < j, more[i].size > 0, more[j].size > 0
               PROVE  more[i].at < more[j].at
    BY <1>1 DEF Ascending
  <2>1. i \in 1 .. m /\ more[i] = ls[i]
    BY <1>1
  <2>2. CASE j = m + 1
    <3>1. ls[i].at \in TextIn(ls)
      BY <1>3, <2>1 DEF TextIn, TextOf, m
    <3> QED BY <1>1, <1>6, <2>1, <2>2, <3>1 DEF Later
  <2>3. CASE j # m + 1
    <3>1. j \in 1 .. m /\ more[j] = ls[j]
      BY <1>1, <2>3
    <3> QED BY <1>6, <2>1, <3>1 DEF Ascending, m
  <2> QED BY <2>2, <2>3
<1> QED BY <1>5, <1>6 DEF more

LEMMA NoText ==
    ASSUME NEW ls \in Seq(PlainLines), ~HasText(ls)
    PROVE  TextIn(ls) = {}
BY DEF TextIn, TextOf, HasText

LEMMA BlankText == TextIn(<<>>) = {} /\ Ascending(<<>>) /\ SectsTold(<<>>) = {} /\ InSequence(<<>>)
BY DEF TextIn, TextOf, Ascending, SectsTold, InSequence

LEMMA FlushedText ==
    ASSUME NEW ls, NEW n, NEW acc \in Cutting, CutText(ls, acc, n)
    PROVE  CutText(ls, Flushed(acc), n) /\ InSequence(Flushed(acc).out)
           /\ SectsTold(Flushed(acc).out) = LinesUpTo(ls, n)
<1> DEFINE s == [heading |-> acc.path, body |-> acc.body]
           out == acc.out
           m == Len(out)
           new == Flushed(acc).out
<1>1. out \in Seq(Sects) /\ acc.path \in Seq(Nat) /\ acc.body \in Seq(PlainLines) /\ m \in Nat
  BY DEF Cutting
<1>2. Flushed(acc).body = <<>> /\ new = IF HasText(acc.body) THEN Append(out, s) ELSE out
  BY <1>1 DEF Flushed, Cutting
<1>3. s \in Sects /\ s.body = acc.body
  BY <1>1 DEF Sects
<1> HIDE DEF s, new
<1>4. CASE HasText(acc.body)
  <2>1. /\ Len(new) = m + 1 /\ new[m + 1] = s /\ new = Append(out, s)
        /\ \A j \in 1 .. m : new[j] = out[j]
    BY <1>1, <1>2, <1>3, <1>4, AppendIs
  <2>2. 1 .. m + 1 = (1 .. m) \cup {m + 1}
    BY <1>1
  <2>3. TextIn(acc.body) \subseteq Nat /\ \A j \in 1 .. m : TextIn(out[j].body) \subseteq SectsTold(out)
    BY DEF TextIn, TextOf, SectsTold
  <2> HIDE DEF m
  <2>4. \A a \in Nat : a \in SectsTold(new) <=> a \in SectsTold(out) \cup TextIn(acc.body)
    BY <1>3, <2>1, <2>2 DEF SectsTold, m
  <2>5. SectsTold(new) = SectsTold(out) \cup TextIn(acc.body)
    BY <2>3, <2>4 DEF SectsTold
  <2>6. \A j \in 1 .. m + 1 : Ascending(new[j].body)
    BY <1>3, <2>1, <2>2 DEF CutText, InSequence, m
  <2>7. ASSUME NEW i \in 1 .. m + 1, NEW j \in 1 .. m + 1, i < j
        PROVE  Later(TextIn(new[i].body), TextIn(new[j].body))
    <3>1. i \in 1 .. m /\ new[i] = out[i]
      BY <1>1, <2>1, <2>7 DEF m
    <3>2. CASE j = m + 1
      BY <1>3, <2>1, <2>3, <3>1, <3>2 DEF CutText, Later
    <3>3. CASE j # m + 1
      <4>1. j \in 1 .. m /\ new[j] = out[j]
        BY <1>1, <2>1, <3>3 DEF m
      <4> QED BY <2>7, <3>1, <4>1 DEF CutText, InSequence, m
    <3> QED BY <3>2, <3>3
  <2>8. InSequence(new)
    BY <2>1, <2>6, <2>7 DEF InSequence
  <2> QED BY <1>2, <2>5, <2>8, BlankText DEF CutText, Later, new
<1>5. CASE ~HasText(acc.body)
  <2>1. TextIn(acc.body) = {} /\ new = out
    BY <1>1, <1>2, <1>5, NoText
  <2> QED BY <1>2, <2>1, BlankText DEF CutText, Later, new
<1> QED BY <1>4, <1>5

LEMMA CutTextKeeps ==
    ASSUME NEW ls \in Seq(PlainLines), \A i \in 1 .. Len(ls) : ls[i].at = i,
           NEW n \in 0 .. Len(ls) - 1, NEW acc \in Cutting, CutText(ls, acc, n)
    PROVE  CutText(ls, Cut(acc, ls[n + 1]), n + 1)
<1> DEFINE k == n + 1
           l == ls[k]
<1>1. n \in Nat /\ k \in Nat /\ k \in 1 .. Len(ls) /\ 1 .. k = (1 .. n) \cup {k}
      /\ \A i \in 1 .. n : i < k
  OBVIOUS
<1>2. l \in PlainLines /\ l.at = k /\ l.size \in Nat /\ l.level \in Nat
  <2>1. l \in PlainLines /\ l.at = k
    BY <1>1
  <2> QED BY <2>1 DEF PlainLines, LinesOf
<1>3. acc.out \in Seq(Sects) /\ acc.path \in Seq(Nat) /\ acc.body \in Seq(PlainLines)
  BY DEF Cutting
<1> HIDE DEF k
<1>4. LinesUpTo(ls, k) = LinesUpTo(ls, n) \cup (IF l.size > 0 /\ l.level = 0 THEN {k} ELSE {})
  BY <1>1 DEF LinesUpTo
<1> HIDE DEF l
<1>5. CASE l.level = 0
  <2> DEFINE body == Append(acc.body, l)
             new == Cut(acc, l)
  <2>1. new.out = acc.out /\ new.body = body
    BY <1>3, <1>5 DEF Cut, Cutting
  <2>2. \A a \in LinesUpTo(ls, n) : a < k
    BY <1>1 DEF LinesUpTo
  <2>3. Later(TextIn(acc.body), {l.at}) /\ Later(SectsTold(acc.out), {l.at})
    BY <1>2, <2>2 DEF CutText, Later
  <2>4. TextIn(body) = TextIn(acc.body) \cup (IF l.size > 0 THEN {k} ELSE {}) /\ Ascending(body)
    BY <1>2, <1>3, <2>3, TextAppend DEF CutText
  <2>5. Later(SectsTold(acc.out), TextIn(body))
    BY <1>2, <2>3, <2>4 DEF CutText, Later
  <2> HIDE DEF body, new
  <2>6. SectsTold(acc.out) \cup TextIn(body) = LinesUpTo(ls, k)
    BY <1>4, <1>5, <2>4 DEF CutText
  <2>7. CutText(ls, new, k)
    BY <2>1, <2>4, <2>5, <2>6 DEF CutText
  <2> QED BY <2>7 DEF new, l, k
<1>6. CASE l.level # 0
  <2> DEFINE a == Flushed(acc)
             new == Cut(acc, l)
  <2>1. CutText(ls, a, n) /\ a \in Cutting
    BY FlushedText, FlushedType
  <2> HIDE DEF a
  <2>2. new = [a EXCEPT !.path = PathWith(@, l)]
    BY <1>6 DEF Cut, a
  <2>3. new.out = a.out /\ new.body = a.body
    BY <2>1, <2>2 DEF Cutting
  <2>4. LinesUpTo(ls, k) = LinesUpTo(ls, n)
    BY <1>4, <1>6
  <2> HIDE DEF new
  <2>5. CutText(ls, new, k)
    BY <2>1, <2>3, <2>4 DEF CutText
  <2> QED BY <2>5 DEF new, l, k
<1> QED BY <1>5, <1>6

\* splitSections: every line below a heading or before the first is in one section.
LEMMA SectionsTell ==
    ASSUME NEW ls \in Seq(PlainLines), \A i \in 1 .. Len(ls) : ls[i].at = i
    PROVE  InSequence(Sections(ls)) /\ SectsTold(Sections(ls)) = BodyLines(ls)
<1> DEFINE m == Len(ls)
           f == CutUpTo(ls)
           T == {n \in 0 .. m : CutText(ls, f[n], n)}
<1>1. /\ f[0] = [out |-> <<>>, path |-> <<>>, body |-> <<>>]
      /\ \A n \in 1 .. m : f[n] = Cut(f[n - 1], ls[n])
      /\ \A n \in 0 .. m : f[n] \in Cutting
  BY CutUpToIs
<1>2. m \in Nat
  OBVIOUS
<1> HIDE DEF f
<1>3. \A n \in 0 .. m : n \in T
  <2>1. 0 \in T
    <3>1. LinesUpTo(ls, 0) = {}
      BY DEF LinesUpTo
    <3>2. f[0].out = <<>> /\ f[0].body = <<>>
      BY <1>1
    <3>3. CutText(ls, f[0], 0)
      BY <3>1, <3>2, BlankText DEF CutText, Later
    <3> QED BY <1>2, <3>3
  <2>2. ASSUME NEW n \in 0 .. m - 1, n \in T PROVE n + 1 \in T
    <3>1. n + 1 \in 1 .. m /\ (n + 1) - 1 = n /\ n \in 0 .. m /\ n + 1 \in 0 .. m
      BY <1>2
    <3>2. CutText(ls, Cut(f[n], ls[n + 1]), n + 1)
      BY <1>1, <2>2, <3>1, CutTextKeeps
    <3> QED BY <1>1, <3>1, <3>2
  <2> HIDE DEF T, m
  <2> QED BY <1>2, <2>1, <2>2, Induction
<1>4. m \in 0 .. m
  BY <1>2
<1>5. f[m] \in Cutting /\ CutText(ls, f[m], m)
  BY <1>1, <1>3, <1>4
<1>6. Sections(ls) = Flushed(f[m]).out
  BY DEF Sections, f
<1>7. LinesUpTo(ls, m) = BodyLines(ls)
  BY DEF LinesUpTo, BodyLines
<1> HIDE DEF m
<1> QED BY <1>5, <1>6, <1>7, FlushedText

\* The title and the properties come first.
LEMMA WithHeaderTells ==
    ASSUME FetchInv, NEW ls \in Seq(PlainLines), Ascending(ls), Later({0}, TextIn(ls))
    PROVE  /\ Ascending(WithHeader(ls))
           /\ TextIn(WithHeader(ls)) = TextIn(ls) \cup (IF header = 0 THEN {} ELSE {0})
<1>1. CASE header = 0
  BY <1>1 DEF WithHeader
<1>2. CASE header # 0
  <2> DEFINE title == <<HeaderLine, [HeaderLine EXCEPT !.size = 0]>>
             m == Len(ls)
             all == title \o ls
  <2>1. header \in Nat /\ header > 0
    BY <1>2, ContentAssumption DEF FetchInv, TypeOK
  <2>2. m \in Nat /\ \A n \in 1 .. m : ls[n] \in PlainLines
    OBVIOUS
  <2>3. WithHeader(ls) = all
    BY <1>2 DEF WithHeader
  <2>4. /\ Len(all) = m + 2
        /\ all[1].at = 0 /\ all[1].size = header /\ all[2].size = 0
        /\ \A n \in 1 .. m + 2 : n > 2 => all[n] = ls[n - 2]
        /\ \A n \in 1 .. m : all[n + 2] = ls[n]
    <3>1. Len(title) = 2 /\ title[1] = HeaderLine /\ title[2] = [HeaderLine EXCEPT !.size = 0]
      OBVIOUS
    <3>2. title \in Seq(PlainLines)
      BY <2>1 DEF PlainLines, LinesOf, HeaderLine
    <3> HIDE DEF title
    <3>3. /\ Len(all) = m + 2 /\ all[1] = title[1] /\ all[2] = title[2]
          /\ \A n \in 1 .. m + 2 : n > 2 => all[n] = ls[n - 2]
          /\ \A n \in 1 .. m : all[n + 2] = ls[n]
      <4> DEFINE c == Len(title)
      <4>1. /\ Len(all) = c + m
            /\ \A n \in 1 .. c : all[n] = title[n]
            /\ \A n \in 1 .. c + m : n > c => all[n] = ls[n - c]
            /\ \A n \in 1 .. m : all[n + c] = ls[n]
        BY <3>2
      <4> HIDE DEF all, m
      <4> QED BY <2>2, <3>1, <4>1
    <3> HIDE DEF all
    <3> QED BY <3>1, <3>3 DEF HeaderLine
  <2> HIDE DEF all, title
  <2>5. \A n \in 1 .. m + 2 : n = 1 \/ n = 2 \/ (n > 2 /\ n - 2 \in 1 .. m)
    BY <2>2
  <2>6. \A n \in 1 .. m : n + 2 \in 1 .. m + 2
    BY <2>2
  <2>7. ASSUME NEW i \in 1 .. m + 2, NEW j \in 1 .. m + 2, i < j, all[i].size > 0, all[j].size > 0
        PROVE  all[i].at < all[j].at
    <3>1. j > 2 /\ j - 2 \in 1 .. m /\ all[j] = ls[j - 2]
      BY <2>4, <2>5, <2>7
    <3>2. CASE i = 1
      <4> DEFINE y == j - 2
      <4>1. y \in 1 .. m /\ ls[y].size > 0 /\ all[j] = ls[y] /\ ls[y] \in PlainLines
        BY <2>2, <2>7, <3>1
      <4> HIDE DEF y
      <4>2. ls[y].at \in TextIn(ls)
        BY <4>1 DEF TextIn, TextOf, m, PlainLines, LinesOf
      <4> QED BY <2>4, <3>2, <4>1, <4>2 DEF Later
    <3>3. CASE i # 1
      <4> DEFINE x == i - 2
                 y == j - 2
      <4>1. i > 2
        BY <2>4, <2>5, <2>7, <3>3
      <4>2. x \in 1 .. m /\ all[i] = ls[x] /\ y \in 1 .. m /\ all[j] = ls[y] /\ x < y
        BY <2>4, <2>5, <2>7, <3>1, <4>1
      <4> HIDE DEF x, y
      <4> QED BY <2>7, <4>2 DEF Ascending, m
    <3> QED BY <3>2, <3>3
  <2>8. Ascending(all)
    BY <2>4, <2>7 DEF Ascending
  <2>9. TextIn(all) = TextIn(ls) \cup {0}
    <3>1. TextIn(all) \subseteq Nat /\ TextIn(ls) \subseteq Nat
      BY DEF TextIn, TextOf
    <3>2. ASSUME NEW a \in TextIn(ls) PROVE a \in TextIn(all)
      <4>1. PICK n \in 1 .. m : ls[n].size > 0 /\ ls[n].at = a
        BY DEF TextIn, TextOf, m
      <4> DEFINE x == n + 2
      <4>2. x \in 1 .. m + 2 /\ all[x] = ls[n]
        BY <2>4, <2>6
      <4> HIDE DEF x
      <4> QED BY <2>4, <3>1, <4>1, <4>2 DEF TextIn, TextOf
    <3>3. 0 \in TextIn(all)
      BY <2>1, <2>2, <2>4 DEF TextIn, TextOf
    <3>4. ASSUME NEW a \in TextIn(all), a # 0 PROVE a \in TextIn(ls)
      <4>1. PICK n \in 1 .. m + 2 : all[n].size > 0 /\ all[n].at = a
        BY <2>4 DEF TextIn, TextOf
      <4> DEFINE x == n - 2
      <4>2. x \in 1 .. m /\ all[n] = ls[x]
        BY <2>4, <2>5, <3>4, <4>1
      <4> HIDE DEF x
      <4> QED BY <3>1, <4>1, <4>2 DEF TextIn, TextOf, m
    <3> QED BY <3>2, <3>3, <3>4
  <2> QED BY <1>2, <2>3, <2>8, <2>9
<1> QED BY <1>1, <1>2

LEMMA OnlyHeaderTells ==
    ASSUME FetchInv
    PROVE  Tells(OnlyHeader) /\ (header # 0 => 0 \in LinesTold(AllParts(OnlyHeader)))
<1>1. CASE header = 0
  BY <1>1, NothingTold DEF OnlyHeader
<1>2. CASE header # 0
  <2> DEFINE p == [lines |-> <<0>>, size |-> header]
             c == [heading |-> <<>>, size |-> header, parts |-> <<Whole(p)>>]
  <2>1. header \in Nat
    BY ContentAssumption DEF FetchInv, TypeOK
  <2>2. p \in Paras(Nat) /\ p.lines = <<0>>
    BY <2>1 DEF Paras
  <2>3. OnlyHeader = <<c>>
    BY <1>2 DEF OnlyHeader
  <2>4. Gathered(<<>>) /\ <<>> \in Seq(Parts(Nat)) /\ LinesTold(ToSet(<<>>)) = {}
    <3>1. <<>> \in Seq(Parts(Nat))
      OBVIOUS
    <3>2. ToSet(<<>>) = {} /\ LinesTold({}) = {} /\ Gathered(<<>>)
      BY NothingTold
    <3> QED BY <3>1, <3>2
  <2>5. c.parts = Append(<<>>, Whole(p))
    OBVIOUS
  <2> HIDE DEF p, c
  <2>6. c.parts \in Seq(Parts(Nat)) /\ Gathered(c.parts) /\ LinesTold(ToSet(c.parts)) = ToSet(p.lines)
    BY <2>2, <2>4, <2>5, GatherMore DEF Later
  <2>7. Tells(<<c>>) /\ AllParts(<<c>>) = ToSet(c.parts)
    BY <2>6, GatheredTells DEF Tells
  <2>8. 0 \in ToSet(p.lines)
    BY <2>2 DEF ToSet
  <2> QED BY <2>3, <2>6, <2>7, <2>8
<1> QED BY <1>1, <1>2

\* The text of the first n sections, the title before it.
TextUpTo(sections, n) ==
    {a \in Nat : \E i \in 1 .. n :
       a \in TextIn(IF i = 1 THEN WithHeader(sections[i].body) ELSE sections[i].body)}

\* The text given to ChunksOf, section by section.
LEMMA BodiesTell ==
    ASSUME FetchInv, NEW sections \in Seq(Sects), InSequence(sections), 0 \notin SectsTold(sections),
           NEW n \in 1 .. Len(sections),
           NEW body, body = IF n = 1 THEN WithHeader(sections[n].body) ELSE sections[n].body
    PROVE  /\ body \in Seq(PlainLines) /\ Ascending(body)
           /\ TextIn(body) = TextIn(sections[n].body) \cup (IF n = 1 /\ header # 0 THEN {0} ELSE {})
           /\ TextIn(sections[n].body) \subseteq SectsTold(sections)
<1> DEFINE s == sections[n]
<1>1. s \in Sects
  OBVIOUS
<1>2. s.body \in Seq(PlainLines) /\ Ascending(s.body)
  BY <1>1 DEF Sects, InSequence
<1>3. TextIn(s.body) \subseteq SectsTold(sections) /\ TextIn(s.body) \subseteq Nat
  BY DEF SectsTold, TextIn, TextOf
<1>4. Later({0}, TextIn(s.body))
  BY <1>3 DEF Later
<1> HIDE DEF s
<1>5. WithHeader(s.body) \in Seq(PlainLines)
  BY <1>2, WithHeaderType DEF PlainLines
<1>6. /\ Ascending(WithHeader(s.body))
      /\ TextIn(WithHeader(s.body)) = TextIn(s.body) \cup (IF header = 0 THEN {} ELSE {0})
  BY <1>2, <1>4, WithHeaderTells
<1>7. CASE n = 1
  BY <1>3, <1>5, <1>6, <1>7 DEF s
<1>8. CASE n # 1
  BY <1>2, <1>3, <1>8 DEF s
<1> QED BY <1>7, <1>8

LEMMA BodiesFollow ==
    ASSUME FetchInv, NEW sections \in Seq(Sects), InSequence(sections), 0 \notin SectsTold(sections),
           NEW n \in 1 .. Len(sections),
           NEW body, body = IF n = 1 THEN WithHeader(sections[n].body) ELSE sections[n].body
    PROVE  /\ Later(TextUpTo(sections, n - 1), TextIn(body))
           /\ TextUpTo(sections, n) = TextUpTo(sections, n - 1) \cup TextIn(body)
<1> DEFINE b(i) == IF i = 1 THEN WithHeader(sections[i].body) ELSE sections[i].body
           m == n - 1
<1>1. n \in Nat /\ m \in Nat /\ 1 .. n = (1 .. m) \cup {n}
      /\ \A i \in 1 .. m : i \in 1 .. Len(sections) /\ i < n
  OBVIOUS
<1>2. \A i \in 1 .. Len(sections) :
         /\ TextIn(b(i)) = TextIn(sections[i].body) \cup (IF i = 1 /\ header # 0 THEN {0} ELSE {})
         /\ TextIn(sections[i].body) \subseteq SectsTold(sections)
  BY BodiesTell
<1>3. TextIn(body) \subseteq Nat /\ body = b(n)
  BY DEF TextIn, TextOf
<1>4. \A k : TextUpTo(sections, k) = {a \in Nat : \E i \in 1 .. k : a \in TextIn(b(i))}
  BY DEF TextUpTo
<1> HIDE DEF b, m
<1>5. TextUpTo(sections, n) = TextUpTo(sections, m) \cup TextIn(body)
  BY <1>1, <1>3, <1>4
<1>6. ASSUME NEW i \in 1 .. m PROVE Later(TextIn(b(i)), TextIn(body))
  <2>1. i \in 1 .. Len(sections) /\ i < n /\ n # 1
    BY <1>1
  <2>2. Later(TextIn(sections[i].body), TextIn(sections[n].body))
    BY <2>1 DEF InSequence
  <2>3. TextIn(body) = TextIn(sections[n].body) /\ TextIn(body) \subseteq SectsTold(sections)
    BY <1>2, <1>3, <2>1
  <2>4. Later({0}, TextIn(body))
    BY <1>3, <2>3 DEF Later
  <2> QED BY <1>2, <2>1, <2>2, <2>3, <2>4 DEF Later
<1>7. Later(TextUpTo(sections, m), TextIn(body))
  BY <1>4, <1>6 DEF Later
<1> QED BY <1>5, <1>7 DEF m

\* BuildChunks, of the lines there are when the fetch is done.
LEMMA ChunksTell ==
    ASSUME FetchInv
    PROVE  /\ Tells(Chunks)
           /\ BodyLines(Lines) \cup (IF header = 0 THEN {} ELSE {0}) \subseteq LinesTold(AllParts(Chunks))
<1> DEFINE ls == Lines
           sections == Sections(ls)
           m == Len(sections)
           body(n) == IF n = 1 THEN WithHeader(sections[n].body) ELSE sections[n].body
           ss == [n \in DOMAIN sections |->
                    ChunksOf(sections[n], IF n = 1 THEN WithHeader(sections[n].body)
                                          ELSE sections[n].body)]
           all == FlattenSeq(ss)
           S == FitChunks(Seq(Nat), Nat)
           told(C) == LinesTold(AllParts(C))
           title == IF header = 0 THEN {} ELSE {0}
<1>1. Chunks = IF all = <<>> THEN OnlyHeader ELSE all
  BY DEF Chunks
<1>2. ls \in Seq(PlainLines) /\ \A i \in 1 .. Len(ls) : ls[i].at = i
  BY LinesType
<1>3. 0 \notin BodyLines(ls) /\ BodyLines(ls) \subseteq Nat
  <2> HIDE DEF ls
  <2> QED BY <1>2 DEF BodyLines
<1> HIDE DEF ls
<1>4. sections \in Seq(Sects) /\ InSequence(sections) /\ SectsTold(sections) = BodyLines(ls)
  BY <1>2, SectionsType, SectionsTell
<1> HIDE DEF sections
<1>5. m \in Nat /\ DOMAIN sections = 1 .. m
  BY <1>4
<1>6. 0 \notin SectsTold(sections)
  BY <1>3, <1>4
<1>7. \A n \in 1 .. m :
         /\ body(n) \in Seq(PlainLines) /\ Ascending(body(n))
         /\ TextIn(body(n)) = TextIn(sections[n].body) \cup (IF n = 1 /\ header # 0 THEN {0} ELSE {})
         /\ Later(TextUpTo(sections, n - 1), TextIn(body(n)))
         /\ TextUpTo(sections, n) = TextUpTo(sections, n - 1) \cup TextIn(body(n))
  BY <1>4, <1>6, BodiesTell, BodiesFollow
<1>8. \A n \in 1 .. m : ss[n] = ChunksOf(sections[n], body(n))
  BY <1>5
<1> HIDE DEF body, ss, m
<1>9. ASSUME NEW n \in 1 .. m
      PROVE  ss[n] \in Seq(S) /\ Tells(ss[n]) /\ told(ss[n]) = TextIn(body(n))
  <2>1. ss[n] = ChunksOf(sections[n], body(n)) /\ body(n) \in Seq(PlainLines) /\ Ascending(body(n))
    BY <1>7, <1>8
  <2> DEFINE H == {sections[n].heading}
  <2>2. H \subseteq Seq(Nat)
    <3>1. sections[n] \in Sects
      BY <1>4 DEF m
    <3> QED BY <3>1 DEF Sects
  <2>3. ss[n] \in Seq(FitChunks(H, Nat))
    BY <2>1, ChunksOfType DEF PlainLines
  <2> HIDE DEF H
  <2>4. FitChunks(H, Nat) \subseteq S
    BY <2>2 DEF FitChunks
  <2>5. ss[n] \in Seq(S)
    BY <2>3, <2>4, SeqInto
  <2> QED BY <2>1, <2>5, ChunksOfTell DEF TextIn
<1>10. ss \in Seq(Seq(S)) /\ Len(ss) = m
  <2>1. ss = [n \in 1 .. m |-> ss[n]]
    BY <1>5 DEF ss, m
  <2>2. ss \in [1 .. m -> Seq(S)]
    BY <1>9, <2>1
  <2> HIDE DEF S
  <2> QED BY <1>5, <2>2 DEF m
<1>11. PICK f \in [0 .. m -> Seq(S)] :
          /\ f[0] = <<>> /\ \A n \in 1 .. m : f[n] = f[n - 1] \o ss[n]
          /\ FlattenSeq(ss) = f[m]
  <2> HIDE DEF S
  <2> QED BY <1>10, FlattenUpTo
<1>12. \A c \in S : c.parts \in Seq(Parts(Nat))
  BY DEF FitChunks
<1> DEFINE T == {n \in 0 .. m : Tells(f[n]) /\ told(f[n]) = TextUpTo(sections, n)}
<1> HIDE DEF S
<1>13. \A n \in 0 .. m : n \in T
  <2>1. 0 \in T
    <3>1. TextUpTo(sections, 0) = {}
      BY DEF TextUpTo
    <3>2. 0 \in 0 .. m
      BY <1>5 DEF m
    <3>3. Tells(f[0]) /\ LinesTold(AllParts(f[0])) = {}
      BY <1>11, NothingTold
    <3> QED BY <3>1, <3>2, <3>3
  <2>2. ASSUME NEW n \in 0 .. m - 1, n \in T PROVE n + 1 \in T
    <3> DEFINE k == n + 1
    <3>1. k \in 1 .. m /\ k - 1 = n /\ n \in 0 .. m /\ k \in 0 .. m
      BY <1>5 DEF m
    <3> HIDE DEF k
    <3>2. f[n] \in Seq(S) /\ ss[k] \in Seq(S) /\ f[k] = f[n] \o ss[k]
      BY <1>9, <1>11, <3>1
    <3>3. Tells(f[n]) /\ told(f[n]) = TextUpTo(sections, n)
      BY <2>2
    <3>4. Tells(ss[k]) /\ told(ss[k]) = TextIn(body(k))
      BY <1>9, <3>1
    <3>5. Later(TextUpTo(sections, n), TextIn(body(k)))
          /\ TextUpTo(sections, k) = TextUpTo(sections, n) \cup TextIn(body(k))
      BY <1>7, <3>1
    <3>6. Tells(f[k]) /\ told(f[k]) = TextUpTo(sections, k)
      BY <1>12, <3>2, <3>3, <3>4, <3>5, TellsMore
    <3>7. k \in T
      BY <3>1, <3>6
    <3> QED BY <3>7 DEF k
  <2> HIDE DEF T
  <2> QED BY <1>5, <2>1, <2>2, Induction DEF m
<1>14. Tells(all) /\ told(all) = TextUpTo(sections, m) /\ all = f[m]
  <2>1. m \in 0 .. m
    BY <1>5 DEF m
  <2> QED BY <1>11, <1>13, <2>1
<1>15. BodyLines(ls) \subseteq TextUpTo(sections, m)
  <2> SUFFICES ASSUME NEW a \in BodyLines(ls) PROVE a \in TextUpTo(sections, m)
    OBVIOUS
  <2>1. PICK i \in 1 .. m : a \in TextIn(sections[i].body)
    BY <1>4 DEF SectsTold, m
  <2>2. a \in TextIn(body(i))
    BY <1>7, <2>1
  <2> QED BY <1>3, <2>2 DEF TextUpTo, body
<1> HIDE DEF all
<1>16. CASE all = <<>>
  <2>1. BodyLines(ls) = {}
    BY <1>14, <1>15, <1>16, NothingTold
  <2> QED BY <1>1, <1>16, <2>1, OnlyHeaderTells DEF ls
<1>17. CASE all # <<>>
  <2>1. m # 0
    BY <1>11, <1>14, <1>17
  <2>2. 1 \in 1 .. m
    BY <1>5, <2>1 DEF m
  <2>3. title \subseteq TextIn(body(1))
    BY <1>7, <2>2
  <2>4. title \subseteq TextUpTo(sections, m)
    BY <2>2, <2>3 DEF TextUpTo, body
  <2> QED BY <1>1, <1>14, <1>15, <1>17, <2>4 DEF ls
<1> QED BY <1>16, <1>17

(***************************************************************************)
(* Every line of the body that is no heading, and the title and properties *)
(* before it, are in the chunks: each paragraph whole, or cut into pieces  *)
(* that together are all of it, and in the order of the page, so that      *)
(* nothing is told twice.                                                  *)
(***************************************************************************)
THEOREM TextStaysWhole == Spec => []TextIsChunkedOnce
<1>1. FetchInv => TextIsChunkedOnce
  <2> SUFFICES ASSUME FetchInv PROVE TextIsChunkedOnce
    OBVIOUS
  <2> DEFINE X == BodyLines(Lines) \cup (IF header = 0 THEN {} ELSE {0})
  <2>1. InOrder(Chunks) /\ Complete(AllParts(Chunks)) /\ X \subseteq LinesTold(AllParts(Chunks))
    BY ChunksTell DEF Tells
  <2> HIDE DEF X
  <2>2. WithoutGaps(Chunks) /\ Covers(Chunks, X)
    BY <2>1, CompleteIs, ToldIs
  <2> QED BY <2>1, <2>2 DEF TextIsChunkedOnce, X
<1> QED BY <1>1, FetchInvariant, PTL
=============================================================================

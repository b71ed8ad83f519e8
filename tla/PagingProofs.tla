---------------------------- MODULE PagingProofs ----------------------------
(***************************************************************************)
(* A result is read once, whole and in order through either interface, for *)
(* every result: any number of pages with any number of rows each.         *)
(* PagingSpec, with any number of tasks, keeps RowsOnceInOrder and         *)
(* PagesOnce: the inductive invariant says of each of the three ways to    *)
(* read what it has given, what it holds and what is on its way, and that  *)
(* these together are the result. SetSpec keeps ResultSetRows.             *)
(***************************************************************************)
EXTENDS PagedResults, WellFoundedInduction, TLAPS

\* A set of naturals has a least element: induction, one set at a time.
LEMMA Least ==
  ASSUME NEW T, T \subseteq Nat, T # {}
  PROVE  \E n \in T : \A m \in T : ~(m < n)
<1>1. PICK n \in T : \A m \in T : ~(<<m, n>> \in OpToRel(<, Nat))
  BY NatLessThanWellFounded, WFMin, Zenon
<1>2. \A m \in T : m < n => <<m, n>> \in OpToRel(<, Nat)
  BY DEF OpToRel
<1> QED
  BY <1>1, <1>2

\* The function by which Concat computes, up to n.
IsConcat(g, s, n) == g = [i \in 0..n |-> IF i = 0 THEN <<>> ELSE g[i - 1] \o s[i]]

\* It exists for every length: by Least.
LEMMA ConcatExists ==
  ASSUME NEW s, NEW k \in Nat
  PROVE  \E g : IsConcat(g, s, k)
<1> DEFINE T == {n \in Nat : ~ \E g : IsConcat(g, s, n)}
<1> SUFFICES ASSUME T # {} PROVE FALSE
  OBVIOUS
<1> HIDE DEF T
<1>1. PICK n \in T : \A m \in T : ~(m < n)
  <2>1. T \subseteq Nat
    BY DEF T
  <2> QED
    BY <2>1, Least, Zenon
<1>2. n \in Nat
  BY DEF T
<1>3. CASE n = 0
  <2> DEFINE g == [i \in 0..0 |-> <<>>]
  <2>1. IsConcat(g, s, 0)
    BY DEF IsConcat
  <2> QED
    BY <1>3, <2>1 DEF T
<1>4. CASE n # 0
  <2>1. n - 1 \in Nat /\ n - 1 < n
    BY <1>2, <1>4
  <2>2. PICK g : IsConcat(g, s, n - 1)
    BY <1>1, <2>1 DEF T
  <2> DEFINE h == [i \in 0..n |-> IF i = n THEN g[n - 1] \o s[n] ELSE g[i]]
  <2>3. ASSUME NEW i \in 0..n
        PROVE  h[i] = IF i = 0 THEN <<>> ELSE h[i - 1] \o s[i]
    <3>1. \A j \in 0..(n - 1) : g[j] = IF j = 0 THEN <<>> ELSE g[j - 1] \o s[j]
      BY <2>2, <1>2, Zenon DEF IsConcat
    <3>2. CASE i = n
      BY <3>2, <1>2, <1>4
    <3>3. CASE i # n
      <4>1. i \in 0..(n - 1) /\ (i # 0 => i - 1 \in 0..n /\ i - 1 # n)
        BY <3>3, <1>2
      <4>2. h[i] = g[i] /\ (i # 0 => h[i - 1] = g[i - 1])
        BY <3>3, <4>1, Zenon
      <4> QED
        BY <3>1, <4>1, <4>2, Zenon
    <3> QED
      BY <3>2, <3>3
  <2>4. IsConcat(h, s, n)
    <3>1. h = [i \in 0..n |-> h[i]]
      OBVIOUS
    <3> HIDE DEF h
    <3> QED
      BY <2>3, <3>1, Zenon DEF IsConcat
  <2> QED
    BY <2>4 DEF T
<1> QED
  BY <1>3, <1>4

\* s begins t: the two computations begin alike.
Begin(g, s, n, h, t, m) ==
  /\ n \in Nat /\ m \in Nat /\ n <= m
  /\ IsConcat(g, s, n) /\ IsConcat(h, t, m)
  /\ \A i \in 1..n : s[i] = t[i]

Alike(g, h, n) == \A i \in 0..n : g[i] = h[i]

\* Two such functions on sequences that begin alike begin alike: by Least.
LEMMA ConcatUnique ==
  ASSUME NEW s, NEW t, NEW n, NEW m, NEW g, NEW h, Begin(g, s, n, h, t, m)
  PROVE  Alike(g, h, n)
<1> USE DEF Begin, Alike
<1> DEFINE T == {i \in 0..n : g[i] # h[i]}
<1> SUFFICES ASSUME T # {} PROVE FALSE
  OBVIOUS
<1> HIDE DEF T
<1>1. T \subseteq Nat
  BY DEF T
<1>2. PICK i \in T : \A j \in T : ~(j < i)
  BY <1>1, Least, Zenon
<1>3. i \in 0..n /\ i \in 0..m /\ i \in Nat /\ g[i] # h[i] /\ (i # 0 => s[i] = t[i])
  BY DEF T
<1>4. g[i] = IF i = 0 THEN <<>> ELSE g[i - 1] \o s[i]
  BY <1>3, Zenon DEF IsConcat
<1>5. h[i] = IF i = 0 THEN <<>> ELSE h[i - 1] \o t[i]
  BY <1>3, Zenon DEF IsConcat
<1>6. CASE i # 0
  <2>1. i - 1 \in 0..n /\ i - 1 < i
    BY <1>3, <1>6
  <2>2. g[i - 1] = h[i - 1]
    BY <1>2, <2>1 DEF T
  <2> QED
    BY <1>3, <1>4, <1>5, <1>6, <2>2, Zenon
<1> QED
  BY <1>3, <1>4, <1>5, <1>6, Zenon

\* What Concat computes.
LEMMA ConcatIs ==
  ASSUME NEW s, Len(s) \in Nat
  PROVE  \E g : IsConcat(g, s, Len(s)) /\ Concat(s) = g[Len(s)]
<1> DEFINE g == CHOOSE f : IsConcat(f, s, Len(s))
<1>1. IsConcat(g, s, Len(s))
  BY ConcatExists, Zenon
<1>2. Concat(s) = g[Len(s)]
  BY DEF Concat, IsConcat
<1> QED
  BY <1>1, <1>2, Zenon

\* Concat of no sequence.
LEMMA ConcatNone == Concat(<<>>) = <<>>
<1> DEFINE e == <<>>
<1>1. Len(e) = 0
  OBVIOUS
<1>2. PICK g : IsConcat(g, e, 0) /\ Concat(e) = g[0]
  BY <1>1, ConcatIs
<1>3. g[0] = <<>>
  BY <1>2 DEF IsConcat
<1> QED
  BY <1>2, <1>3

\* Concat of one more sequence.
LEMMA ConcatMore ==
  ASSUME NEW S, NEW s \in Seq(Seq(S)), NEW x \in Seq(S)
  PROVE  Concat(Append(s, x)) = Concat(s) \o x
<1> DEFINE a == Append(s, x)
<1>1. /\ Len(s) \in Nat /\ Len(a) = Len(s) + 1 /\ a[Len(s) + 1] = x
      /\ \A i \in 1..Len(s) : s[i] = a[i]
  OBVIOUS
<1> HIDE DEF a
<1>2. PICK h : IsConcat(h, a, Len(s) + 1) /\ Concat(a) = h[Len(s) + 1]
  BY <1>1, ConcatIs
<1>3. h[Len(s) + 1] = h[Len(s)] \o x
  <2>1. Len(s) + 1 \in 0..(Len(s) + 1) /\ Len(s) + 1 - 1 = Len(s) /\ Len(s) + 1 # 0
    BY <1>1
  <2>2. \A i \in 0..(Len(s) + 1) : h[i] = IF i = 0 THEN <<>> ELSE h[i - 1] \o a[i]
    BY <1>2, Zenon DEF IsConcat
  <2> DEFINE k == Len(s) + 1
  <2>3. k \in 0..k /\ k # 0 /\ h[k] = IF k = 0 THEN <<>> ELSE h[k - 1] \o a[k]
    BY <2>1, <2>2, Zenon
  <2>4. h[k] = h[k - 1] \o a[k]
    BY <2>3, Zenon
  <2>5. k - 1 = Len(s)
    BY <1>1
  <2>6. a[k] = x
    BY <1>1, Zenon
  <2> QED
    BY <2>4, <2>5, <2>6, Zenon
<1>4. PICK g : IsConcat(g, s, Len(s)) /\ Concat(s) = g[Len(s)]
  BY <1>1, ConcatIs, Zenon
<1>5. g[Len(s)] = h[Len(s)]
  <2>1. Len(s) <= Len(s) + 1 /\ Len(s) + 1 \in Nat /\ Len(s) \in 0..Len(s)
    BY <1>1
  <2>2. Begin(g, s, Len(s), h, a, Len(s) + 1)
    BY <1>1, <1>2, <1>4, <2>1, Zenon DEF Begin
  <2>3. Alike(g, h, Len(s))
    BY <2>2, ConcatUnique, Zenon
  <2> QED
    BY <2>1, <2>3, Zenon DEF Alike
<1> QED
  BY <1>2, <1>3, <1>4, <1>5, Zenon DEF a

\* Concat of sequences over S is a sequence over S: by Least.
LEMMA ConcatType ==
  ASSUME NEW S, NEW s \in Seq(Seq(S))
  PROVE  Concat(s) \in Seq(S)
<1>1. Len(s) \in Nat /\ (\A i \in 1..Len(s) : s[i] \in Seq(S)) /\ <<>> \in Seq(S)
  OBVIOUS
<1>2. PICK g : IsConcat(g, s, Len(s)) /\ Concat(s) = g[Len(s)]
  BY <1>1, ConcatIs, Zenon
<1> DEFINE T == {i \in 0..Len(s) : g[i] \notin Seq(S)}
<1> SUFFICES ASSUME T # {} PROVE FALSE
  BY <1>1, <1>2
<1> HIDE DEF T
<1>3. T \subseteq Nat
  BY <1>1 DEF T
<1>4. PICK i \in T : \A j \in T : ~(j < i)
  BY <1>3, Least, Zenon
<1>5. i \in 0..Len(s) /\ i \in Nat /\ g[i] \notin Seq(S) /\ (i # 0 => s[i] \in Seq(S))
  BY <1>1, <1>3 DEF T
<1>6. g[i] = IF i = 0 THEN <<>> ELSE g[i - 1] \o s[i]
  BY <1>2, <1>5, Zenon DEF IsConcat
<1>7. i # 0
  BY <1>1, <1>5, <1>6, Zenon
<1>8. i - 1 \in 0..Len(s) /\ i - 1 < i
  BY <1>1, <1>5, <1>7
<1>9. g[i - 1] \in Seq(S)
  BY <1>4, <1>8 DEF T
<1> QED
  BY <1>5, <1>6, <1>7, <1>9

\* Facts about sequences the provers do not find by themselves.
LEMMA Associates ==
  ASSUME NEW S, NEW s \in Seq(S), NEW t \in Seq(S), NEW u \in Seq(S)
  PROVE  (s \o t) \o u = s \o (t \o u)
OBVIOUS

\* Concatenation with nothing.
LEMMA NoMore ==
  ASSUME NEW S, NEW s \in Seq(S)
  PROVE  s \o <<>> = s /\ <<>> \o s = s
OBVIOUS

\* Prefixes of a sequence.
LEMMA SubAll ==
  ASSUME NEW S, NEW s \in Seq(S), NEW k \in 0..Len(s)
  PROVE  /\ SubSeq(s, 1, Len(s)) = s /\ SubSeq(s, 1, k) \in Seq(S) /\ SubSeq(s, 1, 0) = <<>>
         /\ k < Len(s) => SubSeq(s, 1, k + 1) = Append(SubSeq(s, 1, k), s[k + 1])
OBVIOUS

-----------------------------------------------------------------------------

\* The rows of the first k pages.
Flat(k) == Concat(SubSeq(PageRows, 1, k))

\* The pages of the result, and their rows.
LEMMA PageFacts ==
  /\ Len(PageRows) \in Nat /\ Len(PageRows) >= 1 /\ Pages = 1..Len(PageRows)
  /\ \A p \in Pages : PageRows[p] \in Seq(Nat)
BY PagesAssumption DEF Pages

\* The rows of the first pages grow by one page at a time, up to all rows.
LEMMA FlatFacts ==
  /\ Flat(0) = <<>> /\ Flat(Len(PageRows)) = AllRows
  /\ \A k \in 0..Len(PageRows) : Flat(k) \in Seq(Nat)
  /\ \A p \in Pages : Flat(p) = Flat(p - 1) \o PageRows[p]
<1>1. PageRows \in Seq(Seq(Nat)) /\ Len(PageRows) \in Nat
  BY PagesAssumption
<1>2. Flat(0) = <<>>
  <2>1. SubSeq(PageRows, 1, 0) = <<>>
    BY <1>1
  <2> QED
    BY <2>1, ConcatNone, Zenon DEF Flat
<1>3. Flat(Len(PageRows)) = AllRows
  <2>1. SubSeq(PageRows, 1, Len(PageRows)) = PageRows
    BY <1>1, SubAll
  <2> QED
    BY <2>1, Zenon DEF Flat, AllRows
<1>4. ASSUME NEW k \in 0..Len(PageRows) PROVE Flat(k) \in Seq(Nat)
  <2>1. SubSeq(PageRows, 1, k) \in Seq(Seq(Nat))
    BY <1>1, SubAll
  <2> QED
    BY <2>1, ConcatType, Zenon DEF Flat
<1>5. ASSUME NEW p \in Pages PROVE Flat(p) = Flat(p - 1) \o PageRows[p]
  <2>1. p - 1 \in 0..Len(PageRows) /\ p - 1 < Len(PageRows) /\ (p - 1) + 1 = p
    BY <1>1, PageFacts
  <2>2. /\ SubSeq(PageRows, 1, p - 1) \in Seq(Seq(Nat)) /\ PageRows[p] \in Seq(Nat)
        /\ SubSeq(PageRows, 1, p) = Append(SubSeq(PageRows, 1, p - 1), PageRows[p])
    BY <1>1, <2>1, PageFacts, SubAll
  <2> QED
    BY <2>2, ConcatMore, Zenon DEF Flat
<1> QED
  BY <1>2, <1>3, <1>4, <1>5, Zenon

\* t goes on from s.
GoesOn(s, t) == \E u \in Seq(Nat) : t = s \o u

\* What a sequence goes on from is a prefix of it, with the same head.
LEMMA GoesOnFacts ==
  ASSUME NEW s \in Seq(Nat), NEW t \in Seq(Nat), GoesOn(s, t)
  PROVE  /\ Len(s) <= Len(t) /\ s = SubSeq(t, 1, Len(s))
         /\ (s # <<>> => t # <<>> /\ Head(t) = Head(s))
BY DEF GoesOn

\* The row handed out moves from the rows left to the rows given.
LEMMA HeadMoves ==
  ASSUME NEW s \in Seq(Nat), NEW t \in Seq(Nat), t # <<>>
  PROVE  Append(s, Head(t)) \o Tail(t) = s \o t
OBVIOUS

\* What goes on from more goes on from less.
LEMMA GoesOnBack ==
  ASSUME NEW s \in Seq(Nat), NEW t \in Seq(Nat), NEW w, GoesOn(s \o t, w)
  PROVE  GoesOn(s, w)
<1>1. PICK u \in Seq(Nat) : w = (s \o t) \o u
  BY Zenon DEF GoesOn
<1>2. (s \o t) \o u = s \o (t \o u) /\ t \o u \in Seq(Nat)
  <2>1. u \in Seq(Nat)
    BY <1>1, Zenon
  <2>2. t \o u \in Seq(Nat)
    BY <2>1
  <2>3. (s \o t) \o u = s \o (t \o u)
    BY <2>1
  <2> QED
    BY <2>2, <2>3, Zenon
<1> QED
  BY <1>1, <1>2, Zenon DEF GoesOn

\* The rows of the first pages are the first rows of the result.
LEMMA FlatGoesOn ==
  ASSUME NEW k \in 0..Len(PageRows)
  PROVE  GoesOn(Flat(k), AllRows)
<1> DEFINE T == {d \in 0..Len(PageRows) : ~GoesOn(Flat(Len(PageRows) - d), AllRows)}
<1>0. Len(PageRows) \in Nat
  BY PageFacts
<1>1. ASSUME T # {} PROVE FALSE
  <2> HIDE DEF T
  <2>1. T \subseteq Nat
    BY <1>0 DEF T
  <2>2. PICK d \in T : \A e \in T : ~(e < d)
    BY <1>1, <2>1, Least, Zenon
  <2>3. d \in 0..Len(PageRows) /\ ~GoesOn(Flat(Len(PageRows) - d), AllRows)
    BY DEF T
  <2>4. CASE d = 0
    <3>1. Len(PageRows) - d = Len(PageRows) /\ Len(PageRows) \in 0..Len(PageRows)
      BY <1>0, <2>4
    <3>2. AllRows \in Seq(Nat) /\ Flat(Len(PageRows) - d) = AllRows
      BY <3>1, FlatFacts, Zenon
    <3>3. AllRows = AllRows \o <<>> /\ <<>> \in Seq(Nat)
      BY <3>2, NoMore
    <3> QED
      BY <2>3, <3>2, <3>3, Zenon DEF GoesOn
  <2>5. CASE d # 0
    <3> DEFINE p == Len(PageRows) - d + 1
    <3>1. /\ p \in Pages /\ d - 1 \in 0..Len(PageRows) /\ d - 1 < d
          /\ p - 1 = Len(PageRows) - d /\ p = Len(PageRows) - (d - 1)
          /\ p - 1 \in 0..Len(PageRows)
      BY <1>0, <2>3, <2>5, PageFacts
    <3> HIDE DEF p
    <3>2. GoesOn(Flat(p), AllRows)
      BY <2>2, <3>1, Zenon DEF T
    <3>3. Flat(p) = Flat(p - 1) \o PageRows[p] /\ Flat(p - 1) \in Seq(Nat) /\ PageRows[p] \in Seq(Nat)
      BY <3>1, FlatFacts, PageFacts, Zenon
    <3>4. GoesOn(Flat(p - 1) \o PageRows[p], AllRows)
      BY <3>2, <3>3, Zenon
    <3>5. GoesOn(Flat(p - 1), AllRows)
      BY <3>3, <3>4, GoesOnBack, Zenon
    <3> QED
      BY <2>3, <3>1, <3>5, Zenon
  <2> QED
    BY <2>4, <2>5, Zenon
<1>2. Len(PageRows) - k \in 0..Len(PageRows) /\ Len(PageRows) - (Len(PageRows) - k) = k
  BY <1>0
<1>3. Len(PageRows) - k \notin T
  BY <1>1, Zenon
<1> QED
  BY <1>2, <1>3, Zenon

Places == {"idle", "rows: lock", "rows: fetch", "pages: lock", "pages: fetch",
           "pages: resolve", "clone: fetch"}

\* What the iterator gave and the rows it has left are the rows of the pages before
\* its pager; once stopped it gave them all, and a failure leaves it nothing to read.
RowsState ==
  /\ rows \in [left : Seq(Nat), pager : Nat] /\ given \in Seq(Nat)
  /\ \/ /\ rowsEnd = "open" /\ rows.pager \in 2..(Len(PageRows) + 1)
        /\ Flat(rows.pager - 1) = given \o rows.left
     \/ /\ rowsEnd = "stopped" /\ given = AllRows
        /\ rows.left = <<>> /\ rows.pager = Len(PageRows) + 1
     \/ /\ rowsEnd = "failed" /\ GoesOn(given, AllRows)
        /\ rows.left = <<>> /\ rows.pager = 0

\* A fetch for the iterator holds its mutex, and finds the state as it left it.
RowsFetching ==
  \A t \in Tasks : at[t] = "rows: fetch" =>
    /\ rowsLock = t /\ rowsEnd = "open" /\ rows.left = <<>> /\ HasMorePages(rows.pager)

Clones == [wants : {"first", "all", "page"}, list : Seq(Nat), pager : Nat]

\* What a read on a clone has collected are the rows of the pages before its pager.
Collected(c) ==
  HasMorePages(c.pager) /\ (c.wants # "page" => c.list = Flat(c.pager - 1))

CloneState ==
  /\ clone \in [Tasks -> Clones]
  /\ \A t \in Tasks : at[t] = "clone: fetch" => Collected(clone[t])

\* What first_row and all return.
Answer(r) == r[2] = IF r[1] = "all" \/ AllRows = <<>> THEN AllRows ELSE <<Head(AllRows)>>
Answers == \A r \in results : Answer(r)

\* The page that task t fetched for the AsyncPagesIterator and has not handed out.
OnItsWay(t, p) == at[t] = "pages: resolve" /\ clone[t].pager = p
Handed(p) == \E i \in DOMAIN pagesGiven : pagesGiven[i] = p

\* Each page before the pager of an AsyncPagesIterator is in one place.
PagesState ==
  /\ pages \in [first : BOOLEAN, pager : 2..(Len(PageRows) + 1)]
  /\ pagesGiven \in Seq(Nat)
  /\ \A i, j \in DOMAIN pagesGiven : pagesGiven[i] = pagesGiven[j] => i = j
  /\ \A p \in Nat : Handed(p) => p \in 1..(pages.pager - 1) /\ p \notin lost
  /\ pages.first => ~Handed(1)
  /\ lost \subseteq 2..(pages.pager - 1)
  /\ \A t \in Tasks, p \in Nat : OnItsWay(t, p) =>
       /\ p \in 2..(pages.pager - 1) /\ p \notin lost /\ ~Handed(p)
       /\ \A u \in Tasks : OnItsWay(u, p) => u = t
  /\ \A p \in 1..(pages.pager - 1) :
       \/ p \in lost \/ Handed(p) \/ (p = 1 /\ pages.first)
       \/ \E t \in Tasks : OnItsWay(t, p)

PagesFetching ==
  \A t \in Tasks : at[t] = "pages: fetch" => pagesLock = t /\ HasMorePages(pages.pager)

PagingInv ==
  /\ at \in [Tasks -> Places]
  /\ RowsState /\ RowsFetching /\ CloneState /\ Answers /\ PagesState /\ PagesFetching

-----------------------------------------------------------------------------

\* A RequestResult that was just made satisfies the invariant.
LEMMA PagingStart == PagingInit => PagingInv
<1> SUFFICES ASSUME PagingInit PROVE PagingInv
  OBVIOUS
<1>1. PageRows[1] \in Seq(Nat) /\ 1 \in Pages /\ Len(PageRows) \in Nat /\ Len(PageRows) >= 1
  BY PageFacts
<1>2. at \in [Tasks -> Places] /\ \A t \in Tasks : at[t] = "idle"
  BY DEF PagingInit, Places
<1>3. RowsState
  <2>1. Flat(1) = Flat(0) \o PageRows[1]
    <3>1. 1 - 1 = 0
      OBVIOUS
    <3> QED
      BY <1>1, <3>1, FlatFacts, Zenon
  <2>2. Flat(1) = <<>> \o PageRows[1]
    BY <2>1, FlatFacts, Zenon
  <2>3. 2 - 1 = 1 /\ 2 \in 2..(Len(PageRows) + 1) /\ <<>> \in Seq(Nat)
    BY <1>1
  <2>4. rows \in [left : Seq(Nat), pager : Nat] /\ rows.left = PageRows[1] /\ rows.pager = 2
    BY <1>1 DEF PagingInit
  <2> QED
    BY <2>2, <2>3, <2>4, Zenon DEF PagingInit, RowsState
<1>4. RowsFetching /\ PagesFetching /\ Answers
  BY <1>2 DEF RowsFetching, PagesFetching, Answers, PagingInit
<1>5. CloneState
  BY <1>2 DEF CloneState, PagingInit, NoClone, Clones
<1>6. PagesState
  BY <1>1, <1>2 DEF PagesState, PagingInit, Handed, OnItsWay
<1> QED
  BY <1>2, <1>3, <1>4, <1>5, <1>6, Zenon DEF PagingInv

-----------------------------------------------------------------------------
(* The rows iterator. *)

\* Where the tasks are after one of them moved.
LEMMA Gone ==
  ASSUME NEW t \in Tasks, NEW q, at \in [Tasks -> Places], Goto(t, q)
  PROVE  at'[t] = q /\ \A u \in Tasks : u # t => at'[u] = at[u]
BY DEF Goto

\* The state of the rows iterator, as a record.
LEMMA RowsRecord ==
  ASSUME NEW l \in Seq(Nat), NEW p \in Nat, NEW r, r = [left |-> l, pager |-> p]
  PROVE  r \in [left : Seq(Nat), pager : Nat] /\ r.left = l /\ r.pager = p
OBVIOUS

\* Steps that leave the rows iterator alone keep its rows in order.
LEMMA RowsFrame ==
  ASSUME RowsState, UNCHANGED <<rows, given, rowsEnd>>
  PROVE  RowsState'
BY Zenon DEF RowsState

\* A row of the page is handed out, or the iteration ends with an error.
LEMMA NextRowKeeps ==
  ASSUME NEW left \in Seq(Nat), left # <<>>, NEW pager \in 2..(Len(PageRows) + 1),
         given \in Seq(Nat), rowsEnd = "open", Flat(pager - 1) = given \o left,
         NextRow(left, pager)
  PROVE  RowsState'
<1>1. pager - 1 \in 0..Len(PageRows) /\ pager \in Nat
  BY PageFacts
<1>2. CASE /\ given' = Append(given, Head(left))
           /\ rows' = [left |-> Tail(left), pager |-> pager]
           /\ UNCHANGED rowsEnd
  <2>1. Append(given, Head(left)) \in Seq(Nat) /\ Tail(left) \in Seq(Nat)
    OBVIOUS
  <2>2. Append(given, Head(left)) \o Tail(left) = given \o left
    BY HeadMoves, Zenon
  <2>3. rows' \in [left : Seq(Nat), pager : Nat] /\ rows'.left = Tail(left) /\ rows'.pager = pager
    BY <1>1, <1>2, <2>1
  <2> QED
    BY <1>2, <2>1, <2>2, <2>3, Zenon DEF RowsState
<1>3. CASE Finish /\ UNCHANGED given
  <2>1. /\ rows' \in [left : Seq(Nat), pager : Nat] /\ rows'.left = <<>> /\ rows'.pager = 0
        /\ rowsEnd' = "failed"
    BY <1>3 DEF Finish
  <2>2. GoesOn(given \o left, AllRows)
    BY <1>1, FlatGoesOn, Zenon
  <2>3. GoesOn(given, AllRows)
    BY <2>2, GoesOnBack, Zenon
  <2> QED
    BY <1>3, <2>1, <2>3, Zenon DEF RowsState
<1> QED
  BY <1>2, <1>3, Zenon DEF NextRow

\* The rows left and the pager of an iterator that is still open.
OpenAt(left, pager) ==
  /\ left \in Seq(Nat) /\ pager \in 2..(Len(PageRows) + 1) /\ given \in Seq(Nat)
  /\ rowsEnd = "open" /\ Flat(pager - 1) = given \o left

EndedAt(left, pager) ==
  RowsState /\ rowsEnd # "open" /\ left = rows.left /\ pager = rows.pager

\* Nobody but t is fetching for the iterator.
OnlyFetcher(t) == \A u \in Tasks : u # t => at[u] # "rows: fetch"

\* __anext__ of the rows iterator, from a page it holds or one it just fetched: it hands
\* out a row, asks for the next page, or stops.
LEMMA RowOrFetchKeeps ==
  ASSUME NEW t \in Tasks, NEW left, NEW pager, at \in [Tasks -> Places],
         OpenAt(left, pager) \/ EndedAt(left, pager),
         OnlyFetcher(t),
         RowOrFetch(t, left, pager)
  PROVE  RowsState' /\ RowsFetching'
<1>0. Len(PageRows) \in Nat /\ Pages = 1..Len(PageRows)
  BY PageFacts
<1>1. CASE left # <<>>
  <2>1. NextRow(left, pager) /\ rowsLock' = "none" /\ Goto(t, "idle")
    BY <1>1, Zenon DEF RowOrFetch
  <2>2. OpenAt(left, pager)
    BY <1>1, Zenon DEF EndedAt, RowsState
  <2>3. RowsState'
    BY <1>1, <2>1, <2>2, NextRowKeeps, Zenon DEF OpenAt
  <2>4. \A u \in Tasks : at'[u] # "rows: fetch"
    <3>1. at'[t] = "idle" /\ \A u \in Tasks : u # t => at'[u] = at[u]
      BY <2>1, Gone, Zenon
    <3> QED
      BY <3>1 DEF OnlyFetcher
  <2> QED
    BY <2>3, <2>4, Zenon DEF RowsFetching
<1>2. CASE left = <<>> /\ OpenAt(left, pager)
  <2>1. /\ rows' = [left |-> << >>, pager |-> pager] /\ given' = given
        /\ IF HasMorePages(pager)
             THEN rowsLock' = t /\ Goto(t, "rows: fetch") /\ UNCHANGED rowsEnd
             ELSE /\ rowsLock' = "none" /\ Goto(t, "idle")
                  /\ rowsEnd' = IF rowsEnd = "open" THEN "stopped" ELSE rowsEnd
    BY <1>2, Zenon DEF RowOrFetch
  <2>2. /\ pager \in 2..(Len(PageRows) + 1) /\ given \in Seq(Nat) /\ left \in Seq(Nat)
        /\ rowsEnd = "open" /\ Flat(pager - 1) = given \o left
    BY <1>2, Zenon DEF OpenAt
  <2>3. rows' \in [left : Seq(Nat), pager : Nat] /\ rows'.left = <<>> /\ rows'.pager = pager
    <3>1. pager \in 2..(Len(PageRows) + 1)
      BY <2>2, Zenon
    <3>2. pager \in Nat
      BY <1>0, <3>1
    <3>3. rows' = [left |-> <<>>, pager |-> pager] /\ <<>> \in Seq(Nat)
      BY <1>2, <2>1, <2>2, Zenon
    <3> QED
      BY <3>2, <3>3, RowsRecord, Zenon
  <2>4. CASE HasMorePages(pager)
    <3>1. rowsLock' = t /\ Goto(t, "rows: fetch") /\ rowsEnd' = "open"
      BY <2>1, <2>2, <2>4, Zenon
    <3>2. \A u \in Tasks : at'[u] = "rows: fetch" => u = t
      BY <3>1, Gone, Zenon DEF OnlyFetcher
    <3>3. RowsState'
      BY <1>2, <2>1, <2>2, <2>3, <3>1, Zenon DEF RowsState
    <3>4. RowsFetching'
      BY <2>3, <2>4, <3>1, <3>2, Zenon DEF RowsFetching, HasMorePages
    <3> QED
      BY <3>3, <3>4, Zenon
  <2>5. CASE ~HasMorePages(pager)
    <3>1. rowsLock' = "none" /\ Goto(t, "idle") /\ rowsEnd' = "stopped"
      BY <2>1, <2>2, <2>5, Zenon
    <3>2. pager = Len(PageRows) + 1 /\ pager - 1 = Len(PageRows)
      <4>1. pager \in 2..(Len(PageRows) + 1) /\ pager \notin 1..Len(PageRows)
        BY <1>0, <2>2, <2>5, Zenon DEF HasMorePages
      <4> QED
        BY <1>0, <4>1
    <3>3. given \o <<>> = given
      BY <2>2, NoMore, Zenon
    <3>4. given = AllRows
      BY <1>2, <2>2, <3>2, <3>3, FlatFacts, Zenon
    <3>5. RowsState'
      BY <2>1, <2>2, <2>3, <3>1, <3>2, <3>4, Zenon DEF RowsState
    <3>6. \A u \in Tasks : at'[u] # "rows: fetch"
      <4>1. at'[t] = "idle" /\ \A u \in Tasks : u # t => at'[u] = at[u]
        BY <3>1, Gone, Zenon
      <4> QED
        BY <4>1 DEF OnlyFetcher
    <3> QED
      BY <3>5, <3>6, Zenon DEF RowsFetching
  <2> QED
    BY <2>4, <2>5, Zenon
<1>3. CASE left = <<>> /\ ~OpenAt(left, pager)
  <2>1. /\ rows' = [left |-> << >>, pager |-> pager] /\ given' = given
        /\ IF HasMorePages(pager)
             THEN rowsLock' = t /\ Goto(t, "rows: fetch") /\ UNCHANGED rowsEnd
             ELSE /\ rowsLock' = "none" /\ Goto(t, "idle")
                  /\ rowsEnd' = IF rowsEnd = "open" THEN "stopped" ELSE rowsEnd
    BY <1>3, Zenon DEF RowOrFetch
  <2>2. RowsState /\ rowsEnd # "open" /\ left = rows.left /\ pager = rows.pager
    BY <1>3, Zenon DEF EndedAt
  <2>3. pager \notin Pages
    <3>1. pager = Len(PageRows) + 1 \/ pager = 0
      BY <2>2, Zenon DEF RowsState
    <3> QED
      BY <1>0, <3>1
  <2>4. rowsLock' = "none" /\ Goto(t, "idle") /\ rowsEnd' = rowsEnd
    BY <2>1, <2>2, <2>3, Zenon DEF HasMorePages
  <2>5. rows' = rows
    BY <1>3, <2>1, <2>2 DEF RowsState
  <2>6. RowsState'
    BY <2>1, <2>2, <2>4, <2>5, RowsFrame, Zenon
  <2>7. \A u \in Tasks : at'[u] # "rows: fetch"
    <3>1. at'[t] = "idle" /\ \A u \in Tasks : u # t => at'[u] = at[u]
      BY <2>4, Gone, Zenon
    <3> QED
      BY <3>1 DEF OnlyFetcher
  <2> QED
    BY <2>6, <2>7, Zenon DEF RowsFetching
<1> QED
  BY <1>1, <1>2, <1>3, Zenon

\* A task moves to one of these places, or stays.
MovesTo(t, S) == \E q \in S : Goto(t, q) \/ UNCHANGED at

\* A step that leaves the iterator alone moves one task, and not to a fetch.
LEMMA RowsElsewhere ==
  ASSUME NEW t \in Tasks, MovesTo(t, Places \ {"rows: fetch"}), at \in [Tasks -> Places],
         RowsState, RowsFetching, UNCHANGED rowsVars
  PROVE  RowsState' /\ RowsFetching'
<1>1. /\ rows' = rows /\ rowsLock' = rowsLock /\ given' = given /\ rowsEnd' = rowsEnd
  BY Zenon DEF rowsVars
<1>2. \A u \in Tasks : at'[u] = "rows: fetch" => at[u] = "rows: fetch"
  <2>1. PICK q \in Places \ {"rows: fetch"} : Goto(t, q) \/ UNCHANGED at
    BY Zenon DEF MovesTo
  <2>2. q # "rows: fetch"
    BY <2>1
  <2> QED
    BY <2>1, <2>2, Gone, Zenon
<1> QED
  BY <1>1, <1>2, RowsFrame, Zenon DEF RowsFetching, HasMorePages

\* Every step keeps the rows in order, and at most one task fetching them.
LEMMA RowsStep ==
  ASSUME PagingInv, [PagingNext]_pagingVars
  PROVE  RowsState' /\ RowsFetching'
<1>0. at \in [Tasks -> Places] /\ RowsState /\ RowsFetching
  BY Zenon DEF PagingInv
<1>1. CASE UNCHANGED pagingVars
  <2>1. UNCHANGED <<rows, given, rowsEnd>> /\ rowsLock' = rowsLock /\ at' = at
    BY <1>1, Zenon DEF pagingVars, rowsVars
  <2> QED
    BY <1>0, <2>1, RowsFrame, Zenon DEF RowsFetching, HasMorePages
<1>2. ASSUME NEW t \in Tasks,
             \/ PagesNext(t) \/ PagesLock(t) \/ PagesFetched(t) \/ PagesFetchFails(t)
             \/ ResolvePage(t) \/ \E wants \in {"first", "all"} : ReadRows(t, wants)
             \/ \E p \in Pages : FetchAfter(t, p)
             \/ CloneFetched(t) \/ CloneFails(t)
      PROVE  RowsState' /\ RowsFetching'
  <2>1. UNCHANGED rowsVars
    BY <1>2, Zenon DEF PagesNext, PagesLock, PagesFetched, PagesFetchFails, ResolvePage,
                       ReadRows, FetchAfter, CloneFetched, CloneFails
  <2>2. \E q \in Places \ {"rows: fetch"} : Goto(t, q) \/ UNCHANGED at
    <3>1. {"idle", "pages: lock", "pages: fetch", "pages: resolve", "clone: fetch"}
            \subseteq Places \ {"rows: fetch"}
      BY DEF Places
    <3> QED
      BY <1>2, <3>1, Zenon DEF PagesNext, PagesLock, PagesFetched, PagesFetchFails, ResolvePage,
                       ReadRows, FetchAfter, CloneFetched, CloneFails, CloneStep
  <2>3. MovesTo(t, Places \ {"rows: fetch"})
    BY <2>2, Zenon DEF MovesTo
  <2>4. t \in Tasks
    BY <1>2, Zenon
  <2> QED
    BY <1>0, <2>1, <2>3, <2>4, RowsElsewhere, Zenon
<1>3. ASSUME NEW t \in Tasks, RowsNext(t)
      PROVE  RowsState' /\ RowsFetching'
  <2>1. CASE rowsLock = "none" /\ rows.left # <<>>
    <3>1. NextRow(rows.left, rows.pager) /\ at' = at
      BY <1>3, <2>1, Zenon DEF RowsNext
    <3>2. OpenAt(rows.left, rows.pager)
      <4>1. rows.left \in Seq(Nat)
        BY <1>0 DEF RowsState
      <4> QED
        BY <1>0, <2>1, <4>1, Zenon DEF RowsState, OpenAt
    <3>3. RowsState'
      BY <2>1, <3>1, <3>2, NextRowKeeps, Zenon DEF OpenAt
    <3>4. \A u \in Tasks : at'[u] # "rows: fetch"
      BY <1>0, <2>1, <3>1, TasksAssumption, Zenon DEF RowsFetching
    <3> QED
      BY <3>3, <3>4, Zenon DEF RowsFetching
  <2>2. CASE ~(rowsLock = "none" /\ rows.left # <<>>)
    <3>1. Goto(t, "rows: lock") /\ UNCHANGED rowsVars
      BY <1>3, <2>2, Zenon DEF RowsNext, rowsVars
    <3>2. "rows: lock" \in Places \ {"rows: fetch"}
      BY DEF Places
    <3>3. MovesTo(t, Places \ {"rows: fetch"})
      BY <3>1, <3>2, Zenon DEF MovesTo
    <3> QED
      BY <1>0, <1>3, <3>1, <3>3, RowsElsewhere, Zenon
  <2> QED
    BY <2>1, <2>2, Zenon
<1>4. ASSUME NEW t \in Tasks, RowsLock(t)
      PROVE  RowsState' /\ RowsFetching'
  <2>1. rowsLock = "none" /\ RowOrFetch(t, rows.left, rows.pager)
    BY <1>4, Zenon DEF RowsLock
  <2>2. OnlyFetcher(t)
    BY <1>0, <2>1, TasksAssumption, Zenon DEF RowsFetching, OnlyFetcher
  <2>3. OpenAt(rows.left, rows.pager) \/ EndedAt(rows.left, rows.pager)
    <3>1. rows.left \in Seq(Nat)
      BY <1>0 DEF RowsState
    <3> QED
      BY <1>0, <3>1, Zenon DEF RowsState, OpenAt, EndedAt
  <2> QED
    BY <1>0, <2>1, <2>2, <2>3, RowOrFetchKeeps, Zenon
<1>5. ASSUME NEW t \in Tasks, RowsFetched(t)
      PROVE  RowsState' /\ RowsFetching'
  <2>1. at[t] = "rows: fetch" /\ RowOrFetch(t, PageRows[rows.pager], rows.pager + 1)
    BY <1>5, Zenon DEF RowsFetched
  <2>2. rowsLock = t /\ rowsEnd = "open" /\ rows.left = <<>> /\ rows.pager \in Pages
    BY <1>0, <2>1, Zenon DEF RowsFetching, HasMorePages
  <2>3. OnlyFetcher(t)
    BY <1>0, <2>2, Zenon DEF RowsFetching, OnlyFetcher
  <2>4. OpenAt(PageRows[rows.pager], rows.pager + 1)
    <3>1. /\ given \in Seq(Nat) /\ Flat(rows.pager - 1) = given \o <<>>
          /\ rows.pager \in 2..(Len(PageRows) + 1)
      BY <1>0, <2>2, Zenon DEF RowsState
    <3>2. given \o <<>> = given
      BY <3>1, NoMore, Zenon
    <3>3. Flat(rows.pager) = given \o PageRows[rows.pager] /\ PageRows[rows.pager] \in Seq(Nat)
      BY <2>2, <3>1, <3>2, FlatFacts, PageFacts, Zenon
    <3>4. rows.pager + 1 \in 2..(Len(PageRows) + 1) /\ (rows.pager + 1) - 1 = rows.pager
      <4> DEFINE p == rows.pager
      <4>1. p \in 1..Len(PageRows) /\ Len(PageRows) \in Nat
        BY <2>2, PageFacts, Zenon
      <4> HIDE DEF p
      <4>2. p + 1 \in 2..(Len(PageRows) + 1) /\ (p + 1) - 1 = p
        BY <4>1
      <4> QED
        BY <4>2, Zenon DEF p
    <3> QED
      BY <2>2, <3>1, <3>3, <3>4, Zenon DEF OpenAt
  <2> QED
    BY <1>0, <2>1, <2>3, <2>4, RowOrFetchKeeps, Zenon
<1>6. ASSUME NEW t \in Tasks, RowsFetchFails(t)
      PROVE  RowsState' /\ RowsFetching'
  <2>1. /\ at[t] = "rows: fetch" /\ Finish /\ Goto(t, "idle") /\ given' = given
    BY <1>6, Zenon DEF RowsFetchFails
  <2>2. rowsLock = t /\ rowsEnd = "open" /\ rows.left = <<>> /\ rows.pager \in Pages
    BY <1>0, <2>1, Zenon DEF RowsFetching, HasMorePages
  <2>3. rows' = [left |-> <<>>, pager |-> 0] /\ rowsEnd' = "failed"
    BY <2>1, <2>2, Zenon DEF Finish
  <2>4. rows' \in [left : Seq(Nat), pager : Nat] /\ rows'.left = <<>> /\ rows'.pager = 0
    <3>1. <<>> \in Seq(Nat) /\ 0 \in Nat
      OBVIOUS
    <3> QED
      BY <2>3, <3>1, RowsRecord, Zenon
  <2>5. GoesOn(given, AllRows) /\ given \in Seq(Nat)
    <3>1. /\ given \in Seq(Nat) /\ Flat(rows.pager - 1) = given \o <<>>
      BY <1>0, <2>2, Zenon DEF RowsState
    <3>2. given \o <<>> = given
      BY <3>1, NoMore, Zenon
    <3>3. rows.pager - 1 \in 0..Len(PageRows)
      <4> DEFINE p == rows.pager
      <4>1. p \in 1..Len(PageRows) /\ Len(PageRows) \in Nat
        BY <2>2, PageFacts, Zenon
      <4> HIDE DEF p
      <4>2. p - 1 \in 0..Len(PageRows)
        BY <4>1
      <4> QED
        BY <4>2, Zenon DEF p
    <3> QED
      BY <3>1, <3>2, <3>3, FlatGoesOn, Zenon
  <2>6. RowsState'
    BY <2>1, <2>3, <2>4, <2>5, Zenon DEF RowsState
  <2>7. \A u \in Tasks : at'[u] # "rows: fetch"
    <3>1. at'[t] = "idle" /\ \A u \in Tasks : u # t => at'[u] = at[u]
      BY <1>0, <1>6, <2>1, Gone, Zenon
    <3>2. OnlyFetcher(t)
      BY <1>0, <2>2, Zenon DEF RowsFetching, OnlyFetcher
    <3> QED
      BY <3>1, <3>2 DEF OnlyFetcher
  <2> QED
    BY <2>6, <2>7, Zenon DEF RowsFetching
<1>7. ASSUME NEW t \in Tasks, Cancel(t)
      PROVE  RowsState' /\ RowsFetching'
  <2>1. /\ UNCHANGED <<rows, given, rowsEnd>> /\ Goto(t, "idle")
        /\ rowsLock' = IF rowsLock = t THEN "none" ELSE rowsLock
    BY <1>7, Zenon DEF Cancel
  <2>2. at'[t] = "idle" /\ \A u \in Tasks : u # t => at'[u] = at[u]
    BY <1>0, <1>7, <2>1, Gone, Zenon
  <2>3. "idle" # "rows: fetch"
    OBVIOUS
  <2>4. ASSUME NEW u \in Tasks, at'[u] = "rows: fetch"
        PROVE  rowsLock' = u /\ rowsEnd' = "open" /\ rows'.left = <<>> /\ rows'.pager \in Pages
    <3>1. u # t /\ at[u] = "rows: fetch"
      BY <2>2, <2>3, <2>4, Zenon
    <3>2. rowsLock = u /\ rowsEnd = "open" /\ rows.left = <<>> /\ rows.pager \in Pages
      BY <1>0, <3>1, Zenon DEF RowsFetching, HasMorePages
    <3> QED
      BY <2>1, <3>1, <3>2, Zenon
  <2> QED
    BY <1>0, <2>1, <2>4, RowsFrame, Zenon DEF RowsFetching, HasMorePages
<1> QED
  BY <1>1, <1>2, <1>3, <1>4, <1>5, <1>6, <1>7, Zenon DEF PagingNext

-----------------------------------------------------------------------------
(* Reads on a clone of the pager. *)

\* A task changes its clone, and one that is to fetch has collected what comes before.
LEMMA CloneSet ==
  ASSUME NEW t \in Tasks, NEW q, NEW c \in Clones, at \in [Tasks -> Places], CloneState,
         clone' = [clone EXCEPT ![t] = c], Goto(t, q), q = "clone: fetch" => Collected(c)
  PROVE  CloneState'
<1>1. clone \in [Tasks -> Clones] /\ \A u \in Tasks : at[u] = "clone: fetch" => Collected(clone[u])
  BY Zenon DEF CloneState
<1>2. at'[t] = q /\ \A u \in Tasks : u # t => at'[u] = at[u]
  BY Gone, Zenon
<1>3. clone' \in [Tasks -> Clones] /\ clone'[t] = c /\ \A u \in Tasks : u # t => clone'[u] = clone[u]
  BY <1>1
<1>4. ASSUME NEW u \in Tasks, at'[u] = "clone: fetch" PROVE Collected(clone'[u])
  BY <1>1, <1>2, <1>3, <1>4, Zenon
<1> QED
  BY <1>3, <1>4, Zenon DEF CloneState, Collected, HasMorePages

\* A step that leaves the clones alone and starts no fetch on one.
LEMMA CloneElsewhere ==
  ASSUME NEW t \in Tasks, NEW q, q # "clone: fetch", at \in [Tasks -> Places],
         CloneState, clone' = clone, Goto(t, q) \/ UNCHANGED at
  PROVE  CloneState'
<1>1. \A u \in Tasks : at'[u] = "clone: fetch" => at[u] = "clone: fetch"
  BY Gone, Zenon
<1> QED
  BY <1>1, Zenon DEF CloneState, Collected, HasMorePages

\* The clones of a pager, as records.
LEMMA CloneRecords ==
  /\ NoClone \in Clones
  /\ \A c \in Clones, p \in Nat : [c EXCEPT !.pager = p] \in Clones
  /\ \A c \in Clones : c.wants \in {"first", "all", "page"} /\ c.list \in Seq(Nat) /\ c.pager \in Nat
  /\ \A w \in {"first", "all", "page"}, l \in Seq(Nat), p \in Nat :
       LET c == [wants |-> w, list |-> l, pager |-> p] IN
       c \in Clones /\ c.wants = w /\ c.list = l /\ c.pager = p
BY DEF Clones, NoClone

\* A pager that stands past the last page, or at a page.
LEMMA PagerAt ==
  ASSUME NEW p \in 2..(Len(PageRows) + 1)
  PROVE  /\ p \in Nat /\ p - 1 \in 0..Len(PageRows)
         /\ p \in Pages \/ p - 1 = Len(PageRows)
         /\ p \in Pages => p + 1 \in 2..(Len(PageRows) + 1) /\ (p + 1) - 1 = p
BY PageFacts

\* A read that returns has the answer; one that goes on has collected what it read.
LEMMA CloneStepKeeps ==
  ASSUME NEW t \in Tasks, NEW wants \in {"first", "all"}, NEW pager \in 2..(Len(PageRows) + 1),
         NEW l, l = Flat(pager - 1),
         at \in [Tasks -> Places], CloneState, Answers, CloneStep(t, wants, l, pager)
  PROVE  CloneState' /\ Answers'
<1>1. /\ pager \in Nat /\ pager - 1 \in 0..Len(PageRows) 
      /\ pager \in Pages \/ pager - 1 = Len(PageRows)
  BY PagerAt, Zenon
<1>2. l \in Seq(Nat) /\ GoesOn(l, AllRows) /\ AllRows \in Seq(Nat)
  <2>1. Len(PageRows) \in 0..Len(PageRows)
    BY PageFacts
  <2> QED
    BY <1>1, <2>1, FlatFacts, FlatGoesOn, Zenon
<1>3. CASE (wants = "first" /\ l # <<>>) \/ ~HasMorePages(pager)
  <2> DEFINE a == IF wants = "first" /\ l # <<>> THEN <<Head(l)>> ELSE l
             r == <<wants, a>>
  <2>1. /\ results' = results \cup {r} /\ clone' = [clone EXCEPT ![t] = NoClone]
        /\ Goto(t, "idle")
    BY <1>3, Zenon DEF CloneStep
  <2>2. "idle" # "clone: fetch"
    OBVIOUS
  <2>3. CloneState'
    BY <2>1, <2>2, CloneSet, CloneRecords, Zenon
  <2>4. r[1] = wants /\ r[2] = a
    BY Zenon
  <2>5. a = IF wants = "all" \/ AllRows = <<>> THEN AllRows ELSE <<Head(AllRows)>>
    <3>1. CASE wants = "first" /\ l # <<>>
      <4>1. AllRows # <<>> /\ Head(AllRows) = Head(l)
        BY <1>2, <3>1, GoesOnFacts, Zenon
      <4>2. wants # "all"
        BY <3>1
      <4> QED
        BY <3>1, <4>1, <4>2, Zenon
    <3>2. CASE ~(wants = "first" /\ l # <<>>)
      <4>1. l = AllRows
        BY <1>1, <1>3, <3>2, FlatFacts, Zenon DEF HasMorePages
      <4>2. wants = "all" \/ l = <<>>
        BY <3>2
      <4> QED
        BY <3>2, <4>1, <4>2, Zenon
    <3> QED
      BY <3>1, <3>2, Zenon
  <2>6. Answer(r)
    BY <2>4, <2>5, Zenon DEF Answer
  <2> HIDE DEF r, a
  <2>7. Answers'
    BY <2>1, <2>6, Zenon DEF Answers, Answer
  <2> QED
    BY <2>3, <2>7, Zenon
<1>4. CASE ~((wants = "first" /\ l # <<>>) \/ ~HasMorePages(pager))
  <2> DEFINE c == [wants |-> wants, list |-> l, pager |-> pager]
  <2>1. clone' = [clone EXCEPT ![t] = c] /\ Goto(t, "clone: fetch") /\ results' = results
    BY <1>4, Zenon DEF CloneStep
  <2>2. wants \in {"first", "all", "page"}
    OBVIOUS
  <2>3. c \in Clones /\ c.wants = wants /\ c.list = l /\ c.pager = pager
    BY <1>1, <1>2, <2>2, CloneRecords, Zenon
  <2>4. Collected(c)
    BY <1>4, <2>3, Zenon DEF Collected
  <2> HIDE DEF c
  <2>5. CloneState'
    BY <2>1, <2>3, <2>4, CloneSet, Zenon
  <2> QED
    BY <2>1, <2>5, Zenon DEF Answers, Answer
<1> QED
  BY <1>3, <1>4, Zenon

\* Every step keeps what reads on a clone have collected, and what they returned.
LEMMA CloneStepStep ==
  ASSUME PagingInv, [PagingNext]_pagingVars
  PROVE  CloneState' /\ Answers'
<1>0. at \in [Tasks -> Places] /\ CloneState /\ Answers /\ PagesState /\ clone \in [Tasks -> Clones]
  BY Zenon DEF PagingInv, CloneState
<1>1. CASE UNCHANGED pagingVars
  <2>1. clone' = clone /\ results' = results /\ at' = at
    BY <1>1, Zenon DEF pagingVars, cloneVars
  <2> QED
    BY <1>0, <2>1, Zenon DEF CloneState, Collected, HasMorePages, Answers, Answer
<1>2. ASSUME NEW t \in Tasks,
             \/ RowsNext(t) \/ RowsLock(t) \/ RowsFetched(t) \/ RowsFetchFails(t)
             \/ PagesNext(t) \/ PagesLock(t) \/ PagesFetchFails(t) \/ Cancel(t)
      PROVE  CloneState' /\ Answers'
  <2>1. clone' = clone /\ results' = results
    BY <1>2, Zenon DEF RowsNext, RowsLock, RowsFetched, RowsFetchFails, PagesNext, PagesLock,
                       PagesFetchFails, Cancel, cloneVars
  <2>2. \E q \in Places \ {"clone: fetch"} : Goto(t, q) \/ UNCHANGED at
    <3>1. {"idle", "pages: lock", "pages: fetch", "rows: lock", "rows: fetch"}
            \subseteq Places \ {"clone: fetch"}
      BY DEF Places
    <3> QED
      BY <1>2, <3>1, Zenon DEF RowsNext, RowsLock, RowsFetched, RowsFetchFails, PagesNext,
                       PagesLock, PagesFetchFails, Cancel, RowOrFetch
  <2> QED
    BY <1>0, <1>2, <2>1, <2>2, CloneElsewhere, Zenon DEF Answers, Answer
<1>3. ASSUME NEW t \in Tasks, PagesFetched(t)
      PROVE  CloneState' /\ Answers'
  <2>1. /\ clone' = [clone EXCEPT ![t] = [clone[t] EXCEPT !.pager = pages.pager]]
        /\ Goto(t, "pages: resolve") /\ results' = results
    BY <1>3, Zenon DEF PagesFetched
  <2>2. pages.pager \in Nat
    BY <1>0, PagerAt DEF PagesState
  <2>3. "pages: resolve" # "clone: fetch"
    OBVIOUS
  <2>4. clone[t] \in Clones
    BY <1>0, <1>3
  <2>5. [clone[t] EXCEPT !.pager = pages.pager] \in Clones
    BY <2>2, <2>4, CloneRecords, Zenon
  <2> QED
    BY <1>0, <1>3, <2>1, <2>3, <2>5, CloneSet, Zenon DEF Answers, Answer
<1>4. ASSUME NEW t \in Tasks, ResolvePage(t)
      PROVE  CloneState' /\ Answers'
  <2>1. /\ clone' = [clone EXCEPT ![t] = [clone[t] EXCEPT !.pager = 0]]
        /\ Goto(t, "idle") /\ results' = results
    BY <1>4, Zenon DEF ResolvePage
  <2>2. "idle" # "clone: fetch" /\ 0 \in Nat
    OBVIOUS
  <2>3. clone[t] \in Clones
    BY <1>0, <1>4
  <2>4. [clone[t] EXCEPT !.pager = 0] \in Clones
    BY <2>2, <2>3, CloneRecords, Zenon
  <2> QED
    BY <1>0, <1>4, <2>1, <2>2, <2>4, CloneSet, Zenon DEF Answers, Answer
<1>5. ASSUME NEW t \in Tasks, NEW wants \in {"first", "all"}, ReadRows(t, wants)
      PROVE  CloneState' /\ Answers'
  <2>1. CloneStep(t, wants, PageRows[1], 2)
    BY <1>5, Zenon DEF ReadRows
  <2>2. 2 \in 2..(Len(PageRows) + 1) /\ 2 - 1 = 1 /\ 1 - 1 = 0 /\ 1 \in Pages
    BY PageFacts
  <2>3. PageRows[1] = Flat(1)
    <3>1. Flat(1) = <<>> \o PageRows[1] /\ PageRows[1] \in Seq(Nat)
      BY <2>2, FlatFacts, PageFacts, Zenon
    <3> QED
      BY <3>1, NoMore, Zenon
  <2> QED
    BY <1>0, <1>5, <2>1, <2>2, <2>3, CloneStepKeeps, Zenon
<1>6. ASSUME NEW t \in Tasks, NEW p \in Pages, FetchAfter(t, p)
      PROVE  CloneState' /\ Answers'
  <2> DEFINE c == [wants |-> "page", list |-> <<>>, pager |-> p + 1]
  <2>1. /\ HasMorePages(p + 1) /\ clone' = [clone EXCEPT ![t] = c]
        /\ Goto(t, "clone: fetch") /\ results' = results
    BY <1>6, Zenon DEF FetchAfter
  <2>2. p + 1 \in Nat /\ "page" \in {"first", "all", "page"} /\ <<>> \in Seq(Nat)
    BY PageFacts
  <2>3. c \in Clones /\ c.wants = "page" /\ c.pager = p + 1
    BY <2>2, CloneRecords, Zenon
  <2>4. Collected(c)
    BY <2>1, <2>3, Zenon DEF Collected
  <2> HIDE DEF c
  <2> QED
    BY <1>0, <1>6, <2>1, <2>3, <2>4, CloneSet, Zenon DEF Answers, Answer
<1>7. ASSUME NEW t \in Tasks, CloneFetched(t)
      PROVE  CloneState' /\ Answers'
  <2>1. Collected(clone[t]) /\ clone[t] \in Clones
    BY <1>0, <1>7, Zenon DEF CloneFetched, CloneState
  <2>2. CASE clone[t].wants = "page"
    <3>1. clone' = [clone EXCEPT ![t] = NoClone] /\ Goto(t, "idle") /\ results' = results
      BY <1>7, <2>2, Zenon DEF CloneFetched
    <3>2. "idle" # "clone: fetch"
      OBVIOUS
    <3> QED
      BY <1>0, <1>7, <3>1, <3>2, CloneSet, CloneRecords, Zenon DEF Answers, Answer
  <2>3. CASE clone[t].wants # "page"
    <3> DEFINE p == clone[t].pager
               w == clone[t].wants
               l == clone[t].list \o PageRows[p]
    <3>1. CloneStep(t, w, l, p + 1)
      BY <1>7, <2>3, Zenon DEF CloneFetched
    <3>2. p \in Pages /\ clone[t].list = Flat(p - 1)
      BY <2>1, <2>3, Zenon DEF Collected, HasMorePages
    <3>3. w \in {"first", "all"}
      BY <2>1, <2>3, CloneRecords
    <3> HIDE DEF p, w
    <3>4. p + 1 \in 2..(Len(PageRows) + 1) /\ (p + 1) - 1 = p
      BY <3>2, PageFacts
    <3>5. l = Flat(p)
      BY <3>2, FlatFacts, Zenon
    <3> QED
      BY <1>0, <1>7, <3>1, <3>3, <3>4, <3>5, CloneStepKeeps, Zenon
  <2> QED
    BY <2>2, <2>3, Zenon
<1>8. ASSUME NEW t \in Tasks, CloneFails(t)
      PROVE  CloneState' /\ Answers'
  <2>1. clone' = [clone EXCEPT ![t] = NoClone] /\ Goto(t, "idle") /\ results' = results
    BY <1>8, Zenon DEF CloneFails
  <2>2. "idle" # "clone: fetch"
    OBVIOUS
  <2> QED
    BY <1>0, <1>8, <2>1, <2>2, CloneSet, CloneRecords, Zenon DEF Answers, Answer
<1> QED
  BY <1>1, <1>2, <1>3, <1>4, <1>5, <1>6, <1>7, <1>8, Zenon DEF PagingNext

-----------------------------------------------------------------------------
(* The pages iterator. *)

\* Steps that leave the pages iterator and the pages on their way alone.
LEMMA PagesFrame ==
  ASSUME PagesState, UNCHANGED <<pages, pagesGiven, lost>>,
         \A t \in Tasks, p \in Nat : OnItsWay(t, p)' <=> OnItsWay(t, p)
  PROVE  PagesState'
<1>1. \A p : Handed(p)' <=> Handed(p)
  BY Zenon DEF Handed
<1> QED
  BY <1>1 DEF PagesState

\* A task that is handing out no page moves, and its clone may change.
LEMMA PagesElsewhere ==
  ASSUME NEW t \in Tasks, NEW q, q # "pages: resolve", at[t] # "pages: resolve",
         at \in [Tasks -> Places], PagesState, UNCHANGED <<pages, pagesGiven, lost>>,
         Goto(t, q) \/ UNCHANGED at,
         \A u \in Tasks : u # t => clone'[u] = clone[u]
  PROVE  PagesState'
<1>1. ASSUME NEW u \in Tasks, NEW p PROVE OnItsWay(u, p)' <=> OnItsWay(u, p)
  <2>1. CASE u = t
    BY <2>1, Gone, Zenon DEF OnItsWay
  <2>2. CASE u # t
    BY <2>2, Gone, Zenon DEF OnItsWay
  <2> QED
    BY <2>1, <2>2, Zenon
<1> QED
  BY <1>1, PagesFrame, Zenon

\* A page that was not handed out yet is handed out: still none twice.
LEMMA Handing ==
  ASSUME NEW p \in Nat, pagesGiven \in Seq(Nat), pagesGiven' = Append(pagesGiven, p), ~Handed(p),
         \A i, j \in DOMAIN pagesGiven : pagesGiven[i] = pagesGiven[j] => i = j
  PROVE  /\ pagesGiven' \in Seq(Nat)
         /\ \A i, j \in DOMAIN pagesGiven' : pagesGiven'[i] = pagesGiven'[j] => i = j
         /\ \A r : Handed(r)' <=> (Handed(r) \/ r = p)
<1>1. /\ Len(pagesGiven) \in Nat /\ DOMAIN pagesGiven = 1..Len(pagesGiven)
      /\ DOMAIN pagesGiven' = 1..(Len(pagesGiven) + 1)
      /\ pagesGiven'[Len(pagesGiven) + 1] = p
      /\ \A i \in 1..Len(pagesGiven) : pagesGiven'[i] = pagesGiven[i]
  OBVIOUS
<1>2. pagesGiven' \in Seq(Nat)
  OBVIOUS
<1>3. \A i \in 1..(Len(pagesGiven) + 1) : i \in 1..Len(pagesGiven) \/ i = Len(pagesGiven) + 1
  BY <1>1
<1>4. \A i \in 1..Len(pagesGiven) : i \in 1..(Len(pagesGiven) + 1)
  BY <1>1
<1>5. Len(pagesGiven) + 1 \in 1..(Len(pagesGiven) + 1)
  BY <1>1
<1>6. \A i \in 1..Len(pagesGiven) : pagesGiven[i] # p
  BY <1>1, Zenon DEF Handed
<1>7. ASSUME NEW i \in DOMAIN pagesGiven', NEW j \in DOMAIN pagesGiven', pagesGiven'[i] = pagesGiven'[j]
      PROVE  i = j
  <2>1. CASE i \in 1..Len(pagesGiven) /\ j \in 1..Len(pagesGiven)
    BY <1>1, <1>7, <2>1, Zenon
  <2>2. CASE i \notin 1..Len(pagesGiven) \/ j \notin 1..Len(pagesGiven)
    BY <1>1, <1>3, <1>6, <1>7, <2>2, Zenon
  <2> QED
    BY <2>1, <2>2, Zenon
<1>8. \A r : Handed(r)' <=> (Handed(r) \/ r = p)
  BY <1>1, <1>3, <1>4, <1>5, Zenon DEF Handed
<1> QED
  BY <1>2, <1>7, <1>8, Zenon

\* Every step keeps each page in one place: to come, on its way, given or lost.
LEMMA PagesStep ==
  ASSUME PagingInv, [PagingNext]_pagingVars
  PROVE  PagesState'
<1>0. at \in [Tasks -> Places] /\ PagesState /\ PagesFetching /\ clone \in [Tasks -> Clones]
  BY Zenon DEF PagingInv, CloneState
<1>a. /\ pages \in [first : BOOLEAN, pager : 2..(Len(PageRows) + 1)]
      /\ pages.pager \in 2..(Len(PageRows) + 1) /\ pages.first \in BOOLEAN
  <2>1. pages \in [first : BOOLEAN, pager : 2..(Len(PageRows) + 1)]
    BY <1>0, Zenon DEF PagesState
  <2> QED
    BY <2>1
<1>b. \A u \in Tasks, p \in Nat : OnItsWay(u, p) =>
        /\ p \in 2..(pages.pager - 1) /\ p \notin lost /\ ~Handed(p)
        /\ \A w \in Tasks : OnItsWay(w, p) => w = u
  BY <1>0, Zenon DEF PagesState
<1>c. \A p \in 1..(pages.pager - 1) :
        \/ p \in lost \/ Handed(p) \/ (p = 1 /\ pages.first)
        \/ \E u \in Tasks : OnItsWay(u, p)
  BY <1>0, Zenon DEF PagesState
<1>1. CASE UNCHANGED pagingVars
  <2>1. UNCHANGED <<pages, pagesGiven, lost>> /\ clone' = clone /\ at' = at
    BY <1>1, Zenon DEF pagingVars, pagesVars, cloneVars
  <2> QED
    BY <1>0, <2>1, PagesFrame, Zenon DEF OnItsWay
<1>2. ASSUME NEW t \in Tasks,
             \/ RowsNext(t) \/ RowsLock(t) \/ RowsFetched(t) \/ RowsFetchFails(t)
             \/ PagesLock(t) \/ PagesFetchFails(t)
             \/ \E wants \in {"first", "all"} : ReadRows(t, wants)
             \/ \E p \in Pages : FetchAfter(t, p)
             \/ CloneFetched(t) \/ CloneFails(t) \/ Cancel(t)
      PROVE  PagesState'
  <2>1. UNCHANGED <<pages, pagesGiven, lost>>
    BY <1>2, Zenon DEF RowsNext, RowsLock, RowsFetched, RowsFetchFails, PagesLock,
       PagesFetchFails,
                       ReadRows, FetchAfter, CloneFetched, CloneFails, Cancel, pagesVars
  <2>2. \E q \in Places \ {"pages: resolve"} : Goto(t, q) \/ UNCHANGED at
    <3>1. {"idle", "pages: lock", "pages: fetch", "rows: lock", "rows: fetch", "clone: fetch"}
            \subseteq Places \ {"pages: resolve"}
      BY DEF Places
    <3> QED
      BY <1>2, <3>1, Zenon DEF RowsNext, RowsLock, RowsFetched, RowsFetchFails, PagesLock,
            PagesFetchFails, ReadRows, FetchAfter, CloneFetched, CloneFails, Cancel, RowOrFetch,
            CloneStep
  <2>3. at[t] # "pages: resolve"
    BY <1>2 DEF RowsNext, RowsLock, RowsFetched, RowsFetchFails, PagesLock, PagesFetchFails,
                ReadRows, FetchAfter, CloneFetched, CloneFails, Cancel
  <2>4. clone' = clone \/ \E c : clone' = [clone EXCEPT ![t] = c]
    BY <1>2, Zenon DEF RowsNext, RowsLock, RowsFetched, RowsFetchFails, PagesLock,
            PagesFetchFails, ReadRows, FetchAfter, CloneFetched, CloneFails, Cancel, CloneStep, cloneVars
  <2>5. \A u \in Tasks : u # t => clone'[u] = clone[u]
    BY <1>0, <2>4, Zenon
  <2>6. PICK q \in Places \ {"pages: resolve"} : Goto(t, q) \/ UNCHANGED at
    BY <2>2, Zenon
  <2>7. q # "pages: resolve"
    BY <2>6
  <2>8. t \in Tasks
    BY <1>2, Zenon
  <2> QED
    BY <1>0, <2>1, <2>3, <2>5, <2>6, <2>7, <2>8, PagesElsewhere, Zenon
<1>3. ASSUME NEW t \in Tasks, PagesNext(t)
      PROVE  PagesState'
  <2>1. CASE pagesLock = "none" /\ pages.first
    <3>1. /\ pagesGiven' = Append(pagesGiven, 1) /\ pages' = [pages EXCEPT !.first = FALSE]
          /\ at' = at /\ lost' = lost /\ clone' = clone
      BY <1>3, <2>1, Zenon DEF PagesNext, cloneVars
    <3>2. ~Handed(1) /\ pagesGiven \in Seq(Nat) /\ 1 \in Nat
          /\ \A i, j \in DOMAIN pagesGiven : pagesGiven[i] = pagesGiven[j] => i = j
      BY <1>0, <2>1 DEF PagesState
    <3>3. /\ pagesGiven' \in Seq(Nat)
          /\ \A i, j \in DOMAIN pagesGiven' : pagesGiven'[i] = pagesGiven'[j] => i = j
          /\ \A r : Handed(r)' <=> (Handed(r) \/ r = 1)
      BY <3>1, <3>2, Handing, Zenon
    <3>4. /\ pages' \in [first : BOOLEAN, pager : 2..(Len(PageRows) + 1)]
          /\ pages'.pager = pages.pager /\ pages'.first = FALSE
      BY <1>a, <3>1
    <3>5. \A u \in Tasks, p \in Nat : OnItsWay(u, p)' <=> OnItsWay(u, p)
      BY <3>1, Zenon DEF OnItsWay
    <3>6. 1 \in 1..(pages.pager - 1) /\ \A r : r \in 2..(pages.pager - 1) => r # 1
      BY <1>a, PageFacts
    <3>7. lost \subseteq 2..(pages.pager - 1)
      BY <1>0, Zenon DEF PagesState
    <3>8. \A p \in Nat : Handed(p)' => p \in 1..(pages.pager - 1) /\ p \notin lost
      BY <1>0, <3>3, <3>6, <3>7, Zenon DEF PagesState
    <3>9. \A u \in Tasks, p \in Nat : OnItsWay(u, p)' =>
            /\ p \in 2..(pages.pager - 1) /\ p \notin lost /\ ~Handed(p)'
            /\ \A w \in Tasks : OnItsWay(w, p)' => w = u
      BY <1>0, <3>3, <3>5, <3>6, Zenon DEF PagesState
    <3>10. \A p \in 1..(pages.pager - 1) :
             p \in lost \/ Handed(p)' \/ \E u \in Tasks : OnItsWay(u, p)'
      <4>1. \A p \in 1..(pages.pager - 1) : p \in Nat
        BY <1>a
      <4> QED
        BY <1>c, <3>3, <3>5, <4>1, Zenon
    <3> QED
      BY <3>1, <3>3, <3>4, <3>7, <3>8, <3>9, <3>10, Zenon DEF PagesState
  <2>2. CASE ~(pagesLock = "none" /\ pages.first)
    <3>1. Goto(t, "pages: lock") /\ UNCHANGED <<pages, pagesGiven, lost>> /\ clone' = clone
      BY <1>3, <2>2, Zenon DEF PagesNext, cloneVars
    <3>2. "pages: lock" # "pages: resolve" /\ at[t] # "pages: resolve"
      BY <1>3 DEF PagesNext
    <3> QED
      BY <1>0, <1>3, <3>1, <3>2, PagesElsewhere, Zenon
  <2> QED
    BY <2>1, <2>2, Zenon
<1>4. ASSUME NEW t \in Tasks, PagesFetched(t)
      PROVE  PagesState'
  <2> DEFINE k == pages.pager
  <2>1. /\ at[t] = "pages: fetch" /\ pages' = [pages EXCEPT !.pager = pages.pager + 1]
        /\ clone' = [clone EXCEPT ![t] = [clone[t] EXCEPT !.pager = pages.pager]]
        /\ Goto(t, "pages: resolve") /\ pagesGiven' = pagesGiven /\ lost' = lost
    BY <1>4, Zenon DEF PagesFetched
  <2>2. k \in Pages /\ k \in 2..(Len(PageRows) + 1)
    BY <1>0, <1>4, <1>a, <2>1, Zenon DEF PagesFetching, HasMorePages
  <2>3. /\ k \in Nat /\ k + 1 \in 2..(Len(PageRows) + 1)
    <3> HIDE DEF k
    <3> QED
      BY <2>2, PageFacts
  <2>4. /\ pages' \in [first : BOOLEAN, pager : 2..(Len(PageRows) + 1)]
        /\ pages'.pager = k + 1 /\ pages'.first = pages.first
    BY <1>a, <2>1, <2>3
  <2>5. /\ (k + 1) - 1 = k /\ k \in 2..k /\ \A r \in 1..(k - 1) : r \in 1..k
        /\ \A r \in 2..(k - 1) : r \in 2..k
        /\ \A r \in 1..k : r \in 1..(k - 1) \/ r = k
        /\ k \notin 1..(k - 1) /\ k \notin 2..(k - 1)
    <3> HIDE DEF k
    <3> QED
      BY <2>2, <2>3
  <2>6. /\ clone'[t].pager = k /\ \A u \in Tasks : u # t => clone'[u] = clone[u]
        /\ at'[t] = "pages: resolve" /\ \A u \in Tasks : u # t => at'[u] = at[u]
    <3>1. clone[t] \in Clones
      BY <1>0, <1>4
    <3>2. [clone[t] EXCEPT !.pager = pages.pager].pager = pages.pager
      BY <3>1 DEF Clones
    <3> QED
      BY <1>0, <1>4, <2>1, <3>2, Gone, Zenon
  <2>7. "pages: fetch" # "pages: resolve"
    OBVIOUS
  <2>8. \A u \in Tasks, p \in Nat : OnItsWay(u, p)' <=> (OnItsWay(u, p) \/ (u = t /\ p = k))
    BY <2>1, <2>6, <2>7, Zenon DEF OnItsWay
  <2>9. \A p : Handed(p)' <=> Handed(p)
    BY <2>1, Zenon DEF Handed
  <2>10. lost \subseteq 2..(k - 1) /\ k \notin lost /\ ~Handed(k) /\ \A u \in Tasks : ~OnItsWay(u, k)
    <3>1. lost \subseteq 2..(k - 1)
      BY <1>0, Zenon DEF PagesState
    <3> QED
      BY <1>0, <2>3, <2>5, <3>1, Zenon DEF PagesState
  <2>11. \A p \in Nat : Handed(p)' => p \in 1..k /\ p \notin lost
    BY <1>0, <2>5, <2>9, Zenon DEF PagesState
  <2>12. \A u \in Tasks, p \in Nat : OnItsWay(u, p)' =>
           /\ p \in 2..k /\ p \notin lost /\ ~Handed(p)'
           /\ \A w \in Tasks : OnItsWay(w, p)' => w = u
    <3>1. ASSUME NEW u \in Tasks, NEW p \in Nat, OnItsWay(u, p)'
          PROVE  /\ p \in 2..k /\ p \notin lost /\ ~Handed(p)'
                 /\ \A w \in Tasks : OnItsWay(w, p)' => w = u
      <4> HIDE DEF k
      <4>1. CASE p = k
        BY <2>5, <2>8, <2>9, <2>10, <3>1, <4>1, Zenon
      <4>2. CASE p # k
        <5>1. OnItsWay(u, p)
          BY <2>8, <3>1, <4>2, Zenon
        <5>2. p \in 2..(k - 1) /\ p \notin lost /\ ~Handed(p) /\ \A w \in Tasks : OnItsWay(w, p) => w = u
          BY <1>b, <5>1, Zenon DEF k
        <5> QED
          BY <2>5, <2>8, <2>9, <4>2, <5>2, Zenon
      <4> QED
        BY <4>1, <4>2, Zenon
    <3> QED
      BY <3>1, Zenon
  <2>13. \A p \in 1..k :
           p \in lost \/ Handed(p)' \/ (p = 1 /\ pages.first) \/ \E u \in Tasks : OnItsWay(u, p)'
    <3>1. \A p \in 1..k : p \in Nat
      BY <2>3
    <3> QED
      BY <1>0, <1>4, <2>5, <2>8, <2>9, <3>1, Zenon DEF PagesState
  <2>14. \A i, j \in DOMAIN pagesGiven : pagesGiven[i] = pagesGiven[j] => i = j
    BY <1>0, Zenon DEF PagesState
  <2>15. pagesGiven \in Seq(Nat) /\ (pages.first => ~Handed(1))
    BY <1>0, Zenon DEF PagesState
  <2>16. lost \subseteq 2..k
    BY <2>5, <2>10, Zenon
  <2> HIDE DEF k
  <2> QED
    BY <2>1, <2>4, <2>5, <2>9, <2>11, <2>12, <2>13, <2>14, <2>15, <2>16, Zenon DEF PagesState
<1>5. ASSUME NEW t \in Tasks, ResolvePage(t)
      PROVE  PagesState'
  <2> DEFINE p == clone[t].pager
  <2>1. /\ at[t] = "pages: resolve" /\ clone' = [clone EXCEPT ![t] = [clone[t] EXCEPT !.pager = 0]]
        /\ Goto(t, "idle") /\ pages' = pages
        /\ \/ pagesGiven' = Append(pagesGiven, p) /\ lost' = lost
           \/ pagesGiven' = pagesGiven /\ lost' = lost \cup {p}
    BY <1>5, Zenon DEF ResolvePage
  <2>2. p \in Nat /\ OnItsWay(t, p)
    <3>1. clone[t] \in Clones
      BY <1>0, <1>5
    <3> QED
      BY <2>1, <3>1, CloneRecords, Zenon DEF OnItsWay
  <2>3. /\ p \in 2..(pages.pager - 1) /\ p \notin lost /\ ~Handed(p)
        /\ \A u \in Tasks : OnItsWay(u, p) => u = t
    BY <1>0, <1>5, <2>2, Zenon DEF PagesState
  <2>4. /\ \A u \in Tasks : u # t => clone'[u] = clone[u]
        /\ at'[t] = "idle" /\ \A u \in Tasks : u # t => at'[u] = at[u]
    BY <1>0, <1>5, <2>1, Gone, Zenon
  <2>5. "idle" # "pages: resolve"
    OBVIOUS
  <2>6. \A u \in Tasks, r \in Nat : OnItsWay(u, r)' <=> (OnItsWay(u, r) /\ u # t)
    BY <2>4, <2>5, Zenon DEF OnItsWay
  <2>7. \A r \in Nat : OnItsWay(t, r) => r = p
    BY Zenon DEF OnItsWay
  <2>8. /\ \A i, j \in DOMAIN pagesGiven : pagesGiven[i] = pagesGiven[j] => i = j
        /\ pagesGiven \in Seq(Nat) /\ (pages.first => ~Handed(1)) /\ lost \subseteq 2..(pages.pager - 1)
    BY <1>0, Zenon DEF PagesState
  <2> HIDE DEF p
  <2>9. p \in 1..(pages.pager - 1) /\ p # 1
    BY <1>a, <2>3
  <2>10. \A r \in 1..(pages.pager - 1) : r \in Nat
    BY <1>a
  <2>11. CASE pagesGiven' = Append(pagesGiven, p) /\ lost' = lost
    <3>1. /\ pagesGiven' \in Seq(Nat)
          /\ \A i, j \in DOMAIN pagesGiven' : pagesGiven'[i] = pagesGiven'[j] => i = j
          /\ \A r : Handed(r)' <=> (Handed(r) \/ r = p)
      BY <2>2, <2>3, <2>8, <2>11, Handing, Zenon
    <3>2. \A r \in Nat : Handed(r)' => r \in 1..(pages.pager - 1) /\ r \notin lost
      BY <1>0, <2>3, <2>9, <3>1, Zenon DEF PagesState
    <3>3. \A u \in Tasks, r \in Nat : OnItsWay(u, r)' =>
            /\ r \in 2..(pages.pager - 1) /\ r \notin lost /\ ~Handed(r)'
            /\ \A w \in Tasks : OnItsWay(w, r)' => w = u
      BY <1>b, <1>5, <2>2, <2>6, <3>1, Zenon
    <3>4. \A r \in 1..(pages.pager - 1) :
            \/ r \in lost \/ Handed(r)' \/ (r = 1 /\ pages.first)
            \/ \E u \in Tasks : OnItsWay(u, r)'
      BY <1>c, <2>6, <2>7, <2>10, <3>1, Zenon
    <3>5. pages.first => ~Handed(1)'
      BY <2>8, <2>9, <3>1, Zenon
    <3> QED
      BY <1>a, <2>1, <2>8, <2>11, <3>1, <3>2, <3>3, <3>4, <3>5, Zenon DEF PagesState
  <2>12. CASE pagesGiven' = pagesGiven /\ lost' = lost \cup {p}
    <3>1. \A r : Handed(r)' <=> Handed(r)
      BY <2>12, Zenon DEF Handed
    <3>2. \A r \in Nat : Handed(r)' => r \in 1..(pages.pager - 1) /\ r \notin lost'
      BY <1>0, <2>3, <2>12, <3>1, Zenon DEF PagesState
    <3>3. \A u \in Tasks, r \in Nat : OnItsWay(u, r)' =>
            /\ r \in 2..(pages.pager - 1) /\ r \notin lost' /\ ~Handed(r)'
            /\ \A w \in Tasks : OnItsWay(w, r)' => w = u
      BY <1>b, <1>5, <2>2, <2>6, <2>12, <3>1, Zenon
    <3>4. \A r \in 1..(pages.pager - 1) :
            \/ r \in lost' \/ Handed(r)' \/ (r = 1 /\ pages.first)
            \/ \E u \in Tasks : OnItsWay(u, r)'
      BY <1>c, <2>6, <2>7, <2>10, <2>12, <3>1, Zenon
    <3>5. lost' \subseteq 2..(pages.pager - 1)
      BY <2>3, <2>8, <2>12, Zenon
    <3> QED
      BY <1>a, <2>1, <2>8, <2>12, <3>1, <3>2, <3>3, <3>4, <3>5, Zenon DEF PagesState
  <2> QED
    BY <2>1, <2>11, <2>12, Zenon
<1> QED
  BY <1>1, <1>2, <1>3, <1>4, <1>5, Zenon DEF PagingNext

\* A task that fetches for the pages iterator holds its mutex.
LEMMA PagesFetchingStep ==
  ASSUME PagingInv, [PagingNext]_pagingVars
  PROVE  PagesFetching'
<1>0. at \in [Tasks -> Places] /\ PagesFetching
  BY Zenon DEF PagingInv
<1>1. CASE UNCHANGED pagingVars
  BY <1>0, <1>1, Zenon DEF pagingVars, pagesVars, PagesFetching, HasMorePages
<1>2. ASSUME NEW t \in Tasks,
             \/ RowsNext(t) \/ RowsLock(t) \/ RowsFetched(t) \/ RowsFetchFails(t) \/ ResolvePage(t)
             \/ \E wants \in {"first", "all"} : ReadRows(t, wants)
             \/ \E p \in Pages : FetchAfter(t, p)
             \/ CloneFetched(t) \/ CloneFails(t)
      PROVE  PagesFetching'
  <2>1. pages' = pages /\ pagesLock' = pagesLock
    BY <1>2, Zenon DEF RowsNext, RowsLock, RowsFetched, RowsFetchFails, ResolvePage,
                       ReadRows, FetchAfter, CloneFetched, CloneFails, pagesVars
  <2>2. \E q \in Places \ {"pages: fetch"} : Goto(t, q) \/ UNCHANGED at
    <3>1. {"idle", "rows: lock", "rows: fetch", "clone: fetch"} \subseteq Places \ {"pages: fetch"}
      BY DEF Places
    <3> QED
      BY <1>2, <3>1, Zenon DEF RowsNext, RowsLock, RowsFetched, RowsFetchFails, ResolvePage,
            ReadRows, FetchAfter, CloneFetched, CloneFails, RowOrFetch, CloneStep
  <2>3. PICK q \in Places \ {"pages: fetch"} : Goto(t, q) \/ UNCHANGED at
    BY <2>2, Zenon
  <2>4. q # "pages: fetch" /\ t \in Tasks
    BY <1>2, <2>3
  <2>5. \A u \in Tasks : at'[u] = "pages: fetch" => at[u] = "pages: fetch"
    BY <1>0, <2>3, <2>4, Gone, Zenon
  <2> QED
    BY <1>0, <2>1, <2>5, Zenon DEF PagesFetching, HasMorePages
<1>3. ASSUME NEW t \in Tasks, PagesNext(t)
      PROVE  PagesFetching'
  <2>1. CASE pagesLock = "none" /\ pages.first
    <3>1. at' = at
      BY <1>3, <2>1, Zenon DEF PagesNext
    <3> QED
      BY <1>0, <2>1, <3>1, TasksAssumption, Zenon DEF PagesFetching
  <2>2. CASE ~(pagesLock = "none" /\ pages.first)
    <3>1. Goto(t, "pages: lock") /\ pages' = pages /\ pagesLock' = pagesLock
      BY <1>3, <2>2, Zenon DEF PagesNext
    <3>2. "pages: lock" # "pages: fetch"
      OBVIOUS
    <3>3. \A u \in Tasks : at'[u] = "pages: fetch" => at[u] = "pages: fetch"
      BY <1>0, <1>3, <3>1, <3>2, Gone, Zenon
    <3> QED
      BY <1>0, <3>1, <3>3, Zenon DEF PagesFetching, HasMorePages
  <2> QED
    BY <2>1, <2>2, Zenon
<1>4. ASSUME NEW t \in Tasks, PagesLock(t)
      PROVE  PagesFetching'
  <2>1. pagesLock = "none" /\ pages' = pages
    BY <1>4, Zenon DEF PagesLock
  <2>2. \A u \in Tasks : at[u] # "pages: fetch"
    BY <1>0, <2>1, TasksAssumption, Zenon DEF PagesFetching
  <2>3. CASE ~finished /\ HasMorePages(pages.pager)
    <3>1. pagesLock' = t /\ Goto(t, "pages: fetch")
      BY <1>4, <2>3, Zenon DEF PagesLock
    <3> QED
      BY <1>0, <1>4, <2>1, <2>2, <2>3, <3>1, Gone, Zenon DEF PagesFetching, HasMorePages
  <2>4. CASE ~(~finished /\ HasMorePages(pages.pager))
    <3>1. Goto(t, "idle") /\ "idle" # "pages: fetch"
      BY <1>4, <2>4 DEF PagesLock
    <3> QED
      BY <1>0, <1>4, <2>2, <3>1, Gone, Zenon DEF PagesFetching
  <2> QED
    BY <2>3, <2>4, Zenon
<1>5. ASSUME NEW t \in Tasks, PagesFetched(t) \/ PagesFetchFails(t)
      PROVE  PagesFetching'
  <2>1. at[t] = "pages: fetch" /\ (Goto(t, "idle") \/ Goto(t, "pages: resolve"))
    BY <1>5, Zenon DEF PagesFetched, PagesFetchFails
  <2>2. "idle" # "pages: fetch" /\ "pages: resolve" # "pages: fetch"
    OBVIOUS
  <2>3. pagesLock = t
    BY <1>0, <1>5, <2>1, Zenon DEF PagesFetching
  <2>4. \A u \in Tasks : u # t => at[u] # "pages: fetch"
    BY <1>0, <2>3, Zenon DEF PagesFetching
  <2>5. at'[t] # "pages: fetch" /\ \A u \in Tasks : u # t => at'[u] = at[u]
    BY <1>0, <1>5, <2>1, <2>2, Gone, Zenon
  <2> QED
    BY <2>4, <2>5, Zenon DEF PagesFetching
<1>6. ASSUME NEW t \in Tasks, Cancel(t)
      PROVE  PagesFetching'
  <2>1. /\ pages' = pages /\ Goto(t, "idle")
        /\ pagesLock' = IF pagesLock = t THEN "none" ELSE pagesLock
    BY <1>6, Zenon DEF Cancel
  <2>2. at'[t] = "idle" /\ \A u \in Tasks : u # t => at'[u] = at[u]
    BY <1>0, <1>6, <2>1, Gone, Zenon
  <2>3. "idle" # "pages: fetch"
    OBVIOUS
  <2>4. ASSUME NEW u \in Tasks, at'[u] = "pages: fetch" PROVE pagesLock' = u /\ HasMorePages(pages'.pager)
    <3>1. u # t /\ at[u] = "pages: fetch"
      BY <2>2, <2>3, <2>4, Zenon
    <3>2. pagesLock = u /\ HasMorePages(pages.pager)
      BY <1>0, <3>1, Zenon DEF PagesFetching
    <3> QED
      BY <2>1, <3>1, <3>2, Zenon
  <2> QED
    BY <2>4, Zenon DEF PagesFetching, HasMorePages
<1> QED
  BY <1>1, <1>2, <1>3, <1>4, <1>5, <1>6, Zenon DEF PagingNext

\* Tasks stay at the places the code has.
LEMMA PlacesStep ==
  ASSUME at \in [Tasks -> Places], [PagingNext]_pagingVars
  PROVE  at' \in [Tasks -> Places]
<1>1. at' = at \/ \E t \in Tasks, q \in Places : Goto(t, q)
  <2>1. /\ "idle" \in Places /\ "rows: lock" \in Places /\ "rows: fetch" \in Places
        /\ "pages: lock" \in Places /\ "pages: fetch" \in Places
        /\ "pages: resolve" \in Places /\ "clone: fetch" \in Places
    BY DEF Places
  <2>2. CASE UNCHANGED pagingVars
    BY <2>2, Zenon DEF pagingVars
  <2>3. CASE PagingNext
    BY <2>1, <2>3, Zenon DEF PagingNext, RowsNext, RowsLock, RowsFetched, RowsFetchFails,
       PagesNext,
         PagesLock, PagesFetched, PagesFetchFails, ResolvePage, ReadRows, FetchAfter, CloneFetched,
         CloneFails, Cancel, RowOrFetch, CloneStep
  <2> QED
    BY <2>2, <2>3, Zenon
<1> QED
  BY <1>1 DEF Goto

\* Every step keeps the invariant.
LEMMA PagingStep == PagingInv /\ [PagingNext]_pagingVars => PagingInv'
BY RowsStep, CloneStepStep, PagesStep, PagesFetchingStep, PlacesStep, Zenon DEF PagingInv

\* The invariant gives what RequestResult promises.
LEMMA PagingPromises == PagingInv => RowsOnceInOrder /\ PagesOnce
<1> SUFFICES ASSUME PagingInv PROVE RowsOnceInOrder /\ PagesOnce
  BY Zenon
<1>0. RowsState /\ CloneState /\ Answers /\ PagesState
  BY Zenon DEF PagingInv
<1>1. RowsOnceInOrder
  <2>1. AllRows \in Seq(Nat) /\ given \in Seq(Nat)
    <3>1. Len(PageRows) \in 0..Len(PageRows)
      BY PageFacts
    <3> QED
      BY <1>0, <3>1, FlatFacts, Zenon DEF RowsState
  <2>2. GoesOn(given, AllRows)
    <3>1. CASE rowsEnd = "open"
      <4>1. rows.pager \in 2..(Len(PageRows) + 1) /\ Flat(rows.pager - 1) = given \o rows.left
        BY <1>0, <3>1 DEF RowsState
      <4>2. rows.left \in Seq(Nat)
        BY <1>0 DEF RowsState
      <4>3. GoesOn(given \o rows.left, AllRows)
        BY <4>1, PagerAt, FlatGoesOn, Zenon
      <4> QED
        BY <2>1, <4>2, <4>3, GoesOnBack, Zenon
    <3>2. CASE rowsEnd = "stopped"
      <4>1. given = AllRows
        BY <1>0, <3>2 DEF RowsState
      <4>2. AllRows \o <<>> = AllRows /\ <<>> \in Seq(Nat)
        BY <2>1, NoMore
      <4> QED
        BY <4>1, <4>2, Zenon DEF GoesOn
    <3>3. CASE rowsEnd = "failed"
      BY <1>0, <3>3 DEF RowsState
    <3> QED
      BY <1>0, <3>1, <3>2, <3>3, Zenon DEF RowsState
  <2>3. Len(given) <= Len(AllRows) /\ given = SubSeq(AllRows, 1, Len(given))
    BY <2>1, <2>2, GoesOnFacts, Zenon
  <2>4. rowsEnd = "stopped" => given = AllRows
    BY <1>0 DEF RowsState
  <2>5. rowsEnd = "failed" => rows.left = <<>> /\ rows.pager = 0
    BY <1>0 DEF RowsState
  <2>6. ~HasMorePages(0)
    BY PageFacts DEF HasMorePages
  <2> QED
    BY <1>0, <2>3, <2>4, <2>5, <2>6, Zenon DEF RowsOnceInOrder, Answers, Answer
<1>2. PagesOnce
  <2> DEFINE way == {clone[t].pager : t \in {u \in Tasks : at[u] = "pages: resolve"}}
  <2>1. \A t \in Tasks : clone[t].pager \in Nat
    BY <1>0 DEF CloneState, Clones
  <2>2. \A p : p \in way <=> \E t \in Tasks : OnItsWay(t, p)
    BY Zenon DEF OnItsWay
  <2>3. \A p : p \in Range(pagesGiven) <=> Handed(p)
    BY Zenon DEF Range, Handed
  <2>4. pages.pager \in 2..(Len(PageRows) + 1)
    BY <1>0 DEF PagesState
  <2>5. /\ \A p \in way : p \in Nat
        /\ \A p \in Range(pagesGiven) : p \in Nat
    <3>1. \A p \in way : p \in Nat
      BY <2>1, Zenon
    <3>2. pagesGiven \in Seq(Nat)
      BY <1>0, Zenon DEF PagesState
    <3>3. \A i \in DOMAIN pagesGiven : pagesGiven[i] \in Nat
      BY <3>2
    <3> QED
      BY <3>1, <3>3, Zenon DEF Range
  <2> HIDE DEF way
  <2>6. /\ \A p \in 2..(pages.pager - 1) : p \in 1..(pages.pager - 1) /\ 1 \in 1..(pages.pager - 1)
        /\ 1 \in 1..(pages.pager - 1) /\ lost \subseteq 2..(pages.pager - 1)
    BY <1>0, <2>4, PagerAt DEF PagesState
  <2>7. IsInjective(pagesGiven)
    BY <1>0, Zenon DEF PagesState, IsInjective
  <2>8. lost \cap Range(pagesGiven) = {} /\ way \cap (lost \cup Range(pagesGiven)) = {}
    BY <1>0, <2>2, <2>3, <2>5, Zenon DEF PagesState
  <2>9. ASSUME NEW p PROVE p \in lost \cup way \cup Range(pagesGiven) \cup {r \in {1} : pages.first}
                           <=> p \in 1..(pages.pager - 1)
    BY <1>0, <2>2, <2>3, <2>5, <2>6, Zenon DEF PagesState
  <2> QED
    BY <2>7, <2>8, <2>9, Zenon DEF PagesOnce, way
<1> QED
  BY <1>1, <1>2, Zenon

\* Whatever the pages of a result hold and however many tasks share its iterators or read
\* it by themselves, while fetches fail and their futures are dropped: the rows iterator
\* gives a prefix of the rows, all of them when it stops; a read of one's own returns all
\* of them or the first; and the pages iterator gives every page at most once
\* (core/results.rs, results/).
THEOREM PagingOnce == PagingSpec => [](RowsOnceInOrder /\ PagesOnce)
BY PagingStart, PagingStep, PagingPromises, PTL DEF PagingSpec

-----------------------------------------------------------------------------
(* The rows of a span of pages. *)

\* The rows a page counts for when those of the pages in K could not be built.
Counted(p, K) == IF p \in K THEN <<>> ELSE SetPages[p]
Span(a, b, K) == Concat([i \in 1..(b - a + 1) |-> Counted(a + i - 1, K)])

\* The pages of the result set, and their rows.
LEMMA SetFacts ==
  /\ SetLen \in Nat /\ SetLen >= 1
  /\ \A p \in 1..SetLen : SetPages[p] \in Seq(Nat)
  /\ \A p \in 1..SetLen : \A K : Counted(p, K) \in Seq(Nat)
<1>1. SetLen \in Nat /\ SetLen >= 1 /\ \A p \in 1..SetLen : SetPages[p] \in Seq(Nat)
  BY SetPagesAssumption DEF SetLen
<1>2. <<>> \in Seq(Nat)
  OBVIOUS
<1> QED
  BY <1>1, <1>2, Zenon DEF Counted

\* RowsFrom is the span that leaves the skipped pages out.
LEMMA SpanIs == \A a, b : RowsFrom(a, b) = Span(a, b, skipped)
BY Zenon DEF RowsFrom, Span, Counted

\* A span of no pages has no rows.
LEMMA SpanNone ==
  ASSUME NEW a \in Nat, NEW K
  PROVE  Span(a, a - 1, K) = <<>>
<1> DEFINE f == [i \in 1..((a - 1) - a + 1) |-> Counted(a + i - 1, K)]
<1>1. (a - 1) - a + 1 = 0
  OBVIOUS
<1>2. f = <<>>
  BY <1>1
<1> HIDE DEF f
<1>3. Span(a, a - 1, K) = Concat(f)
  BY Zenon DEF Span, f
<1> QED
  BY <1>2, <1>3, ConcatNone, Zenon

\* The pages of a span, as a sequence.
LEMMA SpanPages ==
  ASSUME NEW a \in Nat, a >= 1, NEW b \in Nat, b <= SetLen, b >= a - 1, NEW K
  PROVE  [i \in 1..(b - a + 1) |-> Counted(a + i - 1, K)] \in Seq(Seq(Nat))
<1>1. b - a + 1 \in Nat
  OBVIOUS
<1>2. \A i \in 1..(b - a + 1) : a + i - 1 \in 1..SetLen
  BY SetFacts
<1>3. \A i \in 1..(b - a + 1) : Counted(a + i - 1, K) \in Seq(Nat)
  BY <1>2, SetFacts, Zenon
<1> DEFINE n == b - a + 1
           c(i) == Counted(a + i - 1, K)
<1>4. n \in Nat /\ \A i \in 1..n : c(i) \in Seq(Nat)
  BY <1>1, <1>3, Zenon
<1> HIDE DEF n, c
<1>5. [i \in 1..n |-> c(i)] \in Seq(Seq(Nat))
  BY <1>4
<1> QED
  BY <1>5, Zenon DEF n, c

\* A span is a sequence of rows.
LEMMA SpanType ==
  ASSUME NEW a \in Nat, a >= 1, NEW b \in Nat, b <= SetLen, b >= a - 1, NEW K
  PROVE  Span(a, b, K) \in Seq(Nat)
BY SpanPages, ConcatType, Zenon DEF Span

\* A span grows by the rows of its next page.
LEMMA SpanMore ==
  ASSUME NEW a \in Nat, a >= 1, NEW b \in Nat, b < SetLen, b >= a - 1, NEW K
  PROVE  Span(a, b + 1, K) = Span(a, b, K) \o Counted(b + 1, K)
<1> DEFINE n == b - a + 1
           c(i) == Counted(a + i - 1, K)
           f == [i \in 1..n |-> c(i)]
<1>1. /\ b + 1 \in 1..SetLen /\ b + 1 \in Nat /\ b <= SetLen /\ (b + 1) - a + 1 = n + 1
      /\ a + (n + 1) - 1 = b + 1 /\ n \in Nat
      /\ \A i \in 1..(n + 1) : a + i - 1 \in 1..SetLen
  BY SetFacts
<1>2. f \in Seq(Seq(Nat))
  BY <1>1, SpanPages, Zenon
<1>3. Counted(b + 1, K) \in Seq(Nat)
  BY <1>1, SetFacts, Zenon
<1>4. \A i \in 1..(n + 1) : c(i) \in Seq(Nat)
  BY <1>1, SetFacts, Zenon
<1> HIDE DEF n, c
<1>5. [i \in 1..(n + 1) |-> c(i)] = Append(f, c(n + 1))
  BY <1>1, <1>4
<1>6. c(n + 1) = Counted(b + 1, K)
  BY <1>1, Zenon DEF c
<1>7. Span(a, b + 1, K) = Concat([i \in 1..(n + 1) |-> c(i)])
  BY <1>1, Zenon DEF Span, c
<1>8. Span(a, b, K) = Concat(f)
  BY Zenon DEF Span, f, n, c
<1> HIDE DEF f
<1> QED
  BY <1>2, <1>3, <1>5, <1>6, <1>7, <1>8, ConcatMore, Zenon

\* Only the pages of the span matter.
LEMMA SpanSame ==
  ASSUME NEW a \in Nat, NEW b \in Nat, NEW K, NEW L, \A p \in a..b : p \in K <=> p \in L
  PROVE  Span(a, b, K) = Span(a, b, L)
<1>1. \A i \in 1..(b - a + 1) : a + i - 1 \in a..b
  OBVIOUS
<1>2. \A i \in 1..(b - a + 1) : Counted(a + i - 1, K) = Counted(a + i - 1, L)
  BY <1>1, Zenon DEF Counted
<1> QED
  BY <1>2, Zenon DEF Span

\* Pages whose rows could not be built add nothing.
LEMMA SpanSkip ==
  ASSUME NEW a \in Nat, a >= 1, NEW b \in Nat, b >= a - 1, NEW c \in Nat, b <= c, c <= SetLen,
         NEW K, \A p \in (b + 1)..c : p \in K
  PROVE  Span(a, c, K) = Span(a, b, K)
<1> DEFINE T == {n \in Nat : b <= n /\ n <= c /\ Span(a, n, K) # Span(a, b, K)}
<1> HIDE DEF T
<1>1. ASSUME T # {} PROVE FALSE
  <2>1. T \subseteq Nat
    BY DEF T
  <2>2. PICK n \in T : \A m \in T : ~(m < n)
    BY <1>1, <2>1, Least, Zenon
  <2>3. n \in Nat /\ b <= n /\ n <= c /\ Span(a, n, K) # Span(a, b, K)
    BY <2>2, Zenon DEF T
  <2>4. n # b
    BY <2>3, Zenon
  <2>5. /\ n - 1 \in Nat /\ b <= n - 1 /\ n - 1 <= c /\ n - 1 < n /\ n - 1 < SetLen
        /\ n - 1 >= a - 1 /\ (n - 1) + 1 = n /\ n \in (b + 1)..c
    <3>1. n \in Nat /\ b <= n /\ n <= c /\ n # b
      BY <2>3, <2>4, Zenon
    <3> QED
      BY <3>1, SetFacts
  <2>6. Span(a, n - 1, K) = Span(a, b, K)
    BY <2>2, <2>5, Zenon DEF T
  <2>7. Span(a, n, K) = Span(a, n - 1, K) \o Counted(n, K)
    <3>1. n - 1 \in Nat /\ n - 1 < SetLen /\ n - 1 >= a - 1
      BY <2>5, Zenon
    <3>2. Span(a, (n - 1) + 1, K) = Span(a, n - 1, K) \o Counted((n - 1) + 1, K)
      BY <3>1, SpanMore, Zenon
    <3> QED
      BY <2>5, <3>2, Zenon
  <2>8. Counted(n, K) = <<>>
    BY <2>5, Zenon DEF Counted
  <2>9. Span(a, n - 1, K) \in Seq(Nat)
    <3>1. n - 1 <= SetLen
      BY <2>5, SetFacts
    <3> QED
      BY <2>5, <3>1, SpanType, Zenon
  <2>10. Span(a, n, K) = Span(a, n - 1, K)
    BY <2>7, <2>8, <2>9, NoMore, Zenon
  <2> QED
    BY <2>3, <2>6, <2>10, Zenon
<1>2. c <= c
  OBVIOUS
<1> QED
  BY <1>1, <1>2, Zenon DEF T

-----------------------------------------------------------------------------
(* The legacy ResultSet: the invariant. *)

SetTypes ==
  /\ mode \in {"NotStarted", "Iterating", "List"} /\ position \in Nat /\ current \in Seq(Nat)
  /\ received \in 1..SetLen /\ request \in {"none", "pending", "ok", "failed"}
  /\ op \in {"none", "next", "all", "list", "fetch"} /\ list \in Seq(Nat)
  /\ start \in 1..(SetLen + 1) /\ shown \in 1..(SetLen + 1) /\ start <= shown
  /\ yielded \in Seq(Nat) /\ skipped \subseteq 1..received

\* The set shows a page the future received. Of those it received later, the rows
\* could not be built, but for one that the reader has yet to take.
Skips ==
  /\ shown \notin skipped
  /\ shown = SetLen + 1 => received = SetLen /\ request = "none"
  /\ shown # SetLen + 1 => shown <= received
  /\ request = "ok" => shown < received /\ received \notin skipped
  /\ request = "pending" => received < SetLen
  /\ \A p \in 1..received : shown < p /\ (p = received => request # "ok") => p \in skipped

\* What a call is doing; a drain has listed what it yielded.
Reader ==
  /\ op = "none" => request = "none"
  /\ op \in {"next", "all", "list"} => mode = "Iterating"
  /\ op \in {"next", "all", "list"} /\ request # "none" => position >= Len(current)
  /\ IF op \in {"all", "list"} THEN list = yielded ELSE list = <<>>
  /\ mode = "List" => op = "none" /\ received = SetLen

\* The rows of the page a set shows.
Page(p) == IF p \in 1..SetLen THEN SetPages[p] ELSE <<>>

Yields ==
  IF mode = "List"
    THEN current = Span(start, SetLen, skipped)
    ELSE /\ current = Page(shown) /\ position <= Len(current)
         /\ yielded = Span(start, shown - 1, skipped) \o SubSeq(current, 1, position)

SetInv == SetTypes /\ Skips /\ Reader /\ Yields

-----------------------------------------------------------------------------

\* Prefixes of the rows of a page.
LEMMA NoRows ==
  ASSUME NEW s \in Seq(Nat)
  PROVE  SubSeq(s, 1, 0) = <<>> /\ SubSeq(s, 1, Len(s)) = s /\ Len(s) \in Nat
OBVIOUS

\* A row is put at the end.
LEMMA PutRow ==
  ASSUME NEW s \in Seq(Nat), NEW t \in Seq(Nat), NEW x \in Nat
  PROVE  Append(s \o t, x) = s \o Append(t, x)
<1>1. s \o t \in Seq(Nat) /\ <<x>> \in Seq(Nat)
  OBVIOUS
<1>2. \A u \in Seq(Nat) : Append(u, x) = u \o <<x>>
  OBVIOUS
<1>3. Append(s \o t, x) = (s \o t) \o <<x>> /\ Append(t, x) = t \o <<x>>
  BY <1>1, <1>2, Zenon
<1>4. \A u \in Seq(Nat) : (s \o t) \o u = s \o (t \o u)
  OBVIOUS
<1>5. (s \o t) \o <<x>> = s \o (t \o <<x>>)
  BY <1>1, <1>4, Zenon
<1> QED
  BY <1>3, <1>5, Zenon

\* The empty sequence.
LEMMA Nothing == <<>> \o <<>> = <<>> /\ <<>> \in Seq(Nat) /\ Len(<<>>) = 0
OBVIOUS

\* Reading starts, or starts again, at the first row of the page shown.
LEMMA YieldsAnew ==
  ASSUME NEW c \in Seq(Nat), NEW p \in Nat, NEW K
  PROVE  Span(p, p - 1, K) \o SubSeq(c, 1, 0) = <<>>
BY NoRows, SpanNone, Nothing, Zenon

\* A ResultSet of a first page satisfies the invariant.
LEMMA SetStart == SetInit => SetInv
<1> SUFFICES ASSUME SetInit PROVE SetInv
  OBVIOUS
<1>0. SetLen \in Nat /\ SetLen >= 1 /\ SetPages[1] \in Seq(Nat) /\ 1 \in 1..SetLen
  BY SetFacts
<1>1. /\ mode = "NotStarted" /\ position = 0 /\ current = SetPages[1] /\ received = 1
      /\ request = "none" /\ op = "none" /\ list = <<>>
      /\ start = 1 /\ shown = 1 /\ yielded = <<>> /\ skipped = {}
  BY Zenon DEF SetInit
<1>2. SetTypes
  BY <1>0, <1>1 DEF SetTypes
<1>3. Skips
  BY <1>0, <1>1 DEF Skips
<1>4. Reader
  BY <1>1 DEF Reader
<1>5. Yields
  <2>1. current = Page(shown) /\ mode # "List"
    BY <1>0, <1>1 DEF Page
  <2>2. Span(1, 1 - 1, skipped) \o SubSeq(current, 1, 0) = <<>>
    <3>1. 1 \in Nat /\ current \in Seq(Nat)
      BY <1>0, <1>1
    <3> QED
      BY <3>1, YieldsAnew, Zenon
  <2>3. position <= Len(current)
    BY <1>0, <1>1
  <2> QED
    BY <1>1, <2>1, <2>2, <2>3, Zenon DEF Yields
<1> QED
  BY <1>2, <1>3, <1>4, <1>5, Zenon DEF SetInv

\* At the end of its page, with nothing but skipped pages up to c, the set has
\* yielded the rows up to c.
LEMMA AtEnd ==
  ASSUME SetInv, mode # "List", position >= Len(current), NEW c \in Nat, c <= SetLen,
         \A p \in (shown + 1)..c : p \in skipped,
         shown <= c \/ (shown = SetLen + 1 /\ c = SetLen)
  PROVE  yielded = Span(start, c, skipped)
<1>0. SetTypes /\ Skips /\ Yields
  BY Zenon DEF SetInv
<1>a. /\ shown \in 1..(SetLen + 1) /\ start \in 1..(SetLen + 1) /\ start <= shown /\ current \in Seq(Nat)
      /\ position \in Nat /\ SetLen \in Nat
  BY <1>0, SetFacts, Zenon DEF SetTypes
<1>b. /\ current = Page(shown) /\ position <= Len(current)
      /\ yielded = Span(start, shown - 1, skipped) \o SubSeq(current, 1, position)
  BY <1>0, Zenon DEF Yields
<1>1. SubSeq(current, 1, position) = current
  <2>1. position = Len(current)
    <3>1. Len(current) \in Nat /\ position \in Nat /\ position <= Len(current) /\ position >= Len(current)
      BY <1>a, <1>b, NoRows, Zenon
    <3> QED
      BY <3>1
  <2> QED
    BY <1>a, <2>1, NoRows, Zenon
<1>2. yielded = Span(start, shown - 1, skipped) \o current
  BY <1>b, <1>1, Zenon
<1>3. CASE shown <= c
  <2>1. /\ start \in Nat /\ start >= 1 /\ shown - 1 \in Nat /\ shown - 1 < SetLen
        /\ shown - 1 >= start - 1
        /\ shown \in Nat /\ shown \in 1..SetLen /\ shown >= start - 1
    BY <1>3, <1>a
  <2>2. Span(start, (shown - 1) + 1, skipped)
          = Span(start, shown - 1, skipped) \o Counted((shown - 1) + 1, skipped)
    <3>1. start \in Nat /\ start >= 1 /\ shown - 1 \in Nat
      BY <2>1, Zenon
    <3>2. shown - 1 < SetLen /\ shown - 1 >= start - 1
      BY <2>1, Zenon
    <3> QED
      BY <3>1, <3>2, SpanMore, Zenon
  <2>3. (shown - 1) + 1 = shown
    BY <1>a
  <2>4. Counted(shown, skipped) = current
    BY <1>0, <1>b, <2>1, Zenon DEF Counted, Page, Skips
  <2>5. yielded = Span(start, shown, skipped)
    BY <1>2, <2>2, <2>3, <2>4, Zenon
  <2>6. Span(start, c, skipped) = Span(start, shown, skipped)
    <3>1. start \in Nat /\ start >= 1 /\ shown \in Nat /\ shown >= start - 1
      BY <2>1, Zenon
    <3> QED
      BY <1>3, <3>1, SpanSkip
  <2> QED
    BY <2>5, <2>6, Zenon
<1>4. CASE shown = SetLen + 1 /\ c = SetLen
  <2>1. /\ start \in Nat /\ start >= 1 /\ c >= start - 1 /\ shown - 1 = c /\ shown \notin 1..SetLen
    BY <1>4, <1>a
  <2>2. Span(start, c, skipped) \in Seq(Nat)
    BY <2>1, SpanType, Zenon
  <2>3. current = <<>>
    BY <1>b, <2>1, Zenon DEF Page
  <2> QED
    BY <1>2, <2>1, <2>2, <2>3, NoMore, Zenon
<1> QED
  BY <1>3, <1>4, Zenon

-----------------------------------------------------------------------------

\* __iter__, all() and the calls that drain into a list start the page again.
LEMMA RestartStep ==
  ASSUME SetInv, Iter \/ CallAll \/ CallList
  PROVE  SetInv'
<1>0. SetTypes /\ Skips /\ Reader /\ Yields
  BY Zenon DEF SetInv
<1>1. /\ mode # "List" /\ op = "none" /\ Restart
      /\ current' = current /\ received' = received /\ request' = request
      /\ list' = list /\ shown' = shown /\ skipped' = skipped
      /\ op' \in {"none", "all", "list"}
  BY DEF Iter, CallAll, CallList, Idle, futureVars
<1>2. mode' = "Iterating" /\ position' = 0 /\ start' = shown /\ yielded' = <<>>
  BY <1>1, Zenon DEF Restart
<1>3. /\ shown \in 1..(SetLen + 1) /\ current \in Seq(Nat) /\ SetLen \in Nat
      /\ request = "none" /\ list = <<>>
  BY <1>0, <1>1, SetFacts DEF SetTypes, Reader
<1>4. SetTypes'
  BY <1>0, <1>1, <1>2, <1>3 DEF SetTypes
<1>5. Skips'
  BY <1>0, <1>1, Zenon DEF Skips
<1>6. Reader'
  BY <1>1, <1>2, <1>3 DEF Reader
<1>7. Yields'
  <2>1. current = Page(shown)
    BY <1>0, <1>1, Zenon DEF Yields
  <2>2. shown \in Nat /\ 0 <= Len(current)
    BY <1>3
  <2>3. Span(shown, shown - 1, skipped) \o SubSeq(current, 1, 0) = <<>>
    BY <1>3, <2>2, YieldsAnew, Zenon
  <2>4. "Iterating" # "List"
    OBVIOUS
  <2> QED
    BY <1>1, <1>2, <2>1, <2>2, <2>3, <2>4, Zenon DEF Yields, Page
<1> QED
  BY <1>4, <1>5, <1>6, <1>7, Zenon DEF SetInv

\* Steps that leave the rows and the pages alone.
LEMMA QuietStep ==
  ASSUME SetInv, CallNext \/ StepFetch
  PROVE  SetInv'
<1>0. SetTypes /\ Skips /\ Reader /\ Yields
  BY Zenon DEF SetInv
<1>1. /\ position' = position /\ current' = current /\ received' = received /\ list' = list
      /\ start' = start /\ shown' = shown /\ yielded' = yielded /\ skipped' = skipped
      /\ mode # "List" /\ mode' # "List"
  <2>1. CASE CallNext
    BY <2>1 DEF CallNext, futureVars
  <2>2. CASE StepFetch
    BY <1>0, <2>2 DEF StepFetch, Reader
  <2> QED
    BY <2>1, <2>2, Zenon
<1>2. Yields'
  BY <1>0, <1>1, Zenon DEF Yields, Page
<1>3. CASE CallNext
  <2>1. mode' = "Iterating" /\ op = "none" /\ op' = "next" /\ request' = request /\ request = "none"
    BY <1>0, <1>3, Zenon DEF CallNext, Idle, Reader, futureVars
  <2>2. SetTypes'
    BY <1>0, <1>1, <2>1 DEF SetTypes
  <2>3. Skips'
    BY <1>0, <1>1, <2>1, Zenon DEF Skips
  <2>4. Reader'
    BY <1>0, <1>1, <2>1 DEF Reader
  <2> QED
    BY <1>2, <2>2, <2>3, <2>4, Zenon DEF SetInv
<1>4. CASE StepFetch
  <2>1. /\ op \in {"next", "all", "list"} /\ request = "none" /\ position >= Len(current)
        /\ received < SetLen /\ request' = "pending" /\ mode' = mode /\ op' = op
    BY <1>4, Zenon DEF StepFetch, HasMore
  <2>2. SetTypes'
    BY <1>0, <1>1, <2>1 DEF SetTypes
  <2>3. Skips'
    <3>1. SetLen \in Nat /\ received \in 1..SetLen
      BY <1>0, SetFacts, Zenon DEF SetTypes
    <3>2. received # SetLen
      BY <2>1, <3>1
    <3> QED
      BY <1>0, <1>1, <2>1, <3>2 DEF Skips
  <2>4. Reader'
    BY <1>0, <1>1, <2>1 DEF Reader
  <2> QED
    BY <1>2, <2>2, <2>3, <2>4, Zenon DEF SetInv
<1> QED
  BY <1>3, <1>4, Zenon

\* fetch_next_page asks for a page, or clears the rows when there is none.
LEMMA CallFetchStep ==
  ASSUME SetInv, CallFetch
  PROVE  SetInv'
<1>0. SetTypes /\ Skips /\ Reader /\ Yields
  BY Zenon DEF SetInv
<1>1. op = "none" /\ request = "none" /\ mode' = mode /\ list' = list /\ skipped' = skipped /\ list = <<>>
  BY <1>0 DEF CallFetch, Idle, Reader
<1>a. SetLen \in Nat /\ received \in 1..SetLen /\ shown \in 1..(SetLen + 1) /\ skipped \subseteq 1..received
  BY <1>0, SetFacts, Zenon DEF SetTypes
<1>2. CASE HasMore
  <2>1. /\ op' = "fetch" /\ request' = "pending" /\ received < SetLen
        /\ UNCHANGED <<position, current, received, start, shown, yielded>>
    BY <1>2, Zenon DEF CallFetch, HasMore
  <2>2. received # SetLen
    BY <1>a, <2>1
  <2>3. SetTypes'
    BY <1>0, <1>1, <2>1 DEF SetTypes
  <2>4. Skips'
    BY <1>0, <1>1, <2>1, <2>2 DEF Skips
  <2>5. Reader'
    BY <1>0, <1>1, <2>1, <2>2 DEF Reader
  <2>6. Yields'
    BY <1>0, <1>1, <2>1, Zenon DEF Yields, Page
  <2> QED
    BY <2>3, <2>4, <2>5, <2>6, Zenon DEF SetInv
<1>3. CASE ~HasMore
  <2>1. /\ current' = <<>> /\ position' = 0 /\ shown' = SetLen + 1 /\ start' = SetLen + 1
        /\ yielded' = <<>> /\ op' = op /\ received' = received /\ request' = request
    BY <1>3, Zenon DEF CallFetch, futureVars
  <2>2. received = SetLen
    BY <1>3, <1>a DEF HasMore
  <2>3. SetTypes'
    BY <1>0, <1>1, <1>a, <2>1 DEF SetTypes
  <2>4. Skips'
    BY <1>0, <1>1, <1>a, <2>1, <2>2 DEF Skips
  <2>5. Reader'
    BY <1>0, <1>1, <2>1, <2>2 DEF Reader
  <2>6. Yields'
    <3>1. /\ SetLen + 1 \in Nat /\ (SetLen + 1) - 1 = SetLen /\ SetLen + 1 \notin 1..SetLen
          /\ 0 <= Len(<<>>)
      BY <1>a
    <3>2. Span(SetLen + 1, (SetLen + 1) - 1, skipped) = <<>>
      BY <3>1, SpanNone, Zenon
    <3>3. Span(SetLen + 1, (SetLen + 1) - 1, skipped) \o SubSeq(<<>>, 1, 0) = <<>>
      BY <3>1, Nothing, YieldsAnew, Zenon
    <3>4. Page(SetLen + 1) = <<>>
      BY <3>1, Zenon DEF Page
    <3> QED
      BY <1>1, <2>1, <3>1, <3>2, <3>3, <3>4, Zenon DEF Yields, Page
  <2> QED
    BY <2>3, <2>4, <2>5, <2>6, Zenon DEF SetInv
<1> QED
  BY <1>2, <1>3, Zenon

\* step yields a row of the page.
LEMMA StepRowStep ==
  ASSUME SetInv, StepRow
  PROVE  SetInv'
<1>0. SetTypes /\ Skips /\ Reader /\ Yields
  BY Zenon DEF SetInv
<1>1. /\ op \in {"next", "all", "list"} /\ request = "none" /\ position < Len(current)
      /\ position' = position + 1 /\ yielded' = Append(yielded, current[position + 1])
      /\ mode' = mode /\ current' = current /\ received' = received /\ request' = request
      /\ start' = start /\ shown' = shown /\ skipped' = skipped
  BY Zenon DEF StepRow, futureVars
<1>2. /\ position \in Nat /\ current \in Seq(Nat) /\ yielded \in Seq(Nat) /\ list \in Seq(Nat)
      /\ SetLen \in Nat /\ start \in 1..(SetLen + 1) /\ shown \in 1..(SetLen + 1) /\ start <= shown
  BY <1>0, SetFacts, Zenon DEF SetTypes
<1>3. /\ current[position + 1] \in Nat /\ position + 1 <= Len(current) /\ position + 1 \in Nat
      /\ position \in 0..Len(current)
  <2>1. position < Len(current)
    BY <1>1, Zenon
  <2> QED
    BY <1>2, <2>1
<1>4. mode = "Iterating"
  BY <1>0, <1>1, Zenon DEF Reader
<1>5. \/ op = "next" /\ op' = "none" /\ list' = <<>>
      \/ op # "next" /\ op' = op /\ list' = Append(list, current[position + 1])
  BY Zenon DEF StepRow, Return
<1>6. SetTypes'
  <2>1. yielded' \in Seq(Nat) /\ list' \in Seq(Nat) /\ position' \in Nat
    <3> DEFINE x == current[position + 1]
    <3>1. x \in Nat
      BY <1>3, Zenon
    <3> HIDE DEF x
    <3>2. Append(yielded, x) \in Seq(Nat) /\ Append(list, x) \in Seq(Nat) /\ <<>> \in Seq(Nat)
      BY <1>2, <3>1
    <3> QED
      BY <1>1, <1>3, <1>5, <3>2, Zenon DEF x
  <2>2. op' \in {"none", "next", "all", "list", "fetch"}
    BY <1>1, <1>5
  <2> QED
    BY <1>0, <1>1, <2>1, <2>2, Zenon DEF SetTypes
<1>7. Skips'
  BY <1>0, <1>1, Zenon DEF Skips
<1>8. Reader'
  <2>1. op = "next" \/ (op \in {"all", "list"} /\ list = yielded)
    BY <1>0, <1>1 DEF Reader
  <2>2. CASE op = "next"
    BY <1>1, <1>4, <1>5, <2>2 DEF Reader
  <2>3. CASE op # "next"
    <3>1. op' = op /\ list' = yielded' /\ op \in {"all", "list"}
      BY <1>1, <1>5, <2>1, <2>3, Zenon
    <3> QED
      BY <1>1, <1>4, <3>1 DEF Reader
  <2> QED
    BY <2>2, <2>3, Zenon
<1>9. Yields'
  <2>1. /\ current = Page(shown)
        /\ yielded = Span(start, shown - 1, skipped) \o SubSeq(current, 1, position)
        /\ mode # "List"
    BY <1>0, <1>4 DEF Yields
  <2>2. /\ SubSeq(current, 1, position + 1) = Append(SubSeq(current, 1, position), current[position + 1])
        /\ SubSeq(current, 1, position) \in Seq(Nat)
    BY <1>1, <1>2, <1>3, SubAll, Zenon
  <2>3. Span(start, shown - 1, skipped) \in Seq(Nat)
    <3>1. start \in Nat /\ start >= 1 /\ shown - 1 \in Nat /\ shown - 1 <= SetLen /\ shown - 1 >= start - 1
      BY <1>2
    <3> QED
      BY <3>1, SpanType, Zenon
  <2>4. yielded' = Span(start, shown - 1, skipped) \o SubSeq(current, 1, position + 1)
    <3>1. /\ Span(start, shown - 1, skipped) \in Seq(Nat) /\ SubSeq(current, 1, position) \in Seq(Nat)
          /\ current[position + 1] \in Nat
      BY <1>3, <2>2, <2>3, Zenon
    <3>2. Append(Span(start, shown - 1, skipped) \o SubSeq(current, 1, position), current[position + 1])
            = Span(start, shown - 1, skipped) \o Append(SubSeq(current, 1, position), current[position + 1])
      BY <3>1, PutRow, Zenon
    <3> QED
      BY <1>1, <2>1, <2>2, <3>2, Zenon
  <2> QED
    BY <1>1, <1>3, <2>1, <2>4, Zenon DEF Yields, Page
<1> QED
  BY <1>6, <1>7, <1>8, <1>9, Zenon DEF SetInv

\* step at the end of the last page: the rows are cleared, or the list becomes them.
LEMMA StepEndStep ==
  ASSUME SetInv, StepEnd
  PROVE  SetInv'
<1>0. SetTypes /\ Skips /\ Reader /\ Yields
  BY Zenon DEF SetInv
<1>1. /\ op \in {"next", "all", "list"} /\ request = "none" /\ position >= Len(current) /\ ~HasMore
      /\ received' = received /\ request' = request /\ start' = start /\ yielded' = yielded
      /\ skipped' = skipped /\ op' = "none" /\ list' = <<>>
  BY Zenon DEF StepEnd, Return, futureVars
<1>2. /\ SetLen \in Nat /\ received \in 1..SetLen /\ shown \in 1..(SetLen + 1) /\ list \in Seq(Nat)
      /\ start \in 1..(SetLen + 1) /\ start <= shown /\ skipped \subseteq 1..received
  BY <1>0, SetFacts, Zenon DEF SetTypes
<1>3. received = SetLen
  BY <1>1, <1>2 DEF HasMore
<1>4. mode = "Iterating" /\ (op = "list" => list = yielded)
  BY <1>0, <1>1 DEF Reader
<1>5. yielded = Span(start, SetLen, skipped)
  <2>1. shown <= SetLen \/ shown = SetLen + 1
    BY <1>2
  <2>2. ASSUME NEW p \in (shown + 1)..SetLen PROVE p \in skipped
    <3>1. p \in 1..received /\ shown < p
      BY <1>2, <1>3, <2>2
    <3>2. request # "ok"
      BY <1>1
    <3> QED
      BY <1>0, <3>1, <3>2, Zenon DEF Skips
  <2>3. SetLen <= SetLen /\ mode # "List"
    BY <1>2, <1>4
  <2> QED
    BY <1>1, <1>2, <2>1, <2>2, <2>3, AtEnd, Zenon
<1>6. CASE op = "list"
  <2>1. mode' = "List" /\ current' = list /\ position' = position /\ shown' = shown
    BY <1>6, Zenon DEF StepEnd
  <2>2. SetTypes'
    BY <1>0, <1>1, <2>1 DEF SetTypes
  <2>3. Skips'
    BY <1>0, <1>1, <2>1, Zenon DEF Skips
  <2>4. Reader'
    BY <1>0, <1>1, <1>3, <2>1 DEF Reader
  <2>5. Yields'
    BY <1>1, <1>4, <1>5, <1>6, <2>1, Zenon DEF Yields
  <2> QED
    BY <2>2, <2>3, <2>4, <2>5, Zenon DEF SetInv
<1>7. CASE op # "list"
  <2>1. current' = <<>> /\ mode' = "Iterating" /\ position' = 0 /\ shown' = SetLen + 1
    BY <1>7, Zenon DEF StepEnd, StartPage
  <2>2. SetTypes'
    BY <1>0, <1>1, <1>2, <2>1 DEF SetTypes
  <2>3. Skips'
    BY <1>0, <1>1, <1>2, <1>3, <2>1 DEF Skips
  <2>4. Reader'
    BY <1>1, <2>1 DEF Reader
  <2>5. Yields'
    <3>1. (SetLen + 1) - 1 = SetLen /\ SetLen + 1 \notin 1..SetLen /\ 0 <= Len(<<>>)
      BY <1>2
    <3>2. yielded \in Seq(Nat)
      BY <1>0, Zenon DEF SetTypes
    <3>3. yielded = Span(start, SetLen, skipped) \o SubSeq(<<>>, 1, 0)
      BY <1>5, <3>2, Nothing, NoRows, NoMore, Zenon
    <3>4. Page(SetLen + 1) = <<>> /\ "Iterating" # "List"
      BY <3>1 DEF Page
    <3> QED
      BY <1>1, <2>1, <3>1, <3>3, <3>4, Zenon DEF Yields, Page
  <2> QED
    BY <2>2, <2>3, <2>4, <2>5, Zenon DEF SetInv
<1> QED
  BY <1>6, <1>7, Zenon

\* The request of the reader completes.
LEMMA CompleteStep ==
  ASSUME SetInv, Complete
  PROVE  SetInv'
<1>0. SetTypes /\ Skips /\ Reader /\ Yields
  BY Zenon DEF SetInv
<1>1. /\ request = "pending" /\ mode' = mode /\ position' = position /\ current' = current /\ op' = op
      /\ list' = list /\ start' = start /\ shown' = shown /\ yielded' = yielded /\ skipped' = skipped
  BY Zenon DEF Complete
<1>2. \/ request' = "ok" /\ received' = received + 1
      \/ request' = "failed" /\ received' = received
  BY Zenon DEF Complete
<1>3. /\ SetLen \in Nat /\ received \in 1..SetLen /\ shown \in 1..(SetLen + 1)
      /\ skipped \subseteq 1..received
  BY <1>0, SetFacts, Zenon DEF SetTypes
<1>4. received < SetLen /\ shown # SetLen + 1 /\ shown <= received /\ op # "none" /\ mode # "List"
      /\ \A p \in 1..received : shown < p => p \in skipped
  BY <1>0, <1>1 DEF Skips, Reader
<1>5. SetTypes'
  <2>1. /\ received' \in 1..SetLen /\ skipped \subseteq 1..received'
        /\ request' \in {"none", "pending", "ok", "failed"}
    BY <1>2, <1>3, <1>4
  <2> QED
    BY <1>0, <1>1, <2>1, Zenon DEF SetTypes
<1>6. Skips'
  <2>1. CASE request' = "failed" /\ received' = received
    BY <1>0, <1>1, <1>4, <2>1 DEF Skips
  <2>2. CASE request' = "ok" /\ received' = received + 1
    <3>1. /\ shown < received + 1 /\ received + 1 \notin skipped /\ shown <= received + 1
          /\ \A p \in 1..(received + 1) : p = received + 1 \/ p \in 1..received
      BY <1>3, <1>4
    <3> QED
      BY <1>0, <1>1, <1>4, <2>2, <3>1 DEF Skips
  <2> QED
    BY <1>2, <2>1, <2>2, Zenon
<1>7. Reader'
  BY <1>0, <1>1, <1>4 DEF Reader
<1>8. Yields'
  BY <1>0, <1>1, Zenon DEF Yields, Page
<1> QED
  BY <1>5, <1>6, <1>7, <1>8, Zenon DEF SetInv

\* The rows of the page that arrived replace those of the last one.
LEMMA ContinueStep ==
  ASSUME SetInv, Continue
  PROVE  SetInv'
<1>0. SetTypes /\ Skips /\ Reader /\ Yields
  BY Zenon DEF SetInv
<1>1. /\ request = "ok" /\ request' = "none" /\ received' = received /\ skipped' = skipped
      /\ current' = SetPages[received] /\ position' = 0 /\ shown' = received
  BY Zenon DEF Continue, StartPage
<1>2. /\ SetLen \in Nat /\ received \in 1..SetLen /\ shown \in 1..(SetLen + 1) /\ start \in 1..(SetLen + 1)
      /\ start <= shown /\ skipped \subseteq 1..received /\ yielded \in Seq(Nat)
      /\ SetPages[received] \in Seq(Nat)
  BY <1>0, SetFacts, Zenon DEF SetTypes
<1>3. /\ shown < received /\ received \notin skipped /\ mode # "List" /\ op # "none"
      /\ \A p \in 1..received : shown < p /\ p # received => p \in skipped
  BY <1>0, <1>1 DEF Skips, Reader
<1>4. Skips'
  <2>1. received # SetLen + 1 /\ received <= received /\ \A p \in 1..received : ~(received < p)
    BY <1>2
  <2> QED
    BY <1>1, <1>3, <2>1 DEF Skips
<1>a. current' = Page(shown') /\ 0 <= Len(current')
  <2>1. current' \in Seq(Nat)
    BY <1>1, <1>2, Zenon
  <2>2. 0 <= Len(current')
    BY <2>1
  <2> QED
    BY <1>1, <1>2, <2>2, Zenon DEF Page
<1>5. CASE op = "fetch"
  <2>1. start' = received /\ yielded' = <<>> /\ op' = "none" /\ list' = <<>> /\ mode' = mode
    BY <1>5, Zenon DEF Continue, Return
  <2>2. SetTypes'
    BY <1>0, <1>1, <1>2, <2>1 DEF SetTypes
  <2>3. Reader'
    BY <1>1, <1>3, <2>1 DEF Reader
  <2>4. Yields'
    <3>1. received \in Nat /\ received - 1 \in Int
      BY <1>2
    <3>2. Span(received, received - 1, skipped) \o SubSeq(SetPages[received], 1, 0) = <<>>
      BY <1>2, <3>1, YieldsAnew, Zenon
    <3> QED
      BY <1>1, <1>3, <1>a, <2>1, <3>2, Zenon DEF Yields, Page
  <2> QED
    BY <1>4, <2>2, <2>3, <2>4, Zenon DEF SetInv
<1>6. CASE op # "fetch"
  <2>1. /\ mode' = "Iterating" /\ op' = op /\ list' = list /\ start' = start /\ yielded' = yielded
        /\ op \in {"next", "all", "list"}
    <3>1. op \in {"none", "next", "all", "list", "fetch"}
      BY <1>0, Zenon DEF SetTypes
    <3>2. op \in {"next", "all", "list"}
      BY <1>3, <1>6, <3>1
    <3> QED
      BY <1>6, <3>2, Zenon DEF Continue, StartPage
  <2>2. SetTypes'
    BY <1>0, <1>1, <1>2, <1>3, <2>1 DEF SetTypes
  <2>3. Reader'
    BY <1>0, <1>1, <2>1 DEF Reader
  <2>4. Yields'
    <3>1. received - 1 \in Nat /\ received - 1 <= SetLen /\ shown <= received - 1
      BY <1>2, <1>3
    <3>2. ASSUME NEW p \in (shown + 1)..(received - 1) PROVE p \in skipped
      <4>1. p \in 1..received /\ shown < p /\ p # received
        BY <1>2, <3>2
      <4> QED
        BY <1>3, <4>1, Zenon
    <3>3. position >= Len(current)
      BY <1>0, <1>1, <2>1 DEF Reader
    <3>4. yielded = Span(start, received - 1, skipped)
      BY <1>3, <3>1, <3>2, <3>3, AtEnd, Zenon
    <3>5. SubSeq(SetPages[received], 1, 0) = <<>>
      BY <1>2, NoRows, Zenon
    <3>6. yielded = Span(start, received - 1, skipped) \o SubSeq(SetPages[received], 1, 0)
      BY <1>2, <3>4, <3>5, NoMore, Zenon
    <3>7. "Iterating" # "List"
      OBVIOUS
    <3> QED
      BY <1>1, <1>a, <2>1, <3>6, <3>7, Zenon DEF Yields, Page
  <2> QED
    BY <1>4, <2>2, <2>3, <2>4, Zenon DEF SetInv
<1> QED
  BY <1>5, <1>6, Zenon

\* The call raises; a page whose rows could not be built is skipped from now on.
LEMMA RaiseStep ==
  ASSUME SetInv, Raise
  PROVE  SetInv'
<1>0. SetTypes /\ Skips /\ Reader /\ Yields
  BY Zenon DEF SetInv
<1>1. /\ request \in {"ok", "failed"} /\ request' = "none" /\ op' = "none" /\ list' = <<>>
      /\ skipped' = (IF request = "ok" THEN skipped \cup {received} ELSE skipped)
      /\ mode' = mode /\ position' = position /\ current' = current /\ received' = received
      /\ start' = start /\ shown' = shown /\ yielded' = yielded
  BY Zenon DEF Raise, Return
<1>2. /\ SetLen \in Nat /\ received \in 1..SetLen /\ shown \in 1..(SetLen + 1) /\ start \in 1..(SetLen + 1)
      /\ start <= shown /\ skipped \subseteq 1..received
  BY <1>0, SetFacts, Zenon DEF SetTypes
<1>3. /\ shown # SetLen + 1 /\ shown <= received /\ mode # "List" /\ shown \notin skipped
      /\ request = "ok" => shown < received
  BY <1>0, <1>1 DEF Skips, Reader
<1>4. SetTypes'
  <2>1. skipped' \subseteq 1..received
    BY <1>1, <1>2
  <2>2. <<>> \in Seq(Nat)
    OBVIOUS
  <2> QED
    BY <1>0, <1>1, <2>1, <2>2 DEF SetTypes
<1>5. Skips'
  <2>1. shown \notin skipped'
    <3>1. request = "ok" => shown # received
      BY <1>2, <1>3
    <3> QED
      BY <1>1, <1>3, <3>1, Zenon
  <2>2. \A p \in 1..received : shown < p => p \in skipped'
    BY <1>0, <1>1, Zenon DEF Skips
  <2> QED
    BY <1>1, <1>3, <2>1, <2>2 DEF Skips
<1>6. Reader'
  BY <1>1, <1>3 DEF Reader
<1>7. Yields'
  <2>1. /\ current = Page(shown) /\ position <= Len(current)
        /\ yielded = Span(start, shown - 1, skipped) \o SubSeq(current, 1, position)
    BY <1>0, <1>3, Zenon DEF Yields
  <2>2. start \in Nat /\ shown - 1 \in Nat
    BY <1>2
  <2>3. ASSUME NEW p \in start..(shown - 1) PROVE p \in skipped <=> p \in skipped'
    <3>1. request = "ok" => p # received
      BY <1>2, <1>3, <2>3
    <3> QED
      BY <1>1, <3>1, Zenon
  <2>4. Span(start, shown - 1, skipped) = Span(start, shown - 1, skipped')
    BY <2>2, <2>3, SpanSame, Zenon
  <2> QED
    BY <1>1, <1>3, <2>1, <2>4, Zenon DEF Yields, Page
<1> QED
  BY <1>4, <1>5, <1>6, <1>7, Zenon DEF SetInv

\* Every step keeps the invariant.
LEMMA SetStep == SetInv /\ [SetNext]_setVars => SetInv'
<1>1. ASSUME SetInv, UNCHANGED setVars PROVE SetInv'
  <2>1. /\ mode' = mode /\ position' = position /\ current' = current /\ received' = received
        /\ request' = request /\ op' = op /\ list' = list /\ start' = start /\ shown' = shown
        /\ yielded' = yielded /\ skipped' = skipped
    BY <1>1, Zenon DEF setVars, futureVars
  <2>2. SetTypes' /\ Skips'
    BY <1>1, <2>1, Zenon DEF SetInv, SetTypes, Skips
  <2>3. Reader' /\ Yields'
    BY <1>1, <2>1, Zenon DEF SetInv, Reader, Yields, Page
  <2> QED
    BY <2>2, <2>3, Zenon DEF SetInv
<1> QED
  BY <1>1, RestartStep, QuietStep, CallFetchStep, StepRowStep, StepEndStep, CompleteStep,
     ContinueStep,
     RaiseStep, Zenon DEF SetNext

\* The invariant gives what ResultSet promises.
LEMMA SetPromises == SetInv => ResultSetRows
<1>1. mode = "Iterating" => mode # "List"
  OBVIOUS
<1> QED
  BY <1>1, SpanIs, Zenon DEF SetInv, Yields, ResultSetRows

\* A ResultSet of any pages, in whatever order it is iterated, restarted, drained, paged by
\* hand and read after errors, yields the rows of the result in order and once from the
\* page it was started at, leaving out only pages whose rows raised; == and indexing work
\* on all of them (legacy/result_set.rs).
THEOREM ResultSetReads == SetSpec => []ResultSetRows
BY SetStart, SetStep, SetPromises, PTL DEF SetSpec

\* A result is read once, whole and in order through either interface: the iterators of
\* RequestResult and the legacy ResultSet.
THEOREM PagedOnce == ReadersSpec => []PagedReads
<1>1. RowsOnceInOrder /\ PagesOnce /\ ResultSetRows => PagedReads
  BY Zenon DEF PagedReads
<1> QED
  BY <1>1, PagingOnce, ResultSetReads, PTL DEF ReadersSpec
=============================================================================

---------------------------- MODULE ScraperProofs ----------------------------
(***************************************************************************)
(* Proofs about ScraperTool: one invariant of a target's run, whichever of *)
(* its awaits it is at and wherever the abort met it, and from it what is  *)
(* announced of a target, that its browser was asked to close, what a      *)
(* cancellation may record, and the contract the delegator relies on.      *)
(***************************************************************************)
EXTENDS ScraperTool, WellFoundedInduction, TLAPS

-----------------------------------------------------------------------------
\* The set of URLs: what the fold of Found computes, by the least number principle.

Kept(found, id) == IF id \in Range(found) THEN found ELSE Append(found, id)

\* The fold over the first n documents, as FoldLeft computes it.
Iter(items, documents, n, g) ==
  [s \in SUBSET (1..n) |->
     IF s = {} THEN items ELSE Kept(g[s \ {Max(s)}], documents[Max(s)])]

\* A set of numbers that is not empty has a least element.
LEMMA LeastExists ==
  ASSUME NEW T, T \subseteq Nat, T # {}
  PROVE  \E m \in T : \A t \in T : m <= t
  <1> DEFINE R == OpToRel(<, Nat)
  <1>1. IsWellFoundedOn(R, Nat)
    BY NatLessThanWellFounded
  <1>2. \A x, y \in Nat : x < y => <<x, y>> \in R
    BY DEF OpToRel
  <1> HIDE DEF R
  <1>3. PICK m \in T : \A t \in T : <<t, m>> \notin R
    BY <1>1, WFMin
  <1>4. \A t \in T : ~(t < m)
    BY <1>2, <1>3
  <1>5. \A t \in T : m <= t
    BY <1>4
  <1> QED
    BY <1>5

\* Found, with the fold of the community modules expanded, is a choice of Iter's.
LEMMA FoundIsIter ==
  ASSUME NEW items, NEW documents, NEW n, DOMAIN documents = 1..n
  PROVE  Found(items, documents) = (CHOOSE g : g = Iter(items, documents, n, g))[1..n]
  BY DEF Found, FoldLeft, MapThenFoldSet, Iter, Kept

\* Max() of a set is the element no other exceeds.
LEMMA MaxIs ==
  ASSUME NEW S \in SUBSET Int, NEW m \in S, \A t \in S : t <= m
  PROVE  Max(S) = m
  <1>1. \A x \in S : (\A t \in S : x >= t) => x = m
    OBVIOUS
  <1>2. \A t \in S : m >= t
    OBVIOUS
  <1> QED
    BY <1>1, <1>2 DEF Max

\* A set of positions that is not empty holds its Max().
LEMMA MaxIn ==
  ASSUME NEW n \in Nat, NEW s \in SUBSET (1..n), s # {}
  PROVE  Max(s) \in s
  <1> DEFINE T == {m \in 0..n : \A t \in s : t <= m}
  <1>1. T \subseteq Nat /\ n \in T
    OBVIOUS
  <1> HIDE DEF T
  <1>2. PICK m \in T : \A t \in T : m <= t
    BY <1>1, LeastExists
  <1>3. m \in 0..n /\ \A t \in s : t <= m
    BY <1>2 DEF T
  <1>4. m \in s
    <2>1. SUFFICES ASSUME m \notin s PROVE FALSE
      OBVIOUS
    <2>2. \A t \in s : t \in Int /\ t <= m - 1 /\ t >= 1
      BY <1>3, <2>1
    <2>3. m - 1 \in 0..n
      <3>1. PICK t \in s : TRUE
        OBVIOUS
      <3> QED
        BY <1>3, <2>2, <3>1
    <2>4. m - 1 \in T
      BY <2>2, <2>3 DEF T
    <2> QED
      BY <1>2, <1>3, <2>4
  <1>5. s \in SUBSET Int
    OBVIOUS
  <1> QED
    BY <1>3, <1>4, <1>5, MaxIs

\* The recursion of the fold has a solution, whatever the number of documents.
LEMMA IterExists ==
  ASSUME NEW items, NEW documents, NEW n \in Nat
  PROVE  \E g : g = Iter(items, documents, n, g)
  <1> DEFINE T == {m \in 0..n : ~\E g : g = Iter(items, documents, m, g)}
  <1>1. SUFFICES ASSUME T # {} PROVE FALSE
    OBVIOUS
  <1>2. PICK m \in T : \A t \in T : m <= t
    <2>1. T \subseteq Nat
      OBVIOUS
    <2> HIDE DEF T
    <2> QED
      BY <1>1, <2>1, LeastExists
  <1>3. m # 0
    <2>1. SUBSET (1..0) = {{}}
      OBVIOUS
    <2> DEFINE g == [s \in SUBSET (1..0) |-> items]
    <2>2. g = Iter(items, documents, 0, g)
      BY <2>1 DEF Iter
    <2> QED
      BY <2>2
  <1>4. m \in 1..n /\ m - 1 \in 0..n
    BY <1>3
  <1>5. PICK h : h = Iter(items, documents, m - 1, h)
    BY <1>2, <1>4
  <1> DEFINE g == [s \in SUBSET (1..m) |->
                     IF m \in s THEN Kept(h[s \ {m}], documents[m]) ELSE h[s]]
  <1>6. ASSUME NEW s \in SUBSET (1..m)
        PROVE  g[s] = IF s = {} THEN items ELSE Kept(g[s \ {Max(s)}], documents[Max(s)])
    <2>1. CASE m \in s
      <3>1. Max(s) = m
        BY <1>4, <2>1, MaxIs
      <3>2. s \ {m} \in SUBSET (1..m) /\ g[s \ {m}] = h[s \ {m}]
        OBVIOUS
      <3> QED
        BY <2>1, <3>1, <3>2
    <2>2. CASE m \notin s
      <3>1. s \in SUBSET (1..(m - 1))
        BY <1>4, <2>2
      <3>2. g[s] = h[s]
        BY <2>2
      <3>3. h[s] = IF s = {} THEN items ELSE Kept(h[s \ {Max(s)}], documents[Max(s)])
        BY <1>5, <3>1 DEF Iter
      <3>4. s \ {Max(s)} \in SUBSET (1..m) /\ m \notin s \ {Max(s)}
        BY <2>2
      <3>5. g[s \ {Max(s)}] = h[s \ {Max(s)}]
        BY <3>4
      <3> HIDE DEF g
      <3> QED
        BY <3>2, <3>3, <3>5
    <2> QED
      BY <2>1, <2>2
  <1>7. g = Iter(items, documents, m, g)
    <2>1. DOMAIN g = SUBSET (1..m) /\ g = [s \in SUBSET (1..m) |-> g[s]]
      OBVIOUS
    <2> HIDE DEF g
    <2> QED
      BY <1>6, <2>1 DEF Iter
  <1> QED
    BY <1>7

\* What FoldLeft computes of the first k documents.
FoundIn(items, documents, n, k) == (CHOOSE g : g = Iter(items, documents, n, g))[1..k]

\* It is what it computes of the first k - 1, with document k kept.
LEMMA FoundUnfolds ==
  ASSUME NEW V, NEW items, NEW documents \in Seq(V), NEW n, n = Len(documents)
  PROVE  /\ FoundIn(items, documents, n, 0) = items
         /\ FoundIn(items, documents, n, n) = Found(items, documents)
         /\ \A j, k \in 0..n : \A id :
              k = j + 1 /\ id = documents[k] =>
                FoundIn(items, documents, n, k) = Kept(FoundIn(items, documents, n, j), id)
  <1> DEFINE g == CHOOSE g : g = Iter(items, documents, n, g)
  <1>0. n \in Nat /\ DOMAIN documents = 1..n
    OBVIOUS
  <1>1. g = Iter(items, documents, n, g)
    BY <1>0, IterExists
  <1>2. Found(items, documents) = g[1..n]
    BY <1>0, FoundIsIter
  <1>3. \A k : FoundIn(items, documents, n, k) = g[1..k]
    BY DEF FoundIn
  <1> HIDE DEF g
  <1>4. g[1..0] = items
    <2>1. 1..0 = {} /\ {} \in SUBSET (1..n)
      OBVIOUS
    <2>2. g[{}] = items
      BY <1>1, <2>1 DEF Iter
    <2> QED
      BY <2>1, <2>2
  <1>5. ASSUME NEW j \in 0..n, NEW k \in 0..n, k = j + 1
        PROVE  g[1..k] = Kept(g[1..j], documents[k])
    <2>1. 1..k \in SUBSET (1..n) /\ k \in 1..k
      BY <1>0, <1>5
    <2>2. Max(1..k) = k
      <3>1. 1..k \in SUBSET Int /\ k \in 1..k /\ \A t \in 1..k : t <= k
        BY <2>1
      <3> QED
        BY <3>1, MaxIs
    <2>3. (1..k) \ {k} = 1..j
      BY <1>5
    <2> QED
      BY <1>1, <2>1, <2>2, <2>3 DEF Iter
  <1> QED
    BY <1>2, <1>3, <1>4, <1>5

NoRepeat(s) == \A i, j \in DOMAIN s : s[i] = s[j] => i = j

\* Keeping one more id repeats none and adds it to the range.
LEMMA Keeps ==
  ASSUME NEW V, NEW s \in Seq(V), NoRepeat(s), NEW id \in V
  PROVE  Kept(s, id) \in Seq(V) /\ NoRepeat(Kept(s, id)) /\ Range(Kept(s, id)) = Range(s) \cup {id}
  <1>1. CASE id \in Range(s)
    BY <1>1 DEF Kept
  <1>2. CASE id \notin Range(s)
    <2>1. Kept(s, id) = Append(s, id)
      BY <1>2 DEF Kept
    <2>2. \A i \in DOMAIN s : s[i] # id
      BY <1>2 DEF Range
    <2>3. /\ Append(s, id) \in Seq(V) /\ DOMAIN Append(s, id) = 1..(Len(s) + 1)
          /\ DOMAIN s = 1..Len(s) /\ Len(s) \in Nat
          /\ \A i \in 1..Len(s) : Append(s, id)[i] = s[i]
          /\ Append(s, id)[Len(s) + 1] = id
      OBVIOUS
    <2>4. NoRepeat(Append(s, id))
      BY <2>2, <2>3 DEF NoRepeat
    <2>5. Range(Append(s, id)) = Range(s) \cup {id}
      BY <2>3 DEF Range
    <2> QED
      BY <2>1, <2>3, <2>4, <2>5
  <1> QED
    BY <1>1, <1>2

\* jobDetailUrlSet: the URLs found are those known and those of the page, none twice, for
\* every page of the search.
LEMMA FoundIsASet ==
  ASSUME NEW V, NEW items \in Seq(V), NoRepeat(items), NEW documents \in Seq(V)
  PROVE  /\ Found(items, documents) \in Seq(V) /\ NoRepeat(Found(items, documents))
         /\ Range(Found(items, documents)) = Range(items) \cup Range(documents)
  <1> DEFINE n == Len(documents)
  <1>1. /\ n \in Nat /\ n = Len(documents) /\ DOMAIN documents = 1..n
        /\ \A k \in 1..n : documents[k] \in V
    OBVIOUS
  <1> HIDE DEF n
  <1> DEFINE f(k) == FoundIn(items, documents, n, k)
  <1>2. /\ f(0) = items /\ f(n) = Found(items, documents)
        /\ \A j, k \in 0..n : \A id : k = j + 1 /\ id = documents[k] => f(k) = Kept(f(j), id)
    <2>1. n = Len(documents)
      BY <1>1
    <2> QED
      BY <2>1, FoundUnfolds
  <1> HIDE DEF f
  <1> DEFINE OK(k) == /\ f(k) \in Seq(V) /\ NoRepeat(f(k))
                      /\ Range(f(k)) = Range(items) \cup {documents[i] : i \in 1..k}
             T == {k \in 0..n : ~OK(k)}
  <1>3. OK(0)
    BY <1>2
  <1>4. ASSUME NEW j \in 0..n, NEW k \in 0..n, k = j + 1, OK(j)
        PROVE  OK(k)
    <2> DEFINE s  == f(j)
               id == documents[k]
    <2>1. f(k) = Kept(s, id) /\ id \in V /\ k \in 1..n
      BY <1>1, <1>2, <1>4
    <2>2. s \in Seq(V) /\ NoRepeat(s) /\ Range(s) = Range(items) \cup {documents[i] : i \in 1..j}
      BY <1>4
    <2>3. {documents[i] : i \in 1..k} = {documents[i] : i \in 1..j} \cup {id}
      <3>1. 1..k = 1..j \cup {k}
        BY <1>4
      <3> QED
        BY <3>1
    <2> HIDE DEF s, id
    <2>4. Kept(s, id) \in Seq(V) /\ NoRepeat(Kept(s, id)) /\ Range(Kept(s, id)) = Range(s) \cup {id}
      BY <2>1, <2>2, Keeps
    <2>5. Range(Kept(s, id)) = Range(items) \cup {documents[i] : i \in 1..k}
      BY <2>2, <2>3, <2>4
    <2> QED
      BY <2>1, <2>4, <2>5
  <1> HIDE DEF OK
  <1>5. T = {}
    <2>1. SUFFICES ASSUME T # {} PROVE FALSE
      OBVIOUS
    <2>2. T \subseteq Nat
      BY <1>1
    <2>3. PICK m \in T : \A t \in T : m <= t
      BY <2>1, <2>2, LeastExists
    <2>4. m \in 0..n /\ ~OK(m) /\ m # 0
      BY <1>1, <1>3, <2>3
    <2>5. PICK j \in 0..n : m = j + 1
      <3>1. m - 1 \in 0..n /\ m = (m - 1) + 1
        BY <1>1, <2>4
      <3> QED
        BY <3>1
    <2>6. j \notin T
      BY <2>3, <2>5
    <2> QED
      BY <1>4, <2>4, <2>5, <2>6
  <1>6. OK(n)
    BY <1>1, <1>5
  <1>7. Range(documents) = {documents[i] : i \in 1..n}
    BY <1>1 DEF Range
  <1> QED
    BY <1>2, <1>6, <1>7 DEF OK

-----------------------------------------------------------------------------
\* Types and the invariant of one run

Vacancies == (UNION {Range(documents) : documents \in Documents}) \cup (1..Rows)

Listings == [item : Vacancies \cup {None}, code : Codes]

RunState ==
  [at       : Working \cup {"idle", "launch", "newPage", "closing", "settled", "rejected"},
   attempt  : 0..TotalAttempts,
   cursor   : Nat,
   items    : Seq(Vacancies),
   listings : Seq(Listings)]

\* The listings are of the first k items, in order, none twice.
Accounts(listings, items, k) ==
  /\ k \in 0..Len(items)
  /\ \A i \in DOMAIN listings : \E p \in 1..k : listings[i].item = items[p]
  /\ \A p \in 1..k : \E i \in DOMAIN listings : listings[i].item = items[p]
  /\ \A i, j \in DOMAIN listings : i < j =>
       /\ listings[i] # listings[j]
       /\ \A p, q \in 1..k : listings[i].item = items[p] /\ listings[j].item = items[q] => p <= q

\* The row that is open has been scraped.
OpenIsScraped(r) ==
  \A i \in DOMAIN r.listings :
    r.listings[i].item = r.items[r.cursor] => r.listings[i].code = "ok"

\* What a run may return.
Final(listings, items) ==
  \/ IsTargetError(listings)
  \/ \E k \in 0..Len(items) : Accounts(listings, items, k) /\ (aborted \/ k = Len(items))

RunOK(r) ==
  /\ r \in RunState /\ NoRepeat(r.items)
  /\ r.at \in {"idle", "launch", "newPage", "navigate", "more", "moreDelay", "rows"} =>
       r.items = <<>> /\ r.listings = <<>>
  /\ r.at = "search" => r.listings = <<>>
  /\ r.at \in {"goto", "scrape", "row"} =>
       r.cursor \in 1..Len(r.items) /\ Accounts(r.listings, r.items, r.cursor - 1)
  /\ r.at = "escape" =>
       /\ r.cursor \in 1..Len(r.items) /\ Accounts(r.listings, r.items, r.cursor)
       /\ OpenIsScraped(r)
  /\ r.at = "closing" => Final(r.listings, r.items)

\* The fields of a run.
LEMMA RunFields ==
  ASSUME NEW r \in RunState
  PROVE  /\ r.at \in Working \cup {"idle", "launch", "newPage", "closing", "settled", "rejected"}
         /\ r.attempt \in 0..TotalAttempts /\ r.cursor \in Nat
         /\ r.items \in Seq(Vacancies) /\ Len(r.items) \in Nat /\ DOMAIN r.items = 1..Len(r.items)
         /\ r.listings \in Seq(Listings)
         /\ \A i \in 1..Len(r.items) : r.items[i] \in Vacancies
  BY DEF RunState

\* No listing accounts for no item.
LEMMA AccountsNone ==
  ASSUME NEW items \in Seq(Vacancies)
  PROVE  Accounts(<<>>, items, 0)
  BY DEF Accounts

\* The positions of a sequence one element longer.
LEMMA AppendFacts ==
  ASSUME NEW V, NEW s \in Seq(V), NEW x \in V
  PROVE  /\ Append(s, x) \in Seq(V) /\ Len(s) \in Nat /\ DOMAIN s = 1..Len(s)
         /\ DOMAIN Append(s, x) = 1..(Len(s) + 1) /\ Len(s) + 1 \in DOMAIN Append(s, x)
         /\ \A i \in DOMAIN s : Append(s, x)[i] = s[i]
         /\ Append(s, x)[Len(s) + 1] = x
         /\ \A i \in DOMAIN Append(s, x) : i \in DOMAIN s \/ i = Len(s) + 1
  OBVIOUS

\* Listing the next item once accounts for one item more, and adds nothing but its code.
LEMMA AccountsNext ==
  ASSUME NEW items \in Seq(Vacancies), NoRepeat(items), NEW listings \in Seq(Listings),
         NEW k \in Nat, NEW m \in 1..Len(items), m = k + 1, Accounts(listings, items, k),
         NEW code \in Codes
  PROVE  LET l == Append(listings, Listing(items[m], code)) IN
         /\ l \in Seq(Listings) /\ Accounts(l, items, m)
         /\ \A i \in DOMAIN l : l[i].item = items[m] => l[i].code = code
         /\ \A i \in DOMAIN l : (i \in DOMAIN listings /\ l[i] = listings[i]) \/ l[i].code = code
  <1> DEFINE x == Listing(items[m], code)
             l == Append(listings, x)
             n == Len(listings)
  <1>1. items[m] \in Vacancies /\ Len(items) \in Nat /\ DOMAIN items = 1..Len(items)
    OBVIOUS
  <1>2. x \in Listings /\ x.item = items[m] /\ x.code = code
    BY <1>1 DEF Listing, Listings
  <1> HIDE DEF x
  <1>3. /\ l \in Seq(Listings) /\ n \in Nat /\ DOMAIN listings = 1..n
        /\ DOMAIN l = 1..(n + 1) /\ n + 1 \in DOMAIN l
        /\ \A i \in DOMAIN listings : l[i] = listings[i]
        /\ l[n + 1] = x
        /\ \A i \in DOMAIN l : i \in DOMAIN listings \/ i = n + 1
    BY <1>2, AppendFacts
  <1> HIDE DEF l, n
  <1>4. \A p \in 1..k : p \in DOMAIN items /\ p # m /\ p <= m /\ items[p] # items[m]
    BY <1>1 DEF NoRepeat
  <1>5. \A p \in 1..m : p \in 1..k \/ p = m
    OBVIOUS
  <1>6. \A i \in DOMAIN l : \E p \in 1..m : l[i].item = items[p]
    <2> TAKE i \in DOMAIN l
    <2>1. CASE i \in DOMAIN listings
      <3>1. PICK p \in 1..k : listings[i].item = items[p]
        BY <2>1 DEF Accounts
      <3> QED
        BY <1>3, <2>1, <3>1
    <2>2. CASE i = n + 1
      BY <1>2, <1>3, <2>2
    <2> QED
      BY <1>3, <2>1, <2>2
  <1>7. \A p \in 1..m : \E i \in DOMAIN l : l[i].item = items[p]
    <2> TAKE p \in 1..m
    <2>1. CASE p \in 1..k
      <3>1. PICK i \in DOMAIN listings : listings[i].item = items[p]
        BY <2>1 DEF Accounts
      <3> QED
        BY <1>3, <3>1
    <2>2. CASE p = m
      BY <1>2, <1>3, <2>2
    <2> QED
      BY <1>5, <2>1, <2>2
  <1>8. \A i \in DOMAIN listings : listings[i].item # items[m]
    BY <1>4 DEF Accounts
  <1>9. ASSUME NEW i \in DOMAIN l, NEW j \in DOMAIN l, i < j
        PROVE  /\ l[i] # l[j]
               /\ \A p, q \in 1..m : l[i].item = items[p] /\ l[j].item = items[q] => p <= q
    <2>1. i \in DOMAIN listings /\ l[i] = listings[i]
      BY <1>3, <1>9
    <2>2. CASE j \in DOMAIN listings
      <3>1. \A p \in 1..m : l[i].item = items[p] \/ l[j].item = items[p] => p \in 1..k
        BY <1>3, <1>5, <1>8, <2>1, <2>2
      <3>2. /\ listings[i] # listings[j]
            /\ \A p, q \in 1..k :
                 listings[i].item = items[p] /\ listings[j].item = items[q] => p <= q
        BY <1>9, <2>1, <2>2 DEF Accounts
      <3>3. l[j] = listings[j]
        BY <1>3, <2>2
      <3> QED
        BY <2>1, <3>1, <3>2, <3>3
    <2>3. CASE j = n + 1
      <3>1. l[j] = x /\ l[j].item = items[m] /\ l[i].item # items[m]
        BY <1>2, <1>3, <1>8, <2>1, <2>3
      <3>2. \A q \in 1..m : l[j].item = items[q] => q = m
        BY <1>4, <1>5, <3>1
      <3> QED
        BY <3>1, <3>2
    <2> QED
      BY <1>3, <2>2, <2>3
  <1>10. Accounts(l, items, m)
    BY <1>1, <1>6, <1>7, <1>9 DEF Accounts
  <1>11. \A i \in DOMAIN l : l[i].item = items[m] => l[i].code = code
    BY <1>2, <1>3, <1>8
  <1>12. \A i \in DOMAIN l : (i \in DOMAIN listings /\ l[i] = listings[i]) \/ l[i].code = code
    BY <1>2, <1>3
  <1> QED
    BY <1>3, <1>10, <1>11, <1>12 DEF l, x

\* An error beside the success of the open row accounts for the same items: the two listings
\* of the row differ.
LEMMA AccountsAgain ==
  ASSUME NEW items \in Seq(Vacancies), NoRepeat(items), NEW listings \in Seq(Listings),
         NEW k \in 1..Len(items), Accounts(listings, items, k),
         \A i \in DOMAIN listings : listings[i].item = items[k] => listings[i].code = "ok"
  PROVE  LET l == Append(listings, Listing(items[k], "SCRAPE_FAILED")) IN
         l \in Seq(Listings) /\ Accounts(l, items, k)
  <1> DEFINE x == Listing(items[k], "SCRAPE_FAILED")
             l == Append(listings, x)
             n == Len(listings)
  <1>1. items[k] \in Vacancies /\ Len(items) \in Nat /\ DOMAIN items = 1..Len(items)
    OBVIOUS
  <1>2. x \in Listings /\ x.item = items[k] /\ x.code # "ok"
    BY <1>1 DEF Listing, Listings, Codes
  <1> HIDE DEF x
  <1>3. /\ l \in Seq(Listings) /\ n \in Nat /\ DOMAIN listings = 1..n
        /\ DOMAIN l = 1..(n + 1) /\ n + 1 \in DOMAIN l
        /\ \A i \in DOMAIN listings : l[i] = listings[i]
        /\ l[n + 1] = x
        /\ \A i \in DOMAIN l : i \in DOMAIN listings \/ i = n + 1
    BY <1>2, AppendFacts
  <1> HIDE DEF l, n
  <1>4. k \in 0..Len(items)
    BY <1>1
  <1>5. \A i \in DOMAIN l : \E p \in 1..k : l[i].item = items[p]
    <2> TAKE i \in DOMAIN l
    <2>1. CASE i \in DOMAIN listings
      <3>1. PICK p \in 1..k : listings[i].item = items[p]
        BY <2>1 DEF Accounts
      <3> QED
        BY <1>3, <2>1, <3>1
    <2>2. CASE i = n + 1
      <3>1. k \in 1..k
        OBVIOUS
      <3> QED
        BY <1>2, <1>3, <2>2, <3>1
    <2> QED
      BY <1>3, <2>1, <2>2
  <1>6. \A p \in 1..k : \E i \in DOMAIN l : l[i].item = items[p]
    <2> TAKE p \in 1..k
    <2>1. PICK i \in DOMAIN listings : listings[i].item = items[p]
      BY DEF Accounts
    <2> QED
      BY <1>3, <2>1
  <1>7. ASSUME NEW i \in DOMAIN l, NEW j \in DOMAIN l, i < j
        PROVE  /\ l[i] # l[j]
               /\ \A p, q \in 1..k : l[i].item = items[p] /\ l[j].item = items[q] => p <= q
    <2>1. i \in DOMAIN listings /\ l[i] = listings[i]
      BY <1>3, <1>7
    <2>2. CASE j \in DOMAIN listings
      <3>1. /\ listings[i] # listings[j]
            /\ \A p, q \in 1..k :
                 listings[i].item = items[p] /\ listings[j].item = items[q] => p <= q
        BY <1>7, <2>1, <2>2 DEF Accounts
      <3>2. l[j] = listings[j]
        BY <1>3, <2>2
      <3> QED
        BY <2>1, <3>1, <3>2
    <2>3. CASE j = n + 1
      <3>1. l[j] = x
        BY <1>3, <2>3
      <3>2. \A q \in 1..k : l[j].item = items[q] => q = k
        <4>1. \A q \in 1..k : q \in DOMAIN items
          BY <1>1
        <4>2. k \in DOMAIN items
          BY <1>1
        <4> QED
          BY <1>2, <3>1, <4>1, <4>2 DEF NoRepeat
      <3>3. l[i] # l[j]
        BY <1>2, <2>1, <3>1
      <3> QED
        BY <3>2, <3>3
    <2> QED
      BY <1>3, <2>2, <2>3
  <1> QED
    BY <1>3, <1>4, <1>5, <1>6, <1>7 DEF Accounts, l, x

-----------------------------------------------------------------------------
\* A run as a record of five fields, and what an update of it is

Ats == Working \cup {"idle", "launch", "newPage", "closing", "settled", "rejected"}

\* A run with all its fields.
Run(at, attempt, cursor, items, listings) ==
  [at |-> at, attempt |-> attempt, cursor |-> cursor, items |-> items, listings |-> listings]

\* Reading a field.
LEMMA RunRead ==
  ASSUME NEW a, NEW n, NEW c, NEW x, NEW l
  PROVE  /\ Run(a, n, c, x, l).at = a /\ Run(a, n, c, x, l).attempt = n
         /\ Run(a, n, c, x, l).cursor = c /\ Run(a, n, c, x, l).items = x
         /\ Run(a, n, c, x, l).listings = l
  BY DEF Run

\* A run of well-typed fields is well typed.
LEMMA RunTyped ==
  ASSUME NEW a \in Ats, NEW n \in 0..TotalAttempts, NEW c \in Nat, NEW x \in Seq(Vacancies),
         NEW l \in Seq(Listings)
  PROVE  Run(a, n, c, x, l) \in RunState
  BY DEF Run, RunState, Ats

\* A run is the record of its fields.
LEMMA RunIsRecord ==
  ASSUME NEW r \in RunState
  PROVE  r = Run(r.at, r.attempt, r.cursor, r.items, r.listings)
  BY DEF RunState, Run

\* Updating one field.
LEMMA OneUpdate ==
  ASSUME NEW a0, NEW n0, NEW c0, NEW x0, NEW l0, NEW r, r = Run(a0, n0, c0, x0, l0),
         NEW a, NEW n, NEW c, NEW x, NEW l
  PROVE  /\ [r EXCEPT !.at = a] = Run(a, n0, c0, x0, l0)
         /\ [r EXCEPT !.attempt = n] = Run(a0, n, c0, x0, l0)
         /\ [r EXCEPT !.cursor = c] = Run(a0, n0, c, x0, l0)
         /\ [r EXCEPT !.items = x] = Run(a0, n0, c0, x, l0)
         /\ [r EXCEPT !.listings = l] = Run(a0, n0, c0, x0, l)
  BY DEF Run

\* The same, of a run that is well typed.
LEMMA UpdatesOf ==
  ASSUME NEW r \in RunState
  PROVE  /\ \A a : [r EXCEPT !.at = a] = Run(a, r.attempt, r.cursor, r.items, r.listings)
         /\ \A n : [r EXCEPT !.attempt = n] = Run(r.at, n, r.cursor, r.items, r.listings)
         /\ \A x : [r EXCEPT !.items = x] = Run(r.at, r.attempt, r.cursor, x, r.listings)
         /\ \A l : [r EXCEPT !.listings = l] = Run(r.at, r.attempt, r.cursor, r.items, l)
  BY RunIsRecord, OneUpdate

-----------------------------------------------------------------------------
\* The ways a run moves on

\* While a run is cancelled nothing but a success is added to its listings.
CancelOK(before, r) ==
  aborted => \A i \in DOMAIN r.listings :
               \/ i \in DOMAIN before /\ r.listings[i] = before[i]
               \/ r.listings[i].code = "ok"

\* What a step of a run leaves, given the listings before it.
Outcome(before, r) ==
  /\ RunOK(r)
  /\ r.at \in Working \cup {"newPage", "closing", "rejected"}
  /\ CancelOK(before, r)

\* Leaving with listings that are final.
LEMMA LeaveOK ==
  ASSUME NEW before, NEW r \in RunState, NoRepeat(r.items), NEW l \in Seq(Listings),
         Final(l, r.items), NEW q, q = Leave(r, l),
         aborted => \A i \in DOMAIN l : (i \in DOMAIN before /\ l[i] = before[i]) \/ l[i].code = "ok"
  PROVE  Outcome(before, q)
  <1>1. q = Run("closing", r.attempt, r.cursor, r.items, l)
    <2> DEFINE p == [r EXCEPT !.at = "closing"]
    <2>1. q = [p EXCEPT !.listings = l]
      BY DEF Leave
    <2>2. p = Run("closing", r.attempt, r.cursor, r.items, r.listings)
      BY UpdatesOf
    <2> HIDE DEF p
    <2> QED
      BY <2>1, <2>2, OneUpdate
  <1>2. q.at = "closing" /\ q.items = r.items /\ q.listings = l
    BY <1>1, RunRead
  <1>3. q \in RunState
    <2>1. "closing" \in Ats
      BY DEF Ats
    <2> QED
      BY <1>1, <2>1, RunTyped, RunFields
  <1>4. RunOK(q)
    BY <1>2, <1>3 DEF RunOK
  <1> QED
    BY <1>2, <1>4 DEF Outcome, CancelOK

\* A whole-target error is final for any items.
LEMMA TargetErrorIsFinal ==
  ASSUME NEW items, NEW code \in Codes
  PROVE  /\ <<Listing(None, code)>> \in Seq(Listings)
         /\ Final(<<Listing(None, code)>>, items)
  BY DEF Final, IsTargetError, Listing, Listings

\* After an abort no listing at all is final.
LEMMA CancelledIsFinal ==
  ASSUME NEW items \in Seq(Vacancies), aborted
  PROVE  <<>> \in Seq(Listings) /\ Final(<<>>, items)
  <1>1. Accounts(<<>>, items, 0) /\ 0 \in 0..Len(items)
    BY AccountsNone DEF Accounts
  <1> QED
    BY <1>1 DEF Final

\* A cancelled run that drops its listings adds none.
LEMMA EmptyIsKept ==
  ASSUME NEW before
  PROVE  \A i \in DOMAIN <<>> :
           (i \in DOMAIN before /\ <<>>[i] = before[i]) \/ <<>>[i].code = "ok"
  OBVIOUS

\* The outer catch of run(), and the failed navigation of jobich.ch.
LEMMA LeaveFailedOK ==
  ASSUME NEW before, NEW r \in RunState, NoRepeat(r.items), NEW code \in Codes,
         NEW q, q = IF aborted THEN Leave(r, <<>>) ELSE Leave(r, <<Listing(None, code)>>)
  PROVE  Outcome(before, q)
  <1>1. CASE aborted
    <2>1. <<>> \in Seq(Listings) /\ Final(<<>>, r.items)
      BY <1>1, RunFields, CancelledIsFinal
    <2> QED
      BY <1>1, <2>1, EmptyIsKept, LeaveOK
  <1>2. CASE ~aborted
    <2> DEFINE l == <<Listing(None, code)>>
    <2>1. l \in Seq(Listings) /\ Final(l, r.items)
      BY TargetErrorIsFinal
    <2>2. q = Leave(r, l)
      BY <1>2
    <2> HIDE DEF l
    <2> QED
      BY <1>2, <2>1, <2>2, LeaveOK
  <1> QED
    BY <1>1, <1>2

\* The head of the loop over the items, with the first k accounted for.
LEMMA ToItemOK ==
  ASSUME NEW before, NEW r \in RunState, NoRepeat(r.items), CancelOK(before, r),
         NEW k \in 0..Len(r.items), Accounts(r.listings, r.items, k),
         NEW i \in Nat, aborted \/ i = k + 1, i > 0,
         NEW await \in {"goto", "row"}, NEW q, q = ToItem(r, i, await)
  PROVE  Outcome(before, q)
  <1>1. /\ r.listings \in Seq(Listings) /\ Len(r.items) \in Nat /\ r.items \in Seq(Vacancies)
        /\ r.attempt \in 0..TotalAttempts
    BY RunFields
  <1>2. CASE aborted \/ i > Len(r.items)
    <2>1. q = Leave(r, r.listings)
      BY <1>2 DEF ToItem
    <2>2. Final(r.listings, r.items)
      <3>1. aborted \/ k = Len(r.items)
        BY <1>1, <1>2
      <3> QED
        BY <3>1 DEF Final
    <2>3. aborted => \A j \in DOMAIN r.listings :
                       \/ j \in DOMAIN before /\ r.listings[j] = before[j]
                       \/ r.listings[j].code = "ok"
      BY DEF CancelOK
    <2> QED
      BY <1>1, <2>1, <2>2, <2>3, LeaveOK
  <1>3. CASE ~aborted /\ ~(i > Len(r.items))
    <2>1. q = [r EXCEPT !.at = await, !.cursor = i, !.attempt = 1]
      BY <1>3 DEF ToItem
    <2>2. q = Run(await, 1, i, r.items, r.listings)
      <3> DEFINE p == [r EXCEPT !.at = await]
                 s == [p EXCEPT !.cursor = i]
      <3>1. q = [s EXCEPT !.attempt = 1]
        BY <2>1
      <3>2. p = Run(await, r.attempt, r.cursor, r.items, r.listings)
        BY UpdatesOf
      <3> HIDE DEF p
      <3>3. s = Run(await, r.attempt, i, r.items, r.listings)
        BY <3>2, OneUpdate
      <3> HIDE DEF s
      <3> QED
        BY <3>1, <3>3, OneUpdate
    <2>3. 1 \in 0..TotalAttempts /\ await \in Ats
      BY TargetRunAssumption DEF Ats, Working
    <2>4. /\ q.at = await /\ q.items = r.items /\ q.listings = r.listings /\ q.cursor = i
          /\ q \in RunState
      BY <1>1, <2>2, <2>3, RunRead, RunTyped
    <2>5. q.cursor \in 1..Len(q.items) /\ q.cursor - 1 = k
      BY <1>1, <1>3, <2>4
    <2>6. RunOK(q)
      BY <2>4, <2>5 DEF RunOK
    <2> QED
      BY <1>3, <2>4, <2>6 DEF Outcome, CancelOK, Working
  <1> QED
    BY <1>2, <1>3

\* The head of the loop over the pages of jobs.ch.
LEMMA ToPageOK ==
  ASSUME NEW before, NEW r \in RunState, NoRepeat(r.items), r.listings = <<>>, NEW p \in Nat,
         NEW maxPages, NEW q, q = ToPage(r, p, maxPages)
  PROVE  Outcome(before, q)
  <1>1. r.items \in Seq(Vacancies) /\ 0 \in 0..Len(r.items) /\ Accounts(r.listings, r.items, 0)
    BY RunFields, AccountsNone
  <1>2. CASE q = ToItem(r, 1, "goto")
    <2>1. CancelOK(before, r)
      BY DEF CancelOK
    <2> QED
      BY <1>1, <1>2, <2>1, ToItemOK
  <1>3. CASE aborted /\ q = Leave(r, <<>>)
    BY <1>1, <1>3, CancelledIsFinal, EmptyIsKept, LeaveOK
  <1>4. CASE q = [r EXCEPT !.at = "search", !.cursor = p, !.attempt = 1]
    <2>1. q = Run("search", 1, p, r.items, r.listings)
      <3> DEFINE u == [r EXCEPT !.at = "search"]
                 s == [u EXCEPT !.cursor = p]
      <3>1. q = [s EXCEPT !.attempt = 1]
        BY <1>4
      <3>2. u = Run("search", r.attempt, r.cursor, r.items, r.listings)
        BY UpdatesOf
      <3> HIDE DEF u
      <3>3. s = Run("search", r.attempt, p, r.items, r.listings)
        BY <3>2, OneUpdate
      <3> HIDE DEF s
      <3> QED
        BY <3>1, <3>3, OneUpdate
    <2>2. 1 \in 0..TotalAttempts /\ "search" \in Ats
      BY TargetRunAssumption DEF Ats, Working
    <2>3. r.listings \in Seq(Listings)
      BY RunFields
    <2>4. q.at = "search" /\ q.items = r.items /\ q.listings = r.listings
      BY <2>1, RunRead, RunTyped
    <2>5. q \in RunState
      BY <1>1, <2>1, <2>2, <2>3, RunTyped
    <2>6. RunOK(q)
      BY <2>4, <2>5 DEF RunOK
    <2> QED
      BY <2>4, <2>6 DEF Outcome, CancelOK, Working
  <1> QED
    BY <1>2, <1>3, <1>4 DEF ToPage

\* Steps that only move a run on, before it has found anything.
LEMMA MoveOK ==
  ASSUME NEW before, NEW r \in RunState, NoRepeat(r.items), r.listings = <<>>, r.items = <<>>,
         NEW a \in {"newPage", "rejected", "navigate", "more", "moreDelay", "rows"},
         NEW n \in 0..TotalAttempts, NEW c \in Nat,
         NEW q, q = Run(a, n, c, r.items, r.listings)
  PROVE  Outcome(before, q)
  <1>1. a \in Ats /\ r.items \in Seq(Vacancies) /\ r.listings \in Seq(Listings)
    BY RunFields DEF Ats, Working
  <1>2. q.at = a /\ q.items = r.items /\ q.listings = r.listings
    BY RunRead, RunTyped
  <1>3. q \in RunState
    BY <1>1, RunTyped
  <1>4. RunOK(q)
    BY <1>2, <1>3 DEF RunOK
  <1> QED
    BY <1>2, <1>4 DEF Outcome, CancelOK, Working

\* The head of the "Show more" loop of jobich.ch.
LEMMA ToMoreOK ==
  ASSUME NEW before, NEW r \in RunState, NoRepeat(r.items), r.listings = <<>>, r.items = <<>>,
         NEW i \in Nat, NEW maxPages, NEW q, q = ToMore(r, i, maxPages)
  PROVE  Outcome(before, q)
  <1>2. /\ r.items \in Seq(Vacancies) /\ r.attempt \in 0..TotalAttempts /\ r.cursor \in Nat
    BY RunFields
  <1>3. CASE q = [r EXCEPT !.at = "rows"]
    <2>1. q = Run("rows", r.attempt, r.cursor, r.items, r.listings)
      BY <1>3, UpdatesOf
    <2> QED
      BY <1>2, <2>1, MoveOK
  <1>4. CASE aborted /\ q = Leave(r, <<>>)
    BY <1>2, <1>4, CancelledIsFinal, EmptyIsKept, LeaveOK
  <1>5. CASE q = [r EXCEPT !.at = "more", !.cursor = i]
    <2>1. q = Run("more", r.attempt, i, r.items, r.listings)
      <3> DEFINE p == [r EXCEPT !.at = "more"]
      <3>1. q = [p EXCEPT !.cursor = i]
        BY <1>5
      <3>2. p = Run("more", r.attempt, r.cursor, r.items, r.listings)
        BY UpdatesOf
      <3> HIDE DEF p
      <3> QED
        BY <3>1, <3>2, OneUpdate
    <2> QED
      BY <1>2, <2>1, MoveOK
  <1> QED
    BY <1>3, <1>4, <1>5 DEF ToMore

\* A retry keeps what the run has, or ends as the caller's catch does.
LEMMA RetryOK ==
  ASSUME NEW r, RunOK(r), r.at \in Working, NEW exhausted, Outcome(r.listings, exhausted),
         NEW q, q = Retry(r, exhausted)
  PROVE  Outcome(r.listings, q)
  <1>1. r \in RunState
    BY DEF RunOK
  <1>2. CASE r.attempt < TotalAttempts
    <2>1. q = [r EXCEPT !.attempt = r.attempt + 1]
      BY <1>2 DEF Retry
    <2> DEFINE n == r.attempt + 1
    <2>2. n \in 0..TotalAttempts
      BY <1>1, <1>2, RunFields, TargetRunAssumption
    <2>3. q = [r EXCEPT !.attempt = n]
      BY <2>1
    <2> HIDE DEF n
    <2>4. q = Run(r.at, n, r.cursor, r.items, r.listings)
      BY <1>1, <2>3, UpdatesOf
    <2>5. /\ q.at = r.at /\ q.items = r.items /\ q.listings = r.listings /\ q.cursor = r.cursor
          /\ q \in RunState
      BY <1>1, <2>2, <2>4, RunRead, RunTyped, RunFields DEF Ats
    <2>6. RunOK(q)
      BY <2>5 DEF RunOK, OpenIsScraped
    <2> QED
      BY <2>5, <2>6 DEF Outcome, CancelOK
  <1>3. CASE ~(r.attempt < TotalAttempts)
    BY <1>3 DEF Retry
  <1> QED
    BY <1>2, <1>3

-----------------------------------------------------------------------------
\* The item a run works on

\* A run that works on an item: its fields and what it has accounted for.
LEMMA AtItem ==
  ASSUME NEW r, RunOK(r), r.at \in {"goto", "scrape", "row", "escape"}
  PROVE  /\ r \in RunState /\ NoRepeat(r.items) /\ r.items \in Seq(Vacancies)
         /\ r.listings \in Seq(Listings) /\ Len(r.items) \in Nat
         /\ r.cursor \in 1..Len(r.items)
         /\ \E k \in 0..Len(r.items) :
              /\ r.cursor = (IF r.at = "escape" THEN k ELSE k + 1)
              /\ Accounts(r.listings, r.items, k)
  <1>1. r \in RunState /\ r.cursor \in 1..Len(r.items)
    BY DEF RunOK
  <1>2. Len(r.items) \in Nat /\ r.items \in Seq(Vacancies) /\ r.listings \in Seq(Listings)
    BY <1>1, RunFields
  <1>3. CASE r.at = "escape"
    <2>1. Accounts(r.listings, r.items, r.cursor) /\ r.cursor \in 0..Len(r.items)
      BY <1>1, <1>2, <1>3 DEF RunOK
    <2> QED
      BY <1>1, <1>2, <1>3, <2>1 DEF RunOK
  <1>4. CASE r.at # "escape"
    <2> DEFINE k == r.cursor - 1
    <2>1. Accounts(r.listings, r.items, k) /\ k \in 0..Len(r.items) /\ r.cursor = k + 1
      BY <1>1, <1>2, <1>4 DEF RunOK
    <2> HIDE DEF k
    <2> QED
      BY <1>1, <1>2, <1>4, <2>1 DEF RunOK
  <1> QED
    BY <1>3, <1>4

\* The item a run works on is listed with a code, and the run goes on to the next.
LEMMA ListedOK ==
  ASSUME NEW r, RunOK(r), r.at \in {"goto", "scrape", "row"}, NEW code \in Codes,
         ~aborted \/ code = "ok", NEW await \in {"goto", "row"},
         NEW p, p = Run(r.at, r.attempt, r.cursor, r.items,
                        Append(r.listings, Listing(r.items[r.cursor], code))),
         NEW q, q = ToItem(p, p.cursor + 1, await)
  PROVE  Outcome(r.listings, q)
  <1> DEFINE items == r.items
             listings == r.listings
             m == r.cursor
             l == Append(listings, Listing(items[m], code))
  <1>1. /\ r \in RunState /\ NoRepeat(items) /\ items \in Seq(Vacancies)
        /\ listings \in Seq(Listings) /\ Len(items) \in Nat /\ m \in 1..Len(items)
    BY AtItem
  <1>2. PICK k \in 0..Len(items) : m = k + 1 /\ Accounts(listings, items, k)
    BY AtItem
  <1>3. p = Run(r.at, r.attempt, m, items, l)
    OBVIOUS
  <1>4. r.at \in Ats /\ r.attempt \in 0..TotalAttempts /\ m \in Nat
    BY <1>1, RunFields DEF Ats
  <1> HIDE DEF items, listings, m
  <1>5. /\ l \in Seq(Listings) /\ Accounts(l, items, m)
        /\ \A i \in DOMAIN l : (i \in DOMAIN listings /\ l[i] = listings[i]) \/ l[i].code = code
    BY <1>1, <1>2, AccountsNext
  <1> HIDE DEF l
  <1>6. p.items = items /\ p.listings = l /\ p.cursor = m
    BY <1>3, RunRead
  <1>7. p \in RunState
    BY <1>1, <1>3, <1>4, <1>5, RunTyped
  <1>8. CancelOK(listings, p)
    BY <1>5, <1>6 DEF CancelOK
  <1> DEFINE i == m + 1
  <1>9. i \in Nat /\ i > 0 /\ i = m + 1 /\ m \in 0..Len(items) /\ q = ToItem(p, i, await)
    BY <1>1, <1>4, <1>6
  <1> HIDE DEF i
  <1>10. Outcome(listings, q)
    BY <1>1, <1>5, <1>6, <1>7, <1>8, <1>9, ToItemOK
  <1> QED
    BY <1>10 DEF listings

\* A cancelled run leaves an item that failed unlisted, and returns.
LEMMA UnlistedOK ==
  ASSUME NEW r, RunOK(r), r.at \in {"goto", "scrape", "row", "escape"}, aborted \/ r.at = "escape",
         NEW await \in {"goto", "row"}, NEW q, q = ToItem(r, r.cursor + 1, await)
  PROVE  Outcome(r.listings, q)
  <1>1. /\ r \in RunState /\ NoRepeat(r.items) /\ Len(r.items) \in Nat
        /\ r.cursor \in 1..Len(r.items)
    BY AtItem
  <1>2. PICK k \in 0..Len(r.items) :
          Accounts(r.listings, r.items, k) /\ (r.at = "escape" => r.cursor = k)
    BY AtItem
  <1>3. CancelOK(r.listings, r)
    BY DEF CancelOK
  <1> DEFINE i == r.cursor + 1
  <1>4. i \in Nat /\ i > 0 /\ (aborted \/ i = k + 1) /\ q = ToItem(r, i, await)
    BY <1>1, <1>2
  <1> HIDE DEF i
  <1> QED
    BY <1>1, <1>2, <1>3, <1>4, ToItemOK

\* An item failed: it is listed as a failure, or, after an abort, the run returns without it.
LEMMA FailedOK ==
  ASSUME NEW r, RunOK(r), r.at \in {"goto", "scrape", "row"}, NEW code \in Codes,
         NEW await \in {"goto", "row"},
         NEW q, q = ToItem(ItemFailed(r, code), ItemFailed(r, code).cursor + 1, await)
  PROVE  Outcome(r.listings, q)
  <1>1. CASE aborted
    <2>1. q = ToItem(r, r.cursor + 1, await)
      BY <1>1 DEF ItemFailed
    <2> QED
      BY <1>1, <2>1, UnlistedOK
  <1>2. CASE ~aborted
    <2> DEFINE p == ItemFailed(r, code)
    <2>1. p = Run(r.at, r.attempt, r.cursor, r.items,
                  Append(r.listings, Listing(r.items[r.cursor], code)))
      <3>1. p = [r EXCEPT !.listings = Append(r.listings, Listing(r.items[r.cursor], code))]
        BY <1>2 DEF ItemFailed
      <3>2. r \in RunState
        BY DEF RunOK
      <3> HIDE DEF p
      <3> QED
        BY <3>1, <3>2, UpdatesOf
    <2>2. q = ToItem(p, p.cursor + 1, await)
      OBVIOUS
    <2> HIDE DEF p
    <2> QED
      BY <1>2, <2>1, <2>2, ListedOK
  <1> QED
    BY <1>1, <1>2

\* An Escape that fails lists the open row once more, as a failure.
LEMMA EscapeFailedOK ==
  ASSUME NEW r, RunOK(r), r.at = "escape",
         NEW q, q = ToItem(ItemFailed(r, "SCRAPE_FAILED"),
                           ItemFailed(r, "SCRAPE_FAILED").cursor + 1, "row")
  PROVE  Outcome(r.listings, q)
  <1>1. CASE aborted
    <2>1. q = ToItem(r, r.cursor + 1, "row")
      BY <1>1 DEF ItemFailed
    <2> QED
      BY <1>1, <2>1, UnlistedOK
  <1>2. CASE ~aborted
    <2> DEFINE items == r.items
               listings == r.listings
               m == r.cursor
               l == Append(listings, Listing(items[m], "SCRAPE_FAILED"))
               p == ItemFailed(r, "SCRAPE_FAILED")
    <2>1. /\ r \in RunState /\ NoRepeat(items) /\ items \in Seq(Vacancies)
          /\ listings \in Seq(Listings) /\ Len(items) \in Nat /\ m \in 1..Len(items)
      BY AtItem
    <2>2. /\ Accounts(listings, items, m)
          /\ \A i \in DOMAIN listings : listings[i].item = items[m] => listings[i].code = "ok"
      BY DEF RunOK, OpenIsScraped
    <2>3. p = Run(r.at, r.attempt, m, items, l)
      <3>1. p = [r EXCEPT !.listings = l]
        BY <1>2 DEF ItemFailed
      <3> HIDE DEF l
      <3> QED
        BY <2>1, <3>1, UpdatesOf
    <2>4. r.at \in Ats /\ r.attempt \in 0..TotalAttempts /\ m \in Nat
      BY <2>1, RunFields DEF Ats
    <2>5. q = ToItem(p, p.cursor + 1, "row")
      OBVIOUS
    <2> HIDE DEF items, listings, m, p
    <2>6. l \in Seq(Listings) /\ Accounts(l, items, m)
      BY <2>1, <2>2, AccountsAgain
    <2> HIDE DEF l
    <2>7. p.items = items /\ p.listings = l /\ p.cursor = m
      BY <2>3, RunRead
    <2>8. p \in RunState
      BY <2>1, <2>3, <2>4, <2>6, RunTyped
    <2>9. CancelOK(listings, p)
      BY <1>2 DEF CancelOK
    <2> DEFINE i == m + 1
    <2>10. i \in Nat /\ i > 0 /\ i = m + 1 /\ m \in 0..Len(items) /\ q = ToItem(p, i, "row")
      BY <2>1, <2>4, <2>5, <2>7
    <2> HIDE DEF i
    <2>11. Outcome(listings, q)
      BY <2>1, <2>6, <2>7, <2>8, <2>9, <2>10, ToItemOK
    <2> QED
      BY <2>11 DEF listings
  <1> QED
    BY <1>1, <1>2

\* A row that is scraped is listed, and its overlay is still open.
LEMMA ScrapedOK ==
  ASSUME NEW r, RunOK(r), r.at = "row"
  PROVE  Outcome(r.listings,
                 [r EXCEPT !.listings = Append(r.listings, Listing(r.items[r.cursor], "ok")),
                           !.at = "escape"])
  <1> DEFINE items == r.items
             listings == r.listings
             m == r.cursor
             l == Append(listings, Listing(items[m], "ok"))
             p == [r EXCEPT !.listings = l]
             q == [r EXCEPT !.listings = l, !.at = "escape"]
  <1>1. /\ r \in RunState /\ NoRepeat(items) /\ items \in Seq(Vacancies)
        /\ listings \in Seq(Listings) /\ Len(items) \in Nat /\ m \in 1..Len(items)
    BY AtItem
  <1>2. PICK k \in 0..Len(items) : m = k + 1 /\ Accounts(listings, items, k)
    BY AtItem
  <1>3. q = [p EXCEPT !.at = "escape"]
    OBVIOUS
  <1>4. "escape" \in Ats /\ r.attempt \in 0..TotalAttempts /\ m \in Nat /\ "ok" \in Codes
    BY <1>1, RunFields DEF Ats, Working, Codes
  <1>5. /\ l \in Seq(Listings) /\ Accounts(l, items, m)
        /\ \A i \in DOMAIN l : l[i].item = items[m] => l[i].code = "ok"
        /\ \A i \in DOMAIN l : (i \in DOMAIN listings /\ l[i] = listings[i]) \/ l[i].code = "ok"
    <2> HIDE DEF items, listings, m, p
    <2> QED
      BY <1>1, <1>2, <1>4, AccountsNext
  <1>6. p = Run(r.at, r.attempt, m, items, l)
    <2> HIDE DEF l
    <2> QED
      BY <1>1, UpdatesOf
  <1>0. SUFFICES Outcome(listings, q)
    OBVIOUS
  <1> HIDE DEF p, q, items, listings, m, l
  <1>7. q = Run("escape", r.attempt, m, items, l)
    BY <1>3, <1>6, OneUpdate
  <1>8. q.at = "escape" /\ q.items = items /\ q.listings = l /\ q.cursor = m
    BY <1>7, RunRead
  <1>9. q \in RunState
    BY <1>1, <1>4, <1>5, <1>7, RunTyped
  <1>10. RunOK(q)
    BY <1>1, <1>5, <1>8, <1>9 DEF RunOK, OpenIsScraped
  <1>11. CancelOK(listings, q)
    BY <1>5, <1>8 DEF CancelOK
  <1> QED
    BY <1>8, <1>10, <1>11 DEF Outcome, Working

-----------------------------------------------------------------------------
\* Every step of a run

\* What a step of the run of a target does, whichever step it is.
StepOf(t, q) ==
  /\ run' = [run EXCEPT ![t] = q]
  /\ Outcome(run[t].listings, q)
  /\ run[t].at \in Working \cup {"launch", "newPage"}
  /\ \/ browser' = browser
     \/ run[t].at = "launch" /\ browser' = [browser EXCEPT ![t] = "open"]
  /\ UNCHANGED <<aborted, reports, resolved>>

\* A run before it has found anything.
LEMMA Early ==
  ASSUME NEW r, RunOK(r),
         r.at \in {"launch", "newPage", "navigate", "more", "moreDelay", "rows"}
  PROVE  /\ r \in RunState /\ NoRepeat(r.items) /\ r.items = <<>> /\ r.listings = <<>>
         /\ r.attempt \in 0..TotalAttempts /\ r.cursor \in Nat
         /\ r = Run(r.at, r.attempt, r.cursor, r.items, r.listings)
  <1>1. r \in RunState /\ NoRepeat(r.items) /\ r.items = <<>> /\ r.listings = <<>>
    BY DEF RunOK
  <1> QED
    BY <1>1, RunFields, RunIsRecord

\* The documents of a page are vacancies.
LEMMA DocumentsAreVacancies ==
  ASSUME NEW documents \in Documents
  PROVE  documents \in Seq(Vacancies)
  <1>1. documents \in Seq(Range(documents))
    BY DocumentsAssumption
  <1>2. Range(documents) \subseteq Vacancies
    BY DEF Vacancies
  <1>3. \A i \in 1..Len(documents) : documents[i] \in Vacancies
    BY <1>1, <1>2
  <1> QED
    BY <1>1, <1>3

\* chromium.launch() answers or throws.
LEMMA LaunchOK ==
  ASSUME NEW t \in Targets, RunOK(run[t]), Launch(t), UNCHANGED <<reports, resolved>>
  PROVE  \E q : StepOf(t, q)
  <1> DEFINE r == run[t]
  <1>1. r.at = "launch"
    BY DEF Launch
  <1> HIDE DEF r
  <1>2. ASSUME NEW a \in {"newPage", "rejected"}, NEW q, q = [r EXCEPT !.at = a]
        PROVE  Outcome(r.listings, q)
    <2>1. /\ r \in RunState /\ NoRepeat(r.items) /\ r.items = <<>> /\ r.listings = <<>>
          /\ r.attempt \in 0..TotalAttempts /\ r.cursor \in Nat
      BY <1>1, Early DEF r
    <2>2. q = Run(a, r.attempt, r.cursor, r.items, r.listings)
      BY <1>2, <2>1, UpdatesOf
    <2> QED
      BY <2>1, <2>2, MoveOK
  <1>3. PICK a \in {"newPage", "rejected"} :
          /\ run' = [run EXCEPT ![t] = [r EXCEPT !.at = a]]
          /\ browser' = browser \/ browser' = [browser EXCEPT ![t] = "open"]
          /\ UNCHANGED aborted
    BY DEF Launch, Set, r
  <1> DEFINE q == [r EXCEPT !.at = a]
  <1>4. run' = [run EXCEPT ![t] = q] /\ Outcome(r.listings, q)
    BY <1>2, <1>3
  <1> HIDE DEF q
  <1> QED
    BY <1>1, <1>3, <1>4 DEF StepOf, r

\* newPage() answers or throws.
LEMMA NewPageOK ==
  ASSUME NEW t \in Targets, RunOK(run[t]), NewPage(t) \/ NewPageFails(t),
         UNCHANGED <<reports, resolved>>
  PROVE  \E q : StepOf(t, q)
  <1> DEFINE r == run[t]
             before == r.listings
             maxPages == MaxPages(t)
  <1>1. r.at = "newPage" /\ UNCHANGED <<aborted, browser>>
    BY DEF NewPage, NewPageFails
  <1>2. PICK q : /\ run' = [run EXCEPT ![t] = q]
                 /\ \/ q = ToPage(r, 1, maxPages)
                    \/ q = [r EXCEPT !.at = "navigate", !.attempt = 1]
                    \/ q = [r EXCEPT !.at = "rejected"]
    BY DEF NewPage, NewPageFails, Set
  <1>3. /\ r \in RunState /\ NoRepeat(r.items) /\ r.items = <<>> /\ r.listings = <<>>
        /\ r.attempt \in 0..TotalAttempts /\ r.cursor \in Nat
    BY <1>1, Early
  <1> HIDE DEF r, before, maxPages
  <1>4. ASSUME q = ToPage(r, 1, maxPages) PROVE Outcome(before, q)
    BY <1>3, <1>4, ToPageOK
  <1>5. ASSUME q = [r EXCEPT !.at = "navigate", !.attempt = 1] PROVE Outcome(before, q)
    <2> DEFINE p == [r EXCEPT !.at = "navigate"]
    <2>1. q = [p EXCEPT !.attempt = 1]
      BY <1>5
    <2>2. p = Run("navigate", r.attempt, r.cursor, r.items, r.listings)
      BY <1>3, UpdatesOf
    <2> HIDE DEF p
    <2>3. q = Run("navigate", 1, r.cursor, r.items, r.listings)
      BY <2>1, <2>2, OneUpdate
    <2>4. 1 \in 0..TotalAttempts
      BY TargetRunAssumption
    <2> QED
      BY <1>3, <2>3, <2>4, MoveOK
  <1>6. ASSUME q = [r EXCEPT !.at = "rejected"] PROVE Outcome(before, q)
    <2>1. q = Run("rejected", r.attempt, r.cursor, r.items, r.listings)
      BY <1>3, <1>6, UpdatesOf
    <2> QED
      BY <1>3, <2>1, MoveOK
  <1>7. Outcome(before, q)
    BY <1>2, <1>4, <1>5, <1>6
  <1> QED
    BY <1>1, <1>2, <1>7 DEF StepOf, r, before

\* A page of the jobs.ch search answers or fails.
LEMMA SearchOK ==
  ASSUME NEW t \in Targets, RunOK(run[t]), SearchAnswers(t, MaxPages(t)) \/ SearchFails(t),
         UNCHANGED <<reports, resolved>>
  PROVE  \E q : StepOf(t, q)
  <1> DEFINE r == run[t]
             before == r.listings
             maxPages == MaxPages(t)
  <1>1. r.at = "search" /\ UNCHANGED <<aborted, browser>>
    BY DEF SearchAnswers, SearchFails
  <1>2. r \in RunState /\ NoRepeat(r.items) /\ r.listings = <<>>
    BY <1>1 DEF RunOK
  <1>3. CASE SearchAnswers(t, maxPages)
    <2>1. PICK documents \in Documents, numPages \in 0..SitePages :
            LET p == [r EXCEPT !.items = Found(r.items, documents)] IN
            run' = [run EXCEPT ![t] =
              IF documents = <<>> \/ p.cursor >= numPages
              THEN ToItem(p, 1, "goto") ELSE ToPage(p, p.cursor + 1, maxPages)]
      BY <1>3 DEF SearchAnswers, Set
    <2> DEFINE items == Found(r.items, documents)
               p == [r EXCEPT !.items = items]
               q == IF documents = <<>> \/ p.cursor >= numPages
                    THEN ToItem(p, 1, "goto") ELSE ToPage(p, p.cursor + 1, maxPages)
    <2>2. run' = [run EXCEPT ![t] = q]
      BY <2>1
    <2> HIDE DEF r, before, maxPages
    <2>3. items \in Seq(Vacancies) /\ NoRepeat(items)
      <3>1. r.items \in Seq(Vacancies) /\ documents \in Seq(Vacancies)
        BY <1>2, RunFields, DocumentsAreVacancies
      <3> QED
        BY <1>2, <3>1, FoundIsASet
    <2> HIDE DEF items
    <2>4. p = Run(r.at, r.attempt, r.cursor, items, r.listings)
      BY <1>2, UpdatesOf
    <2>5. q = ToItem(p, 1, "goto") \/ q = ToPage(p, p.cursor + 1, maxPages)
      OBVIOUS
    <2> HIDE DEF p, q
    <2>6. p.cursor = r.cursor /\ p.items = items /\ p.listings = r.listings
      BY <2>4, RunRead
    <2>7. p \in RunState
      <3>1. /\ r.at \in Ats /\ r.attempt \in 0..TotalAttempts /\ r.cursor \in Nat
            /\ r.listings \in Seq(Listings)
        BY <1>2, RunFields DEF Ats
      <3> QED
        BY <2>3, <2>4, <3>1, RunTyped
    <2>8. ASSUME q = ToItem(p, 1, "goto") PROVE Outcome(before, q)
      <3>1. CancelOK(before, p) /\ 0 \in 0..Len(p.items) /\ Accounts(p.listings, p.items, 0)
        BY <1>2, <2>3, <2>6, AccountsNone DEF CancelOK, Accounts
      <3> QED
        BY <2>3, <2>6, <2>7, <2>8, <3>1, ToItemOK
    <2>9. ASSUME q = ToPage(p, p.cursor + 1, maxPages) PROVE Outcome(before, q)
      <3> DEFINE n == p.cursor + 1
      <3>1. n \in Nat /\ q = ToPage(p, n, maxPages)
        BY <2>7, <2>9, RunFields
      <3> HIDE DEF n
      <3> QED
        BY <1>2, <2>3, <2>6, <2>7, <3>1, ToPageOK
    <2>10. Outcome(before, q)
      BY <2>5, <2>8, <2>9
    <2> QED
      BY <1>1, <2>2, <2>10 DEF StepOf, Working, r, before
  <1>4. CASE SearchFails(t)
    <2> DEFINE failed == LeaveFailed(r)
               q == Retry(r, failed)
    <2>1. run' = [run EXCEPT ![t] = q]
      BY <1>4 DEF SearchFails, Set
    <2>2. failed = IF aborted THEN Leave(r, <<>>) ELSE Leave(r, <<Listing(None, "TARGET_FAILED")>>)
      BY DEF LeaveFailed
    <2>3. RunOK(r) /\ r.at \in Working /\ "TARGET_FAILED" \in Codes /\ before = r.listings
      BY <1>1 DEF Working, Codes
    <2>4. q = Retry(r, failed)
      OBVIOUS
    <2> HIDE DEF before, r, failed, q
    <2>5. Outcome(before, failed)
      BY <1>2, <2>2, <2>3, LeaveFailedOK
    <2>6. Outcome(before, q)
      BY <2>3, <2>4, <2>5, RetryOK
    <2> QED
      BY <1>1, <2>1, <2>6 DEF StepOf, Working, r, before
  <1> QED
    BY <1>3, <1>4

\* A vacancy of jobs.ch is opened and scraped, or fails at either.
LEMMA VisitOK ==
  ASSUME NEW t \in Targets, RunOK(run[t]), Goto(t) \/ Scrape(t), UNCHANGED <<reports, resolved>>
  PROVE  \E q : StepOf(t, q)
  <1> DEFINE r == run[t]
             before == r.listings
             Failed(code) == ToItem(ItemFailed(r, code), ItemFailed(r, code).cursor + 1, "goto")
             p == [r EXCEPT !.listings = Append(r.listings, Listing(r.items[r.cursor], "ok"))]
  <1>1. RunOK(r) /\ r.at \in {"goto", "scrape"} /\ UNCHANGED <<aborted, browser>>
    BY DEF Goto, Scrape
  <1>2. PICK q : /\ run' = [run EXCEPT ![t] = q]
                 /\ \/ r.at = "goto" /\ q = [r EXCEPT !.at = "scrape"]
                    \/ q = Retry(r, Failed("NAVIGATION_FAILED"))
                    \/ q = Failed("SCRAPE_FAILED")
                    \/ q = ToItem(p, p.cursor + 1, "goto")
    BY DEF Goto, Scrape, NextUrl, Set
  <1>3. /\ r \in RunState /\ before = r.listings
        /\ {"NAVIGATION_FAILED", "SCRAPE_FAILED", "ok"} \subseteq Codes
    BY <1>1 DEF RunOK, Codes
  <1>4. p = Run(r.at, r.attempt, r.cursor, r.items,
                Append(r.listings, Listing(r.items[r.cursor], "ok")))
    BY <1>3, UpdatesOf
  <1> HIDE DEF r, before, p
  <1>5. ASSUME r.at = "goto", q = [r EXCEPT !.at = "scrape"]
        PROVE  Outcome(before, q)
    <2>1. q = Run("scrape", r.attempt, r.cursor, r.items, r.listings)
      BY <1>3, <1>5, UpdatesOf
    <2>2. q.at = "scrape" /\ q.cursor = r.cursor /\ q.items = r.items /\ q.listings = r.listings
      BY <2>1, RunRead
    <2>3. q \in RunState
      <3>1. "scrape" \in Ats
        BY DEF Ats, Working
      <3> QED
        BY <1>3, <2>1, <3>1, RunTyped, RunFields
    <2>4. RunOK(q)
      BY <1>1, <1>5, <2>2, <2>3 DEF RunOK
    <2> QED
      BY <1>3, <2>2, <2>4 DEF Outcome, CancelOK, Working
  <1>6. \A code \in {"NAVIGATION_FAILED", "SCRAPE_FAILED"} : Outcome(before, Failed(code))
    BY <1>1, <1>3, FailedOK
  <1>7. ASSUME q = Retry(r, Failed("NAVIGATION_FAILED"))
        PROVE  Outcome(before, q)
    <2> DEFINE failed == Failed("NAVIGATION_FAILED")
    <2>1. q = Retry(r, failed) /\ Outcome(r.listings, failed)
      BY <1>3, <1>6, <1>7
    <2> HIDE DEF failed
    <2>2. r.at \in Working
      BY <1>1 DEF Working
    <2>3. Outcome(r.listings, q)
      BY <1>1, <2>1, <2>2, RetryOK
    <2> QED
      BY <1>3, <2>3
  <1>8. ASSUME q = ToItem(p, p.cursor + 1, "goto")
        PROVE  Outcome(before, q)
    <2>1. Outcome(r.listings, q)
      BY <1>1, <1>3, <1>4, <1>8, ListedOK
    <2> QED
      BY <1>3, <2>1
  <1>9. Outcome(before, q)
    BY <1>2, <1>5, <1>6, <1>7, <1>8
  <1> QED
    BY <1>1, <1>2, <1>9 DEF StepOf, Working, r, before

\* The search page of jobich.ch up to the counting of its rows.
LEMMA SearchPageOK ==
  ASSUME NEW t \in Targets, RunOK(run[t]), UNCHANGED <<reports, resolved>>,
         \/ Navigate(t, MaxPages(t)) \/ MoreAbsent(t) \/ MoreClicked(t)
         \/ MoreDelayEnds(t, MaxPages(t)) \/ SearchPageFails(t)
  PROVE  \E q : StepOf(t, q)
  <1> DEFINE r == run[t]
             before == r.listings
             maxPages == MaxPages(t)
             blocked == IF aborted THEN Leave(r, <<>>)
                        ELSE Leave(r, <<Listing(None, "NAVIGATION_FAILED")>>)
             failed == IF aborted THEN Leave(r, <<>>)
                       ELSE Leave(r, <<Listing(None, "TARGET_FAILED")>>)
  <1>1. /\ RunOK(r) /\ r.at \in {"navigate", "more", "moreDelay", "rows"}
        /\ UNCHANGED <<aborted, browser>>
    BY DEF Navigate, MoreAbsent, MoreClicked, MoreDelayEnds, SearchPageFails
  <1>2. PICK q : /\ run' = [run EXCEPT ![t] = q]
                 /\ \/ \E i \in {1, r.cursor + 1} : q = ToMore(r, i, maxPages)
                    \/ q = Retry(r, blocked)
                    \/ \E a \in {"rows", "moreDelay"} : q = [r EXCEPT !.at = a]
                    \/ q = failed
    BY DEF Navigate, MoreAbsent, MoreClicked, MoreDelayEnds, SearchPageFails, LeaveFailed, Set
  <1>3. /\ r \in RunState /\ NoRepeat(r.items) /\ r.items = <<>> /\ r.listings = <<>>
        /\ r.attempt \in 0..TotalAttempts /\ r.cursor \in Nat
    BY <1>1, Early
  <1>4. /\ before = r.listings /\ r.at \in Working
        /\ {"NAVIGATION_FAILED", "TARGET_FAILED"} \subseteq Codes
    BY <1>1 DEF Working, Codes
  <1>5. Outcome(before, blocked) /\ Outcome(before, failed)
    <2> HIDE DEF r, before
    <2> QED
      BY <1>3, <1>4, LeaveFailedOK
  <1> HIDE DEF r, before, maxPages, blocked, failed
  <1>6. ASSUME NEW i \in {1, r.cursor + 1}, q = ToMore(r, i, maxPages)
        PROVE  Outcome(before, q)
    <2>1. i \in Nat
      BY <1>3
    <2> QED
      BY <1>3, <1>6, <2>1, ToMoreOK
  <1>7. ASSUME NEW a \in {"rows", "moreDelay"}, q = [r EXCEPT !.at = a]
        PROVE  Outcome(before, q)
    <2>1. q = Run(a, r.attempt, r.cursor, r.items, r.listings)
      BY <1>3, <1>7, UpdatesOf
    <2> QED
      BY <1>3, <2>1, MoveOK
  <1>8. ASSUME q = Retry(r, blocked)
        PROVE  Outcome(before, q)
    BY <1>1, <1>4, <1>5, <1>8, RetryOK
  <1>9. Outcome(before, q)
    BY <1>2, <1>5, <1>6, <1>7, <1>8
  <1> QED
    BY <1>1, <1>2, <1>4, <1>9 DEF StepOf, r, before

\* The rows are vacancies.
LEMMA RowsAreVacancies ==
  1..Rows \subseteq Vacancies
  BY DEF Vacancies

\* The rows are counted, and each is scraped and closed, or fails at either.
LEMMA RowOK ==
  ASSUME NEW t \in Targets, RunOK(run[t]), CountRows(t) \/ ScrapeRow(t) \/ Escape(t),
         UNCHANGED <<reports, resolved>>
  PROVE  \E q : StepOf(t, q)
  <1> DEFINE r == run[t]
             before == r.listings
             failed == ToItem(ItemFailed(r, "SCRAPE_FAILED"),
                              ItemFailed(r, "SCRAPE_FAILED").cursor + 1, "row")
             scraped == [r EXCEPT !.listings = Append(r.listings, Listing(r.items[r.cursor], "ok")),
                                  !.at = "escape"]
             RowsFound(n) == ToItem([r EXCEPT !.items = [i \in 1..n |-> i]], 1, "row")
  <1>1. RunOK(r) /\ r.at \in {"rows", "row", "escape"} /\ UNCHANGED <<aborted, browser>>
    BY DEF CountRows, ScrapeRow, Escape
  <1>2. PICK q : /\ run' = [run EXCEPT ![t] = q]
                 /\ \/ r.at = "rows" /\ \E n \in 0..Rows : q = RowsFound(n)
                    \/ r.at = "row" /\ q = scraped
                    \/ r.at \in {"row", "escape"} /\ q = failed
                    \/ r.at = "escape" /\ q = ToItem(r, r.cursor + 1, "row")
    BY DEF CountRows, ScrapeRow, Escape, NextRow, Set
  <1>3. before = r.listings /\ "SCRAPE_FAILED" \in Codes /\ r.at \in Working
    BY <1>1 DEF Codes, Working
  <1> HIDE DEF before
  <1>4. ASSUME r.at = "rows", NEW n \in 0..Rows, q = RowsFound(n)
        PROVE  Outcome(before, q)
    <2> DEFINE items == [i \in 1..n |-> i]
               p == [r EXCEPT !.items = items]
    <2>1. items \in Seq(Vacancies) /\ NoRepeat(items)
      <3>1. n \in Nat /\ 1..n \subseteq Vacancies
        <4>1. 1..n \subseteq 1..Rows
          BY <1>4, RowsAssumption
        <4>2. 1..Rows \subseteq Vacancies
          BY RowsAreVacancies
        <4> QED
          BY <1>4, <4>1, <4>2, RowsAssumption
      <3>2. items \in [1..n -> Vacancies] /\ \A i \in 1..n : items[i] = i
        BY <3>1
      <3> HIDE DEF items
      <3> QED
        BY <3>1, <3>2 DEF NoRepeat
    <2>2. q = ToItem(p, 1, "row")
      BY <1>4
    <2> HIDE DEF r, items
    <2>3. /\ r \in RunState /\ r.listings = <<>> /\ r.attempt \in 0..TotalAttempts
          /\ r.cursor \in Nat /\ r.listings \in Seq(Listings) /\ r.at \in Ats
      BY <1>1, <1>4, Early, RunFields DEF Ats
    <2>4. p = Run(r.at, r.attempt, r.cursor, items, r.listings)
      BY <2>3, UpdatesOf
    <2> HIDE DEF p
    <2>5. p.items = items /\ p.listings = r.listings
      BY <2>4, RunRead
    <2>6. p \in RunState
      BY <2>1, <2>3, <2>4, RunTyped
    <2>7. CancelOK(before, p) /\ 0 \in 0..Len(p.items) /\ Accounts(p.listings, p.items, 0)
      BY <2>1, <2>3, <2>5, AccountsNone DEF CancelOK, Accounts
    <2> QED
      BY <2>1, <2>2, <2>5, <2>6, <2>7, ToItemOK
  <1>5. r.at = "row" => Outcome(before, scraped)
    <2> HIDE DEF r, scraped
    <2> QED
      BY <1>1, <1>3, ScrapedOK DEF scraped
  <1>6. r.at \in {"row", "escape"} => Outcome(before, failed)
    <2> HIDE DEF r, failed
    <2> QED
      BY <1>1, <1>3, FailedOK, EscapeFailedOK DEF failed
  <1>7. ASSUME r.at = "escape", q = ToItem(r, r.cursor + 1, "row")
        PROVE  Outcome(before, q)
    <2> HIDE DEF r
    <2> QED
      BY <1>1, <1>3, <1>7, UnlistedOK
  <1>8. Outcome(before, q)
    <2> HIDE DEF r, failed, scraped, RowsFound
    <2> QED
      BY <1>2, <1>4, <1>5, <1>6, <1>7
  <1> QED
    BY <1>1, <1>2, <1>3, <1>8 DEF StepOf, before

\* So every step of a run leaves it sound, and blames no site for a cancellation.
LEMMA RunStepOK ==
  ASSUME NEW t \in Targets, RunOK(run[t]), RunStep(t)
  PROVE  \E q : StepOf(t, q)
  BY LaunchOK, NewPageOK, SearchOK, VisitOK, SearchPageOK, RowOK DEF RunStep

-----------------------------------------------------------------------------
\* The invariant of the tool

Typed ==
  /\ aborted \in BOOLEAN /\ resolved \in BOOLEAN
  /\ DOMAIN run = Targets
  /\ browser \in [Targets -> {"none", "open", "closing", "closed", "stuck"}]
  /\ reports \in [Targets -> Seq(Seq(Listings))]

\* A target is announced exactly when its run is over and has not rejected, its browser
\* was asked to close by then, and what is announced is final.
TargetOK(t) ==
  /\ RunOK(run[t])
  /\ run[t].at \in {"idle", "launch"} => browser[t] = "none"
  /\ IF run[t].at = "settled"
     THEN /\ Len(reports[t]) = 1 /\ browser[t] \in {"none", "closed", "stuck"}
          /\ Final(reports[t][1], run[t].items)
     ELSE reports[t] = <<>>

IInv ==
  /\ Typed
  /\ \A t \in Targets : TargetOK(t)
  /\ resolved => \A t \in Targets : run[t].at \in {"settled", "rejected"}

\* It holds initially.
LEMMA InitOK ==
  ASSUME Init
  PROVE  IInv
  <1>1. 0 \in 0..TotalAttempts /\ 0 \in Nat
    BY TargetRunAssumption
  <1>2. <<>> \in Seq(Vacancies) /\ <<>> \in Seq(Listings) /\ <<>> \in Seq(Seq(Listings))
    OBVIOUS
  <1>3. Idle \in RunState /\ Idle.at = "idle" /\ Idle.items = <<>> /\ Idle.listings = <<>>
    BY <1>1, <1>2 DEF Idle, RunState
  <1>4. RunOK(Idle)
    BY <1>3 DEF RunOK, NoRepeat
  <1> QED
    BY <1>2, <1>3, <1>4 DEF Init, IInv, Typed, TargetOK

\* Aborting keeps what is final: only less has to be accounted for.
LEMMA FinalStays ==
  ASSUME NEW l, NEW items, Final(l, items), aborted => aborted'
  PROVE  Final(l, items)'
  BY DEF Final, IsTargetError, Accounts

\* And so does a run that is sound.
LEMMA RunStaysOK ==
  ASSUME NEW r, RunOK(r), aborted => aborted'
  PROVE  RunOK(r)'
  <1>1. r.at = "closing" => Final(r.listings, r.items)'
    BY FinalStays DEF RunOK
  <1> QED
    BY <1>1 DEF RunOK, Accounts, OpenIsScraped, RunState

\* What holds of a target goes on holding while its run does nothing.
LEMMA TargetStays ==
  ASSUME NEW t \in Targets, TargetOK(t), run'[t] = run[t], reports'[t] = reports[t],
         browser[t] \in {"none", "closed", "stuck"} => browser'[t] = browser[t], aborted => aborted'
  PROVE  TargetOK(t)'
  <1>1. PICK q, l, x : q = run[t] /\ l = reports[t][1] /\ x = run[t].items
    OBVIOUS
  <1>2. RunOK(q) /\ (q.at = "settled" => Final(l, x))
    BY <1>1 DEF TargetOK
  <1>3. RunOK(q)' /\ (q.at = "settled" => Final(l, x)')
    BY <1>2, RunStaysOK, FinalStays
  <1>4. RunOK(run[t])' /\ (run'[t].at = "settled" => Final(reports[t][1], run[t].items)')
    BY <1>1, <1>3
  <1> QED
    BY <1>4 DEF TargetOK

\* A step of one target's run keeps it.
LEMMA StepKeeps ==
  ASSUME IInv, NEW t \in Targets, NEW q, StepOf(t, q)
  PROVE  IInv'
  <1>1. /\ DOMAIN run' = Targets /\ run'[t] = q /\ \A u \in Targets : u # t => run'[u] = run[u]
        /\ UNCHANGED <<aborted, reports, resolved>>
    BY DEF StepOf, IInv, Typed
  <1>2. /\ browser' \in [Targets -> {"none", "open", "closing", "closed", "stuck"}]
        /\ \A u \in Targets : u # t => browser'[u] = browser[u]
    BY DEF StepOf, IInv, Typed
  <1>3. Typed'
    BY <1>1, <1>2 DEF IInv, Typed
  <1>4. /\ run[t].at \notin {"settled", "rejected"} /\ q.at \notin {"idle", "launch", "settled"}
        /\ RunOK(q)
    BY DEF StepOf, Outcome, Working
  <1>5. RunOK(q)'
    BY <1>1, <1>4, RunStaysOK
  <1>6. TargetOK(t)'
    <2>1. RunOK(run[t])'
      BY <1>1, <1>5
    <2>2. reports'[t] = <<>>
      BY <1>1, <1>4 DEF IInv, TargetOK
    <2> QED
      BY <1>1, <1>4, <2>1, <2>2 DEF TargetOK
  <1>7. ASSUME NEW u \in Targets, u # t
        PROVE  TargetOK(u)'
    BY <1>1, <1>2, <1>7, TargetStays DEF IInv
  <1>8. ~resolved
    BY <1>4 DEF IInv
  <1> QED
    BY <1>1, <1>3, <1>6, <1>7, <1>8 DEF IInv

-----------------------------------------------------------------------------
\* The steps of the tool

\* A target that is refused has one of the error codes.
LEMMA RefusalIsCode ==
  ASSUME NEW t \in Targets, aborted \in BOOLEAN, Refusal(t) # None
  PROVE  Refusal(t) \in Codes
  BY DEF Refusal, Codes

\* A run that has just been started or refused.
LEMMA IdleIs ==
  ASSUME NEW a \in {"launch", "settled"}, NEW q, q = Run(a, 0, 0, <<>>, <<>>)
  PROVE  RunOK(q) /\ q.at = a /\ q.items = <<>> /\ q.listings = <<>>
  <1>1. 0 \in 0..TotalAttempts /\ 0 \in Nat /\ a \in Ats
    BY TargetRunAssumption DEF Ats
  <1>2. <<>> \in Seq(Vacancies) /\ <<>> \in Seq(Listings)
    OBVIOUS
  <1>3. q.at = a /\ q.items = <<>> /\ q.listings = <<>>
    BY RunRead
  <1>4. q \in RunState
    BY <1>1, <1>2, RunTyped
  <1>5. RunOK(q)
    BY <1>3, <1>4 DEF RunOK, NoRepeat
  <1> QED
    BY <1>3, <1>5

\* What execute() does with a target before its first await.
LEMMA ExecuteDoes ==
  ASSUME IInv, Execute, NEW t \in Targets
  PROVE  /\ RunOK(run'[t]) /\ run'[t].items = <<>> /\ run'[t].listings = <<>>
         /\ run[t].at = "idle" /\ run[t].listings = <<>>
         /\ \/ run'[t].at = "launch" /\ reports'[t] = <<>>
            \/ /\ run'[t].at = "settled" /\ Len(reports'[t]) = 1
               /\ reports'[t] \in Seq(Seq(Listings)) /\ IsTargetError(reports'[t][1])
  <1>1. PICK a \in {"launch", "settled"} : a = (IF Refusal(t) = None THEN "launch" ELSE "settled")
    OBVIOUS
  <1>2. run'[t] = Run(a, 0, 0, <<>>, <<>>)
    <2>1. run'[t] = [Idle EXCEPT !.at = a]
      BY <1>1 DEF Execute
    <2> QED
      BY <2>1 DEF Idle, Run
  <1>3. RunOK(run'[t]) /\ run'[t].at = a /\ run'[t].items = <<>> /\ run'[t].listings = <<>>
    BY <1>2, IdleIs
  <1>4. run[t].at = "idle" /\ run[t].listings = <<>>
    BY DEF Execute, Idle
  <1>5. CASE Refusal(t) = None
    BY <1>1, <1>3, <1>4, <1>5 DEF Execute
  <1>6. CASE Refusal(t) # None
    <2> DEFINE l == <<Listing(None, Refusal(t))>>
    <2>1. Listing(None, Refusal(t)) \in Listings /\ Listing(None, Refusal(t)).item = None
      BY <1>6, RefusalIsCode DEF IInv, Typed, Listing, Listings
    <2>2. l \in Seq(Listings) /\ IsTargetError(l)
      BY <2>1 DEF IsTargetError
    <2>3. reports'[t] = <<l>>
      BY <1>6 DEF Execute
    <2> HIDE DEF l
    <2>4. Len(reports'[t]) = 1 /\ reports'[t] \in Seq(Seq(Listings)) /\ reports'[t][1] = l
      BY <2>2, <2>3
    <2> QED
      BY <1>1, <1>3, <1>4, <1>6, <2>2, <2>4
  <1> QED
    BY <1>5, <1>6

\* The start keeps the invariant.
LEMMA ExecuteKeeps ==
  ASSUME IInv, Execute
  PROVE  IInv'
  <1>1. UNCHANGED <<aborted, browser, resolved>> /\ DOMAIN run' = Targets
    BY DEF Execute
  <1>2. reports' \in [Targets -> Seq(Seq(Listings))]
    <2>1. \A t \in Targets : reports'[t] \in Seq(Seq(Listings))
      <3>1. <<>> \in Seq(Seq(Listings))
        OBVIOUS
      <3> QED
        BY <3>1, ExecuteDoes
    <2>2. DOMAIN reports' = Targets /\ reports' = [t \in Targets |-> reports'[t]]
      BY DEF Execute
    <2> QED
      BY <2>1, <2>2
  <1>3. ASSUME NEW t \in Targets
        PROVE  TargetOK(t)'
    <2>1. browser'[t] = "none"
      BY <1>1, ExecuteDoes DEF IInv, TargetOK
    <2>2. PICK q : q = run'[t]
      OBVIOUS
    <2>3. RunOK(q)
      BY <2>2, ExecuteDoes
    <2>4. RunOK(q)'
      BY <1>1, <2>3, RunStaysOK
    <2>5. RunOK(run[t])'
      BY <2>2, <2>4
    <2> QED
      BY <2>1, <2>5, ExecuteDoes DEF TargetOK, Final
  <1>4. ASSUME resolved', NEW t \in Targets
        PROVE  FALSE
    BY <1>1, <1>4, ExecuteDoes DEF IInv
  <1> QED
    BY <1>1, <1>2, <1>3, <1>4 DEF IInv, Typed

\* What the end of a target's run announces.
LEMMA FinishDoes ==
  ASSUME IInv, NEW t \in Targets, Finish(t)
  PROVE  /\ run[t].at = "closing" /\ reports[t] = <<>>
         /\ RunOK(run'[t]) /\ run'[t].at = "settled" /\ run'[t].items = run[t].items
         /\ run'[t].listings = run[t].listings
         /\ Len(reports'[t]) = 1 /\ reports'[t] \in Seq(Seq(Listings))
         /\ Final(reports'[t][1], run[t].items)
         /\ browser'[t] \in {"closed", "stuck"} /\ UNCHANGED <<aborted, resolved>>
         /\ \A u \in Targets : u # t => /\ run'[u] = run[u] /\ browser'[u] = browser[u]
                                        /\ reports'[u] = reports[u]
  <1> DEFINE r == run[t]
             q == [r EXCEPT !.at = "settled"]
             l == IF aborted /\ r.listings = <<>> THEN <<Listing(None, "CANCELLED")>>
                  ELSE r.listings
  <1>1. /\ r.at = "closing" /\ RunOK(r) /\ reports[t] = <<>>
        /\ DOMAIN run = Targets /\ DOMAIN browser = Targets /\ DOMAIN reports = Targets
    BY DEF Finish, IInv, Typed, TargetOK
  <1>2. /\ run' = [run EXCEPT ![t] = q] /\ UNCHANGED <<aborted, resolved>>
        /\ \E after \in {"closed", "stuck"} : browser' = [browser EXCEPT ![t] = after]
    BY DEF Finish, Set
  <1>3. reports' = [reports EXCEPT ![t] = Append(reports[t], l)]
    BY DEF Finish
  <1>4. r \in RunState /\ NoRepeat(r.items) /\ Final(r.listings, r.items)
    BY <1>1 DEF RunOK
  <1>5. l \in Seq(Listings) /\ Final(l, r.items)
    <2>1. "CANCELLED" \in Codes
      BY DEF Codes
    <2> HIDE DEF r
    <2> QED
      BY <1>4, <2>1, TargetErrorIsFinal, RunFields
  <1> HIDE DEF l
  <1>6. reports'[t] = <<l>>
    BY <1>1, <1>3
  <1>7. Len(reports'[t]) = 1 /\ reports'[t] \in Seq(Seq(Listings)) /\ reports'[t][1] = l
    BY <1>5, <1>6
  <1>8. /\ run'[t] = q
        /\ \A u \in Targets : u # t => /\ run'[u] = run[u] /\ browser'[u] = browser[u]
                                       /\ reports'[u] = reports[u]
        /\ browser'[t] \in {"closed", "stuck"}
    <2> HIDE DEF q
    <2> QED
      BY <1>1, <1>2, <1>3
  <1>9. RunOK(q) /\ q.at = "settled" /\ q.items = r.items /\ q.listings = r.listings
    <2> HIDE DEF r
    <2>1. q = Run("settled", r.attempt, r.cursor, r.items, r.listings)
      BY <1>4, UpdatesOf
    <2> HIDE DEF q
    <2>2. q.at = "settled" /\ q.items = r.items /\ q.listings = r.listings
      BY <2>1, RunRead
    <2>3. q \in RunState
      <3>1. "settled" \in Ats
        BY DEF Ats
      <3> QED
        BY <1>4, <2>1, <3>1, RunTyped, RunFields
    <2> QED
      BY <1>4, <2>2, <2>3 DEF RunOK, Working
  <1> HIDE DEF q
  <1> QED
    BY <1>1, <1>2, <1>5, <1>7, <1>8, <1>9

\* The end of a run keeps the invariant.
LEMMA FinishKeeps ==
  ASSUME IInv, NEW t \in Targets, Finish(t)
  PROVE  IInv'
  <1>1. Typed'
    <2>1. /\ DOMAIN run' = Targets /\ DOMAIN reports' = Targets
          /\ reports' = [u \in Targets |-> reports'[u]]
          /\ browser' \in [Targets -> {"none", "open", "closing", "closed", "stuck"}]
      BY DEF Finish, Set, IInv, Typed
    <2>2. \A u \in Targets : reports'[u] \in Seq(Seq(Listings))
      BY FinishDoes DEF IInv, Typed
    <2>3. UNCHANGED <<aborted, resolved>>
      BY FinishDoes
    <2> QED
      BY <2>1, <2>2, <2>3 DEF IInv, Typed
  <1>2. aborted' = aborted /\ resolved' = resolved
    BY FinishDoes
  <1>3. TargetOK(t)'
    <2>1. PICK q : q = run'[t]
      OBVIOUS
    <2>2. RunOK(q)
      BY <2>1, FinishDoes
    <2>3. RunOK(q)'
      BY <1>2, <2>2, RunStaysOK
    <2>4. RunOK(run[t])'
      BY <2>1, <2>3
    <2>5. Final(reports[t][1], run[t].items)'
      <3>1. PICK l, x : l = reports'[t][1] /\ x = run'[t].items
        OBVIOUS
      <3>2. Final(l, x)
        BY <3>1, FinishDoes
      <3>3. Final(l, x)'
        BY <1>2, <3>2, FinalStays
      <3> QED
        BY <3>1, <3>3
    <2> QED
      BY <2>4, <2>5, FinishDoes DEF TargetOK
  <1>4. ASSUME NEW u \in Targets, u # t
        PROVE  TargetOK(u)'
    BY <1>2, <1>4, FinishDoes, TargetStays DEF IInv
  <1>5. ~resolved
    BY FinishDoes DEF IInv
  <1> QED
    BY <1>1, <1>2, <1>3, <1>4, <1>5 DEF IInv

\* The abort keeps it, wherever each of the runs is.
LEMMA AbortKeeps ==
  ASSUME IInv, Abort, UNCHANGED <<reports, resolved>>
  PROVE  IInv'
  <1>1. aborted' = TRUE /\ UNCHANGED run
    BY DEF Abort
  <1>2. /\ browser' \in [Targets -> {"none", "open", "closing", "closed", "stuck"}]
        /\ \A t \in Targets : browser[t] \in {"none", "closed", "stuck"} => browser'[t] = browser[t]
    BY DEF Abort, IInv, Typed
  <1>3. Typed'
    BY <1>1, <1>2 DEF IInv, Typed
  <1>4. ASSUME NEW t \in Targets
        PROVE  TargetOK(t)'
    BY <1>1, <1>2, TargetStays DEF IInv
  <1> QED
    BY <1>1, <1>3, <1>4 DEF IInv

\* So does a close() of the listener that is rejected.
LEMMA ListenerFailsKeeps ==
  ASSUME IInv, NEW t \in Targets, ListenerFails(t), UNCHANGED <<reports, resolved>>
  PROVE  IInv'
  <1>1. UNCHANGED <<aborted, run>>
    BY DEF ListenerFails
  <1>2. /\ browser' \in [Targets -> {"none", "open", "closing", "closed", "stuck"}]
        /\ \A u \in Targets : browser[u] \in {"none", "closed", "stuck"} => browser'[u] = browser[u]
    BY DEF ListenerFails, IInv, Typed
  <1>3. Typed'
    BY <1>1, <1>2 DEF IInv, Typed
  <1>4. ASSUME NEW u \in Targets
        PROVE  TargetOK(u)'
    BY <1>1, <1>2, TargetStays DEF IInv
  <1> QED
    BY <1>1, <1>3, <1>4 DEF IInv

\* Resolving keeps it.
LEMMA ResolveKeeps ==
  ASSUME IInv, Resolve
  PROVE  IInv'
  <1>1. UNCHANGED <<aborted, run, browser, reports>> /\ resolved' = TRUE
    BY DEF Resolve
  <1>2. ASSUME NEW t \in Targets
        PROVE  TargetOK(t)'
    BY <1>1, TargetStays DEF IInv
  <1> QED
    BY <1>1, <1>2 DEF IInv, Typed, Resolve

\* A step of something else keeps it.
LEMMA StutterKeeps ==
  ASSUME IInv, UNCHANGED vars
  PROVE  IInv'
  <1>1. ASSUME NEW t \in Targets
        PROVE  TargetOK(t)'
    BY TargetStays DEF IInv, vars
  <1> QED
    BY <1>1 DEF IInv, Typed, vars

\* The invariant holds in every state: each run of execute() is sound at every await, and a
\* target is announced once, when its run is over.
THEOREM Invariance ==
  Spec => []IInv
  <1>1. Init => IInv
    BY InitOK
  <1>2. IInv /\ [Next]_vars => IInv'
    <2> SUFFICES ASSUME IInv, [Next]_vars
                 PROVE  IInv'
      OBVIOUS
    <2>1. CASE Execute
      BY <2>1, ExecuteKeeps
    <2>2. CASE Resolve
      BY <2>2, ResolveKeeps
    <2>3. CASE Abort /\ UNCHANGED <<reports, resolved>>
      BY <2>3, AbortKeeps
    <2>4. ASSUME NEW t \in Targets, RunStep(t)
          PROVE  IInv'
      <3>1. RunOK(run[t])
        BY DEF IInv, TargetOK
      <3>2. PICK q : StepOf(t, q)
        BY <2>4, <3>1, RunStepOK
      <3> QED
        BY <3>2, StepKeeps
    <2>5. ASSUME NEW t \in Targets, Finish(t)
          PROVE  IInv'
      BY <2>5, FinishKeeps
    <2>6. ASSUME NEW t \in Targets, ListenerFails(t), UNCHANGED <<reports, resolved>>
          PROVE  IInv'
      BY <2>6, ListenerFailsKeeps
    <2>7. CASE UNCHANGED vars
      BY <2>7, StutterKeeps
    <2> QED
      BY <2>1, <2>2, <2>3, <2>4, <2>5, <2>6, <2>7 DEF Next
  <1> QED
    BY <1>1, <1>2, PTL DEF Spec

\* No target is announced before its browser was asked to close, whichever way run() was left,
\* wherever the abort met it and whether or not the close() of its listener was rejected: the
\* finally block closes it again before the callback is called.  Once the tool has resolved, a
\* browser nobody asked to close is one whose newPage() failed.
THEOREM BrowsersAreNotForgotten ==
  Spec => []NoBrowserForgotten
  <1>1. IInv => NoBrowserForgotten
    <2> SUFFICES ASSUME IInv
                 PROVE  NoBrowserForgotten
      OBVIOUS
    <2>1. ASSUME NEW l \in Seq(Listings)
          PROVE  IsListings(l)
      <3>1. \A i \in DOMAIN l : l[i] \in Listings
        OBVIOUS
      <3>2. \A x \in Listings : x.code \in Codes
        BY DEF Listings
      <3> QED
        BY <3>1, <3>2 DEF IsListings
    <2>2. ASSUME NEW t \in Targets
          PROVE  /\ run[t].at \in Working \cup
                      {"idle", "launch", "newPage", "closing", "settled", "rejected"}
                 /\ run[t].attempt \in 0..TotalAttempts
                 /\ IsListings(run[t].listings)
                 /\ \A i \in DOMAIN reports[t] : IsListings(reports[t][i])
                 /\ reports[t] # <<>> => browser[t] \in {"none", "closed", "stuck"}
                 /\ resolved /\ browser[t] \in {"open", "closing"} => run[t].at = "rejected"
      <3>1. run[t] \in RunState /\ TargetOK(t)
        BY DEF IInv, TargetOK, RunOK
      <3>2. /\ run[t].at \in Working \cup
                  {"idle", "launch", "newPage", "closing", "settled", "rejected"}
            /\ run[t].attempt \in 0..TotalAttempts /\ run[t].listings \in Seq(Listings)
        BY <3>1, RunFields
      <3>3. \A i \in DOMAIN reports[t] : reports[t][i] \in Seq(Listings)
        BY DEF IInv, Typed
      <3>4. resolved => run[t].at \in {"settled", "rejected"}
        BY DEF IInv
      <3> QED
        BY <2>1, <3>1, <3>2, <3>3, <3>4 DEF TargetOK
    <2> QED
      BY <2>2 DEF IInv, Typed, NoBrowserForgotten, TypeOK
  <1> QED
    BY <1>1, Invariance, PTL

\* Listings that account for the first k items are of a prefix of the items.
LEMMA AccountsForPrefix ==
  ASSUME NEW listings, NEW items, NEW k, Len(items) \in Nat, DOMAIN items = 1..Len(items),
         NoRepeat(items), Accounts(listings, items, k)
  PROVE  ArePrefixOf(listings, items)
  <1>1. k \in 0..Len(items) /\ 1..k \subseteq DOMAIN items
    BY DEF Accounts
  <1>2. {listings[i].item : i \in DOMAIN listings} = {items[i] : i \in 1..k}
    BY DEF Accounts
  <1>3. \A p \in DOMAIN items : Position(items, items[p]) = p
    BY DEF Position, NoRepeat
  <1>4. ASSUME NEW i \in DOMAIN listings, NEW j \in DOMAIN listings, i < j
        PROVE  /\ Position(items, listings[i].item) <= Position(items, listings[j].item)
               /\ ~(listings[i] = listings[j])
    <2>1. PICK p \in 1..k : listings[i].item = items[p]
      BY DEF Accounts
    <2>2. PICK q \in 1..k : listings[j].item = items[q]
      BY DEF Accounts
    <2>3. p <= q /\ listings[i] # listings[j]
      BY <1>4, <2>1, <2>2 DEF Accounts
    <2>4. Position(items, items[p]) = p /\ Position(items, items[q]) = q
      BY <1>1, <1>3
    <2> QED
      BY <2>1, <2>2, <2>3, <2>4
  <1> QED
    BY <1>1, <1>2, <1>4 DEF ArePrefixOf

\* What is announced accounts for every vacancy found once and in order, or, after an abort,
\* for those before it without a gap, whatever the pages hold and whichever items fail.
THEOREM VacanciesAreAccounted ==
  Spec => []EveryVacancyAccounted
  <1>1. IInv => EveryVacancyAccounted
    <2> SUFFICES ASSUME IInv, NEW t \in Targets, NEW n \in DOMAIN reports[t]
                 PROVE  \/ IsTargetError(reports[t][n])
                        \/ /\ ArePrefixOf(reports[t][n], run[t].items)
                           /\ aborted \/ Range(run[t].items) =
                                {reports[t][n][i].item : i \in DOMAIN reports[t][n]}
      BY DEF EveryVacancyAccounted
    <2> DEFINE listings == reports[t][n]
               items == run[t].items
    <2>1. TargetOK(t) /\ reports[t] \in Seq(Seq(Listings)) /\ run[t] \in RunState
      BY DEF IInv, Typed, TargetOK, RunOK
    <2>2. NoRepeat(items) /\ Final(reports[t][1], items) /\ Len(reports[t]) = 1
      BY <2>1 DEF TargetOK, RunOK
    <2>3. n = 1
      BY <2>1, <2>2
    <2>4. items \in Seq(Vacancies) /\ Len(items) \in Nat /\ DOMAIN items = 1..Len(items)
      BY <2>1, RunFields
    <2>5. Final(listings, items)
      BY <2>2, <2>3
    <2> HIDE DEF listings, items
    <2>6. ASSUME NEW k \in 0..Len(items), Accounts(listings, items, k), aborted \/ k = Len(items)
          PROVE  /\ ArePrefixOf(listings, items)
                 /\ aborted \/ Range(items) = {listings[i].item : i \in DOMAIN listings}
      <3>1. ArePrefixOf(listings, items)
        <4>1. NoRepeat(items)
          BY <2>2
        <4> QED
          BY <2>4, <2>6, <4>1, AccountsForPrefix
      <3>2. CASE aborted
        BY <3>1, <3>2
      <3>3. CASE k = Len(items)
        <4>1. /\ \A i \in DOMAIN listings : \E p \in 1..k : listings[i].item = items[p]
              /\ \A p \in 1..k : \E i \in DOMAIN listings : listings[i].item = items[p]
          BY <2>6 DEF Accounts
        <4>2. Range(items) = {items[p] : p \in 1..k}
          BY <2>4, <3>3 DEF Range
        <4>3. Range(items) = {listings[i].item : i \in DOMAIN listings}
          BY <4>1, <4>2
        <4> QED
          BY <3>1, <4>3
      <3> QED
        BY <2>6, <3>2, <3>3
    <2> QED
      BY <2>5, <2>6 DEF Final, listings, items
  <1> QED
    BY <1>1, Invariance, PTL

\* No failure that follows the abort is recorded as one of the site: the loops look at
\* signal.aborted after every await that may fail.
THEOREM CancelBlamesNoSite ==
  Spec => CancelIsNotBlamed
  <1> DEFINE NotBlamed(t) ==
        (aborted /\ run'[t].listings # run[t].listings) =>
          \A i \in DOMAIN run'[t].listings :
            \/ i \in DOMAIN run[t].listings /\ run'[t].listings[i] = run[t].listings[i]
            \/ run'[t].listings[i].code = "ok"
  <1>1. IInv /\ [Next]_vars => [\A t \in Targets : NotBlamed(t)]_vars
    <2> SUFFICES ASSUME IInv, Next, NEW t \in Targets
                 PROVE  NotBlamed(t)
      OBVIOUS
    <2>1. CASE Execute
      BY <2>1, ExecuteDoes
    <2>2. CASE Resolve \/ Abort \/ \E u \in Targets : ListenerFails(u)
      BY <2>2 DEF Resolve, Abort, ListenerFails
    <2>3. ASSUME NEW u \in Targets, RunStep(u)
          PROVE  NotBlamed(t)
      <3>1. RunOK(run[u])
        BY DEF IInv, TargetOK
      <3>2. PICK q : StepOf(u, q)
        BY <2>3, <3>1, RunStepOK
      <3>3. DOMAIN run = Targets
        BY DEF IInv, Typed
      <3>4. CASE t = u
        <4>1. run'[t] = q /\ CancelOK(run[t].listings, q)
          BY <3>2, <3>3, <3>4 DEF StepOf, Outcome
        <4> QED
          BY <4>1 DEF CancelOK
      <3>5. CASE t # u
        BY <3>2, <3>3, <3>5 DEF StepOf
      <3> QED
        BY <3>4, <3>5
    <2>4. ASSUME NEW u \in Targets, Finish(u)
          PROVE  NotBlamed(t)
      <3>1. run'[t].listings = run[t].listings
        BY <2>4, FinishDoes
      <3> QED
        BY <3>1
    <2> QED
      BY <2>1, <2>2, <2>3, <2>4 DEF Next
  <1> QED
    BY <1>1, Invariance, PTL DEF Spec, CancelIsNotBlamed

-----------------------------------------------------------------------------
\* The abstract specification

\* The fate of a target is where its run is.
LEMMA FateIs ==
  ASSUME IInv, NEW t \in Targets
  PROVE  Fate(t) = IF run[t].at = "settled" THEN "reported"
                   ELSE IF run[t].at = "rejected" THEN "lost" ELSE "pending"
  <1>1. CASE run[t].at = "settled"
    <2>1. Len(reports[t]) = 1
      BY <1>1 DEF IInv, TargetOK
    <2>2. reports[t] # <<>>
      BY <2>1
    <2> QED
      BY <1>1, <2>1, <2>2 DEF Fate
  <1>2. CASE run[t].at # "settled"
    <2>1. reports[t] = <<>> /\ Len(reports[t]) = 0
      BY <1>2 DEF IInv, TargetOK
    <2> QED
      BY <1>2, <2>1 DEF Fate
  <1> QED
    BY <1>1, <1>2

\* The same in the next state.
LEMMA FateBecomes ==
  ASSUME IInv', NEW t \in Targets
  PROVE  Fate(t)' = IF run'[t].at = "settled" THEN "reported"
                    ELSE IF run'[t].at = "rejected" THEN "lost" ELSE "pending"
  <1>1. CASE run'[t].at = "settled"
    <2>1. Len(reports'[t]) = 1
      BY <1>1 DEF IInv, TargetOK
    <2>2. reports'[t] # <<>>
      BY <2>1
    <2> QED
      BY <1>1, <2>1, <2>2 DEF Fate
  <1>2. CASE run'[t].at # "settled"
    <2>1. reports'[t] = <<>> /\ Len(reports'[t]) = 0
      BY <1>2 DEF IInv, TargetOK
    <2> QED
      BY <1>2, <2>1 DEF Fate
  <1> QED
    BY <1>1, <1>2

Fates == [t \in Targets |-> Fate(t)]

\* A step that settles one pending target, or none, is a step of the contract.
LEMMA OneSettled ==
  ASSUME ~resolved, UNCHANGED resolved, NEW t \in Targets, Fate(t) = "pending",
         Fate(t)' \in {"pending", "reported", "lost"},
         \A u \in Targets : u # t => Fate(u)' = Fate(u)
  PROVE  Contract!Settle \/ UNCHANGED <<Fates, resolved>>
  <1>1. CASE Fate(t)' = "pending"
    BY <1>1 DEF Fates
  <1>2. CASE Fate(t)' # "pending"
    <2>1. PICK how \in [{t} -> {"reported", "lost"}] : how[t] = Fate(t)'
      <3>1. [u \in {t} |-> Fate(t)'] \in [{t} -> {"reported", "lost"}]
        BY <1>2
      <3> QED
        BY <3>1
    <2>2. {t} \in (SUBSET Targets) \ {{}}
      OBVIOUS
    <2>3. \A u \in {t} : Fates[u] = "pending"
      BY DEF Fates
    <2>4. Fates' = [u \in Targets |-> IF u \in {t} THEN how[u] ELSE Fates[u]]
      BY <2>1 DEF Fates
    <2> QED
      BY <2>1, <2>2, <2>3, <2>4 DEF Contract!Settle, Fates
  <1> QED
    BY <1>1, <1>2

\* The tool implements what the delegator relies on when it awaits execute(): a target is
\* announced at most once, never after the tool has resolved, and none is pending then.
THEOREM ToolKeepsContract ==
  Spec => ImplementsContract
  <1>1. Init => Contract!Init
    BY DEF Init, Idle, Contract!Init, Fate
  <1>2. IInv /\ IInv' /\ [Next]_vars =>
          [Contract!Settle \/ Contract!Resolve]_<<Fates, resolved>>
    <2> SUFFICES ASSUME IInv, IInv', [Next]_vars
                 PROVE  \/ Contract!Settle \/ Contract!Resolve
                        \/ UNCHANGED <<Fates, resolved>>
      OBVIOUS
    <2>1. CASE Execute
      <3> DEFINE S == {t \in Targets : run'[t].at = "settled"}
      <3>1. \A t \in Targets : /\ Fate(t) = "pending"
                               /\ Fate(t)' = IF t \in S THEN "reported" ELSE "pending"
        BY <2>1, ExecuteDoes, FateIs, FateBecomes
      <3>2. UNCHANGED resolved
        BY <2>1 DEF Execute
      <3>3. CASE S = {}
        BY <3>1, <3>2, <3>3 DEF Fates
      <3>4. CASE S # {}
        <4>1. ~resolved
          BY <2>1, <3>4, ExecuteDoes DEF IInv
        <4>2. PICK how \in [S -> {"reported", "lost"}] : \A t \in S : how[t] = "reported"
          <5>1. [t \in S |-> "reported"] \in [S -> {"reported", "lost"}]
            OBVIOUS
          <5> QED
            BY <5>1
        <4>3. S \in (SUBSET Targets) \ {{}}
          BY <3>4
        <4>4. \A t \in S : Fates[t] = "pending"
          BY <3>1 DEF Fates
        <4>5. Fates' = [t \in Targets |-> IF t \in S THEN how[t] ELSE Fates[t]]
          BY <3>1, <4>2 DEF Fates
        <4> HIDE DEF S
        <4> QED
          BY <3>2, <4>1, <4>2, <4>3, <4>4, <4>5 DEF Contract!Settle, Fates
      <3> QED
        BY <3>3, <3>4
    <2>2. CASE Resolve
      <3>1. \A t \in Targets : Fate(t) # "pending"
        BY <2>2, FateIs DEF Resolve
      <3>2. ~resolved /\ resolved' = TRUE /\ UNCHANGED <<run, reports>>
        BY <2>2 DEF Resolve
      <3>3. Fates' = Fates
        BY <3>2 DEF Fates, Fate
      <3> QED
        BY <3>1, <3>2, <3>3 DEF Contract!Resolve, Fates
    <2>3. CASE Abort /\ UNCHANGED <<reports, resolved>>
      BY <2>3 DEF Abort, Fates, Fate
    <2>4. ASSUME NEW t \in Targets, RunStep(t)
          PROVE  Contract!Settle \/ UNCHANGED <<Fates, resolved>>
      <3>1. RunOK(run[t]) /\ DOMAIN run = Targets
        BY DEF IInv, Typed, TargetOK
      <3>2. PICK q : StepOf(t, q)
        BY <2>4, <3>1, RunStepOK
      <3>3. /\ run[t].at \notin {"settled", "rejected"} /\ run'[t] = q
            /\ \A u \in Targets : u # t => run'[u] = run[u]
            /\ UNCHANGED resolved
        BY <3>1, <3>2 DEF StepOf, Working
      <3>4. ~resolved
        BY <3>3 DEF IInv
      <3>5. Fate(t) = "pending" /\ Fate(t)' \in {"pending", "reported", "lost"}
        BY <3>3, FateIs, FateBecomes
      <3>6. \A u \in Targets : u # t => Fate(u)' = Fate(u)
        BY <3>3, FateIs, FateBecomes
      <3> QED
        BY <3>3, <3>4, <3>5, <3>6, OneSettled
    <2>5. ASSUME NEW t \in Targets, Finish(t)
          PROVE  Contract!Settle \/ UNCHANGED <<Fates, resolved>>
      <3>1. /\ run[t].at = "closing" /\ UNCHANGED resolved
            /\ \A u \in Targets : u # t => run'[u] = run[u]
        BY <2>5, FinishDoes
      <3>2. ~resolved
        BY <3>1 DEF IInv
      <3>3. Fate(t) = "pending" /\ Fate(t)' \in {"pending", "reported", "lost"}
        BY <3>1, FateIs, FateBecomes
      <3>4. \A u \in Targets : u # t => Fate(u)' = Fate(u)
        BY <3>1, FateIs, FateBecomes
      <3> QED
        BY <3>1, <3>2, <3>3, <3>4, OneSettled
    <2>6. CASE \E t \in Targets : ListenerFails(t) /\ UNCHANGED <<reports, resolved>>
      BY <2>6 DEF ListenerFails, Fates, Fate
    <2>7. CASE UNCHANGED vars
      BY <2>7 DEF vars, Fates, Fate
    <2> QED
      BY <2>1, <2>2, <2>3, <2>4, <2>5, <2>6, <2>7 DEF Next
  <1> QED
    BY <1>1, <1>2, Invariance, PTL
       DEF Spec, ImplementsContract, Contract!Spec, Contract!cvars, Fates

=============================================================================

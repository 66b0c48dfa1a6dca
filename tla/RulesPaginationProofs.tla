----------------------- MODULE RulesPaginationProofs -----------------------
(***************************************************************************)
(* What RulesPagination promises for every page size, every listing and any *)
(* number of changes: the loop stays within the listing, and an undisturbed *)
(* fetch is exact.                                                          *)
(***************************************************************************)
EXTENDS RulesPagination, SequenceTheorems, TLAPS

\* Where a page begins, and where it ends in a listing of a given length.
From(n) == (n - 1) * PageSize
UpTo(n, len) == IF n * PageSize <= len THEN n * PageSize ELSE len

LEMMA Offsets ==
    ASSUME NEW n \in Nat \ {0}, NEW len \in Nat
    PROVE  /\ From(n) \in Nat /\ UpTo(n, len) \in Nat /\ PageSize \in Nat
           /\ From(n + 1) = From(n) + PageSize
           /\ UpTo(n, len) <= len
           /\ From(n) < len => From(n) < UpTo(n, len)
           /\ UpTo(n, len) < len => UpTo(n, len) = From(n + 1)
           /\ From(n) >= len => UpTo(n, len) = len
           /\ From(1) = 0
<1>1. PageSize \in Nat /\ PageSize > 0
  BY PaginationAssumption
<1>2. PICK k \in Nat : n = k + 1
  <2>1. n - 1 \in Nat /\ n = (n - 1) + 1
    OBVIOUS
  <2> QED BY <2>1
<1>3. k * PageSize \in Nat
  BY <1>1
<1>4. (k + 1) * PageSize = k * PageSize + PageSize
  BY <1>1
<1>5. From(n) = k * PageSize /\ From(n + 1) = n * PageSize /\ From(1) = 0
  BY <1>1, <1>2 DEF From
<1>6. n * PageSize = k * PageSize + PageSize
  BY <1>2, <1>4
<1> QED BY <1>1, <1>3, <1>5, <1>6 DEF UpTo

LEMMA PageProperties ==
    ASSUME NEW s \in Seq(Rules), NEW n \in Nat \ {0}
    PROVE  /\ Page(s, n) \in Seq(Rules)
           /\ From(n) < Len(s) =>
                 /\ Page(s, n) = SubSeq(s, From(n) + 1, UpTo(n, Len(s)))
                 /\ Len(Page(s, n)) = UpTo(n, Len(s)) - From(n)
           /\ From(n) >= Len(s) => Page(s, n) = <<>>
<1>1. Len(s) \in Nat
  BY LenProperties
<1>2. Page(s, n) = SubSeq(s, From(n) + 1, UpTo(n, Len(s)))
  BY DEF Page, From, UpTo
<1>3. CASE From(n) < Len(s)
  <2>1. /\ From(n) \in Nat /\ UpTo(n, Len(s)) \in Nat
        /\ From(n) < UpTo(n, Len(s)) /\ UpTo(n, Len(s)) <= Len(s)
    BY <1>1, <1>3, Offsets
  <2> DEFINE from == From(n)
             upto == UpTo(n, Len(s))
  <2>2. from + 1 \in Int /\ upto \in Int /\ from + 1 <= upto /\ upto <= Len(s) /\ from \in Nat
    BY <2>1
  <2> HIDE DEF from, upto
  <2>3. \A j \in from + 1..upto : s[j] \in Rules
    BY <1>1, <2>2
  <2>4. /\ SubSeq(s, from + 1, upto) \in Seq(Rules)
        /\ Len(SubSeq(s, from + 1, upto)) = upto - (from + 1) + 1
    BY <2>2, <2>3, SubSeqProperties
  <2>5. upto - (from + 1) + 1 = upto - from
    BY <2>2
  <2> QED BY <2>2, <2>4, <2>5, <1>2 DEF from, upto
<1>4. CASE From(n) >= Len(s)
  <2>1. From(n) \in Nat /\ UpTo(n, Len(s)) \in Nat /\ UpTo(n, Len(s)) = Len(s)
    BY <1>1, <1>4, Offsets
  <2>2. From(n) + 1 \in Int /\ UpTo(n, Len(s)) \in Int /\ UpTo(n, Len(s)) < From(n) + 1
    BY <1>4, <2>1
  <2>3. SubSeq(s, From(n) + 1, UpTo(n, Len(s))) = <<>>
    BY <2>2, SubSeqEmpty
  <2>4. Page(s, n) = <<>>
    BY <2>3, <1>2
  <2> QED BY <2>4, <2>1, <1>4
<1>5. From(n) \in Nat
  BY <1>1, Offsets
<1>6. From(n) < Len(s) \/ From(n) >= Len(s)
  BY <1>1, <1>5
<1> QED BY <1>3, <1>4, <1>6

----------------------------------------------------------------------------
(* Activating and deactivating a rule, as seen by the set of active rules.  *)

LEMMA InsertElements ==
    ASSUME NEW s \in Seq(Rules), NEW i \in 0..Len(s), NEW r \in Rules
    PROVE  LET t == SubSeq(s, 1, i) \o <<r>> \o SubSeq(s, i + 1, Len(s))
           IN  /\ t \in Seq(Rules)
               /\ Elements(t) = Elements(s) \cup {r}
<1> DEFINE t == SubSeq(s, 1, i) \o <<r>> \o SubSeq(s, i + 1, Len(s))
<1>1. Len(s) \in Nat /\ i \in Nat /\ i <= Len(s)
  BY LenProperties
<1>2. t \in Seq(Rules) /\ Len(t) = Len(s) + 1
  <2>1. SubSeq(s, 1, i) \in Seq(Rules) /\ Len(SubSeq(s, 1, i)) = i
    BY <1>1
  <2>2. SubSeq(s, i + 1, Len(s)) \in Seq(Rules) /\ Len(SubSeq(s, i + 1, Len(s))) = Len(s) - i
    BY <1>1
  <2>3. <<r>> \in Seq(Rules) /\ Len(<<r>>) = 1
    OBVIOUS
  <2>4. /\ SubSeq(s, 1, i) \o <<r>> \in Seq(Rules)
        /\ Len(SubSeq(s, 1, i) \o <<r>>) = i + 1
    BY <2>1, <2>3, ConcatProperties
  <2> DEFINE x == SubSeq(s, 1, i) \o <<r>>
             y == SubSeq(s, i + 1, Len(s))
  <2>5. x \in Seq(Rules) /\ y \in Seq(Rules) /\ Len(x) = i + 1 /\ Len(y) = Len(s) - i
    BY <2>2, <2>4
  <2>6. t = x \o y
    OBVIOUS
  <2> HIDE DEF x, y, t
  <2>7. x \o y \in Seq(Rules) /\ Len(x \o y) = Len(x) + Len(y)
    BY <2>5, ConcatProperties
  <2> QED BY <2>5, <2>6, <2>7, <1>1
<1>3. \A j \in 1..Len(t) :
          t[j] = IF j <= i THEN s[j] ELSE IF j = i + 1 THEN r ELSE s[j - 1]
  <2> DEFINE a == SubSeq(s, 1, i)
             b == SubSeq(s, i + 1, Len(s))
  <2>1. a \in Seq(Rules) /\ Len(a) = i /\ \A j \in 1..i : a[j] = s[j]
    BY <1>1
  <2>2. b \in Seq(Rules) /\ Len(b) = Len(s) - i /\ \A j \in 1..Len(s) - i : b[j] = s[i + j]
    BY <1>1
  <2>3. t = (a \o <<r>>) \o b
    OBVIOUS
  <2> DEFINE x == a \o <<r>>
             u == x \o b
  <2> HIDE DEF a, b, t
  <2>4. x \in Seq(Rules) /\ Len(x) = i + 1
    BY <2>1, <1>1
  <2>5. \A j \in 1..i + 1 : x[j] = IF j <= i THEN s[j] ELSE r
    BY <2>1, <1>1
  <2> HIDE DEF x
  <2>6. \A j \in 1..(i + 1) + (Len(s) - i) :
           u[j] = IF j <= i + 1 THEN x[j] ELSE b[j - (i + 1)]
    BY <2>2, <2>4, ConcatProperties
  <2>8. t = u
    BY <2>3 DEF x
  <2> HIDE DEF u
  <2>7. ASSUME NEW j \in 1..Len(s) + 1
        PROVE  t[j] = IF j <= i THEN s[j] ELSE IF j = i + 1 THEN r ELSE s[j - 1]
    <3>1. j \in 1..(i + 1) + (Len(s) - i)
      BY <1>1
    <3>2. CASE j <= i + 1
      <4>1. t[j] = x[j]
        BY <2>6, <2>8, <3>1, <3>2
      <4>2. x[j] = IF j <= i THEN s[j] ELSE r
        BY <2>5, <3>2
      <4> QED BY <1>1, <3>2, <4>1, <4>2
    <3>3. CASE j > i + 1
      <4>1. t[j] = b[j - (i + 1)]
        BY <1>1, <2>6, <2>8, <3>1, <3>3
      <4>2. j - (i + 1) \in 1..Len(s) - i /\ i + (j - (i + 1)) = j - 1
        BY <1>1, <3>3
      <4> QED BY <1>1, <2>2, <3>3, <4>1, <4>2
    <3> QED BY <1>1, <3>2, <3>3
  <2> QED BY <2>7, <1>2
<1> HIDE DEF t
<1>4. DOMAIN t = 1..Len(s) + 1 /\ DOMAIN s = 1..Len(s)
  BY <1>1, <1>2
<1>5. Elements(t) \subseteq Elements(s) \cup {r}
  <2>1. ASSUME NEW j \in 1..Len(s) + 1 PROVE t[j] \in Elements(s) \cup {r}
    <3>1. CASE j <= i
      BY <1>1, <1>2, <1>3, <1>4, <3>1 DEF Elements
    <3>2. CASE j = i + 1
      BY <1>1, <1>2, <1>3, <3>2
    <3>3. CASE j > i + 1
      <4>1. j - 1 \in 1..Len(s) /\ t[j] = s[j - 1]
        BY <1>1, <1>2, <1>3, <3>3
      <4> QED BY <4>1, <1>4 DEF Elements
    <3> QED BY <1>1, <3>1, <3>2, <3>3
  <2> QED BY <2>1, <1>4 DEF Elements
<1>6. r \in Elements(t)
  <2>1. i + 1 \in 1..Len(s) + 1 /\ t[i + 1] = r
    BY <1>1, <1>2, <1>3
  <2> QED BY <2>1, <1>4 DEF Elements
<1>7. Elements(s) \subseteq Elements(t)
  <2>1. ASSUME NEW j \in 1..Len(s) PROVE s[j] \in Elements(t)
    <3>1. CASE j <= i
      <4>1. j \in 1..Len(s) + 1 /\ t[j] = s[j]
        BY <1>1, <1>2, <1>3, <3>1
      <4> QED BY <4>1, <1>4 DEF Elements
    <3>2. CASE j > i
      <4>1. j + 1 \in 1..Len(s) + 1 /\ t[j + 1] = s[j]
        BY <1>1, <1>2, <1>3, <3>2
      <4> QED BY <4>1, <1>4 DEF Elements
    <3> QED BY <1>1, <3>1, <3>2
  <2> QED BY <2>1, <1>4 DEF Elements
<1> QED BY <1>2, <1>5, <1>6, <1>7 DEF t

LEMMA RemoveElements ==
    ASSUME NEW s \in Seq(Rules), NEW i \in DOMAIN s
    PROVE  LET t == SubSeq(s, 1, i - 1) \o SubSeq(s, i + 1, Len(s))
           IN  /\ t \in Seq(Rules)
               /\ Elements(t) \subseteq Elements(s)
               /\ Elements(s) \ {s[i]} \subseteq Elements(t)
<1> DEFINE t == SubSeq(s, 1, i - 1) \o SubSeq(s, i + 1, Len(s))
<1>1. Len(s) \in Nat /\ i \in 1..Len(s) /\ DOMAIN s = 1..Len(s)
  BY LenProperties
<1>2. t \in Seq(Rules) /\ Len(t) = Len(s) - 1
  BY <1>1
<1>3. \A j \in 1..Len(s) - 1 : t[j] = IF j < i THEN s[j] ELSE s[j + 1]
  <2> DEFINE a == SubSeq(s, 1, i - 1)
             b == SubSeq(s, i + 1, Len(s))
  <2>1. a \in Seq(Rules) /\ Len(a) = i - 1 /\ \A j \in 1..i - 1 : a[j] = s[j]
    BY <1>1
  <2>2. b \in Seq(Rules) /\ Len(b) = Len(s) - i /\ \A j \in 1..Len(s) - i : b[j] = s[i + j]
    BY <1>1
  <2>3. t = a \o b
    OBVIOUS
  <2> HIDE DEF a, b, t
  <2>4. \A j \in 1..(i - 1) + (Len(s) - i) :
           (a \o b)[j] = IF j <= i - 1 THEN a[j] ELSE b[j - (i - 1)]
    BY <2>1, <2>2, ConcatProperties
  <2>5. ASSUME NEW j \in 1..Len(s) - 1 PROVE t[j] = IF j < i THEN s[j] ELSE s[j + 1]
    <3>1. j \in 1..(i - 1) + (Len(s) - i)
      BY <1>1
    <3>2. t[j] = IF j <= i - 1 THEN a[j] ELSE b[j - (i - 1)]
      BY <2>3, <2>4, <3>1
    <3>3. CASE j < i
      BY <2>1, <3>2, <3>3, <1>1
    <3>4. CASE j >= i
      <4>1. j - (i - 1) \in 1..Len(s) - i /\ i + (j - (i - 1)) = j + 1
        BY <1>1, <3>4
      <4>2. t[j] = b[j - (i - 1)]
        BY <1>1, <3>2, <3>4
      <4> QED BY <2>2, <4>1, <4>2, <3>4, <1>1
    <3> QED BY <1>1, <3>3, <3>4
  <2> QED BY <2>5
<1> HIDE DEF t
<1>4. DOMAIN t = 1..Len(s) - 1
  BY <1>1, <1>2
<1>5. Elements(t) \subseteq Elements(s)
  <2>1. ASSUME NEW j \in 1..Len(s) - 1 PROVE t[j] \in Elements(s)
    BY <1>1, <1>3 DEF Elements
  <2> QED BY <2>1, <1>4 DEF Elements
<1>6. ASSUME NEW j \in 1..Len(s), s[j] # s[i] PROVE s[j] \in Elements(t)
  <2>1. CASE j < i
    <3>1. j \in 1..Len(s) - 1 /\ t[j] = s[j]
      BY <1>1, <1>3, <2>1
    <3> QED BY <3>1, <1>4 DEF Elements
  <2>2. CASE j > i
    <3>1. j - 1 \in 1..Len(s) - 1 /\ t[j - 1] = s[j]
      BY <1>1, <1>3, <2>2
    <3> QED BY <3>1, <1>4 DEF Elements
  <2> QED BY <1>1, <1>6, <2>1, <2>2
<1>7. Elements(s) \ {s[i]} \subseteq Elements(t)
  BY <1>1, <1>6 DEF Elements
<1> QED BY <1>2, <1>5, <1>7 DEF t

----------------------------------------------------------------------------
(* The inductive invariant.                                                 *)

\* What was fetched is a prefix of the listing as long as nothing changed; the
\* rules that never changed are listed, and all that is listed was active.
Prefix ==
    /\ always \subseteq Elements(list) /\ Elements(list) \subseteq ever
    /\ always = ever =>
          /\ phase = "fetch" =>
                Len(fetched) <= Len(list) /\ fetched = SubSeq(list, 1, Len(fetched))
          /\ phase = "done" => fetched = list

IInv == TypeOK /\ PagesInRange /\ Prefix

LEMMA InitIInv == Init => IInv
<1> SUFFICES ASSUME Init PROVE IInv
  OBVIOUS
<1>1. list \in Seq(Rules) /\ Len(list) \in Nat
  BY PaginationAssumption, LenProperties DEF Init
<1>2. Elements(list) \subseteq Rules
  BY <1>1 DEF Elements
<1>3. TypeOK
  BY <1>1, <1>2, PaginationAssumption DEF Init, TypeOK
<1>4. PagesInRange
  <2>1. (1 - 1) * PageSize = 0
    BY PaginationAssumption
  <2> QED BY <2>1 DEF Init, PagesInRange
<1>5. Prefix
  <2>1. SubSeq(list, 1, 0) = <<>>
    BY SubSeqEmpty
  <2> QED BY <1>1, <2>1 DEF Init, Prefix
<1> QED BY <1>3, <1>4, <1>5 DEF IInv

\* Fetching a page: a page that leaves the loop running was full.
LEMMA FetchStep == ASSUME IInv, FetchPage PROVE IInv'
<1> DEFINE all == fetched \o Page(list, page)
           len == Len(list)
<1>1. /\ list \in Seq(Rules) /\ fetched \in Seq(Rules) /\ page \in Nat \ {0}
      /\ len \in Nat /\ Len(fetched) \in Nat /\ phase = "fetch"
  BY LenProperties DEF IInv, TypeOK, FetchPage
<1>2. Len(fetched) = From(page)
  BY <1>1 DEF IInv, PagesInRange, From
<1>3. all \in Seq(Rules) /\ Len(all) = Len(fetched) + Len(Page(list, page))
  BY <1>1, PageProperties, ConcatProperties
<1>4. /\ fetched' = all /\ total' = len
      /\ UNCHANGED <<list, always, ever, changes, faults>>
      /\ IF Len(all) >= len THEN phase' = "done" /\ page' = page
                            ELSE phase' = "fetch" /\ page' = page + 1
  BY <1>1 DEF FetchPage, Enough, NextPage
<1>5. /\ From(page) < len => Len(all) = UpTo(page, len)
      /\ From(page) >= len => all = fetched
  <2>1. CASE From(page) < len
    <3>1. Len(Page(list, page)) = UpTo(page, len) - From(page)
      BY <1>1, <2>1, PageProperties
    <3>2. From(page) \in Nat /\ UpTo(page, len) \in Nat
      BY <1>1, Offsets
    <3> QED BY <1>2, <1>3, <2>1, <3>1, <3>2
  <2>2. CASE From(page) >= len
    <3>1. Page(list, page) = <<>>
      BY <1>1, <2>2, PageProperties
    <3>2. From(page) \in Nat
      BY <1>1, Offsets
    <3> QED BY <1>1, <2>2, <3>1, <3>2, ConcatEmptySeq
  <2>3. From(page) \in Nat
    BY <1>1, Offsets
  <2> QED BY <1>1, <2>1, <2>2, <2>3
<1> HIDE DEF all, len
<1>6. Len(all) < len => Len(all) = From(page + 1) /\ From(page) < len
  <2>1. SUFFICES ASSUME Len(all) < len PROVE Len(all) = From(page + 1) /\ From(page) < len
    OBVIOUS
  <2>2. From(page) \in Nat /\ UpTo(page, len) \in Nat
    BY <1>1, Offsets
  <2>3. From(page) < len
    BY <1>1, <1>2, <1>5, <2>1, <2>2
  <2> QED BY <1>1, <1>5, <2>1, <2>3, Offsets
<1>7. TypeOK'
  BY <1>1, <1>3, <1>4 DEF IInv, TypeOK
<1>8. PagesInRange'
  <2>1. CASE Len(all) >= len
    BY <1>4, <2>1 DEF PagesInRange
  <2>2. CASE ~(Len(all) >= len)
    <3>1. Len(all) < len
      BY <1>1, <1>3, <2>2, LenProperties
    <3>2. (page' - 1) * PageSize = From(page')
      BY DEF From
    <3> QED BY <1>4, <1>6, <2>2, <3>1, <3>2 DEF PagesInRange
  <2> QED BY <2>1, <2>2
<1>9. Prefix'
  <2>1. always' \subseteq Elements(list') /\ Elements(list') \subseteq ever'
    BY <1>4 DEF IInv, Prefix
  <2>2. SUFFICES ASSUME always = ever
                 PROVE  Len(all) <= len /\ all = SubSeq(list, 1, Len(all))
    <3>1. Len(all) \in Nat
      BY <1>3, LenProperties
    <3>2. len = Len(list) /\ SubSeq(list, 1, len) = list
      BY <1>1, SubSeqFull DEF len
    <3>3. always' = ever' => (phase' = "fetch" =>
               Len(fetched') <= Len(list') /\ fetched' = SubSeq(list', 1, Len(fetched')))
      BY <1>4, <3>2, <2>2
    <3>4. always' = ever' => (phase' = "done" => fetched' = list')
      <4> SUFFICES ASSUME always' = ever', phase' = "done" PROVE fetched' = list'
        OBVIOUS
      <4>1. always = ever
        BY <1>4
      <4>2. all = SubSeq(list, 1, Len(all))
        BY <2>2, <4>1
      <4>3. Len(all) = len
        <5>1. len \in Nat
          BY <1>1, <3>2, LenProperties
        <5>2. Len(all) >= len
          BY <1>4
        <5>3. Len(all) <= len
          BY <2>2, <4>1
        <5> QED BY <5>1, <5>2, <5>3, <3>1
      <4> QED BY <1>4, <3>2, <4>2, <4>3
    <3> QED BY <2>1, <3>3, <3>4 DEF Prefix
  <2>3. Len(fetched) <= len /\ fetched = SubSeq(list, 1, Len(fetched))
    BY <1>1, <2>2 DEF IInv, Prefix, len
  <2>4. CASE From(page) >= len
    BY <1>5, <2>3, <2>4
  <2>5. CASE From(page) < len
    <3>1. From(page) \in Nat /\ UpTo(page, len) \in Nat /\ UpTo(page, len) <= len
          /\ From(page) < UpTo(page, len)
      BY <1>1, <2>5, Offsets
    <3>2. Page(list, page) = SubSeq(list, From(page) + 1, UpTo(page, len))
      BY <1>1, <2>5, PageProperties DEF len
    <3>3. SubSeq(list, 1, From(page)) \o SubSeq(list, From(page) + 1, UpTo(page, len))
             = SubSeq(list, 1, UpTo(page, len))
      <4>1. /\ 1 \in 1..Len(list) + 1
            /\ From(page) \in 1 - 1..Len(list)
            /\ UpTo(page, len) \in From(page)..Len(list)
        BY <1>1, <3>1 DEF len
      <4> QED BY <1>1, <4>1, ConcatAdjacentSubSeq
    <3>4. all = SubSeq(list, 1, UpTo(page, len))
      BY <1>2, <2>3, <3>2, <3>3 DEF all
    <3> QED BY <1>5, <2>5, <3>1, <3>4
  <2>6. From(page) \in Nat
    BY <1>1, Offsets
  <2> QED BY <1>1, <2>4, <2>5, <2>6
<1> QED BY <1>7, <1>8, <1>9 DEF IInv

\* A failed call, and the next Observe.
LEMMA OtherSteps == ASSUME IInv, FetchFails \/ Poll PROVE IInv'
<1>1. list \in Seq(Rules) /\ Len(list) \in Nat /\ <<>> \in Seq(Rules)
  BY LenProperties DEF IInv, TypeOK
<1>2. CASE FetchFails
  BY <1>1, <1>2 DEF IInv, TypeOK, PagesInRange, Prefix, FetchFails
<1>3. CASE Poll
  <2>1. (1 - 1) * PageSize = 0 /\ SubSeq(list, 1, 0) = <<>>
    BY PaginationAssumption, SubSeqEmpty
  <2>2. Elements(list) \subseteq Rules
    BY <1>1 DEF Elements
  <2>3. TypeOK'
    BY <1>1, <1>3, <2>2 DEF IInv, TypeOK, Poll, Begin
  <2>4. PagesInRange'
    BY <1>3, <2>1 DEF PagesInRange, Poll
  <2>5. Prefix'
    <3>1. fetched' = <<>> /\ Len(fetched') = 0 /\ list' = list /\ phase' = "fetch"
          /\ always' = Elements(list) /\ ever' = Elements(list)
      BY <1>3 DEF Poll, Begin
    <3>2. Elements(list') = Elements(list)
      BY <3>1
    <3> QED BY <1>1, <2>1, <3>1, <3>2 DEF Prefix
  <2> QED BY <2>3, <2>4, <2>5 DEF IInv
<1> QED BY <1>2, <1>3

\* A change of the listing: the fetch is disturbed from then on.
LEMMA ChangeSteps ==
    ASSUME IInv, (\E r \in Rules : Activate(r)) \/ Deactivate PROVE IInv'
<1>1. /\ list \in Seq(Rules) /\ Len(list) \in Nat
      /\ always \subseteq Elements(list) /\ Elements(list) \subseteq ever
  BY LenProperties DEF IInv, TypeOK, Prefix
<1>2. Change
  BY DEF Activate, Deactivate
<1>3. UNCHANGED <<page, fetched, total, phase, faults>> /\ changes' \in Nat
  BY <1>2 DEF Change, fetchVars, IInv, TypeOK
<1>4. /\ list' \in Seq(Rules) /\ always' \in SUBSET Rules /\ ever' \in SUBSET Rules
      /\ always' \subseteq Elements(list') /\ Elements(list') \subseteq ever'
      /\ always' # ever'
  <2>1. ASSUME NEW r \in Rules, Activate(r) PROVE <1>4
    <3>1. PICK i \in 0..Len(list) :
              list' = SubSeq(list, 1, i) \o <<r>> \o SubSeq(list, i + 1, Len(list))
      BY <2>1 DEF Activate
    <3>2. list' \in Seq(Rules) /\ Elements(list') = Elements(list) \cup {r}
      BY <1>1, <3>1, InsertElements
    <3>3. always' = always /\ ever' = ever \cup {r} /\ r \notin Elements(list)
      BY <2>1 DEF Activate
    <3> QED BY <1>1, <3>2, <3>3 DEF IInv, TypeOK
  <2>2. ASSUME Deactivate PROVE <1>4
    <3>1. PICK i \in DOMAIN list :
              /\ list' = SubSeq(list, 1, i - 1) \o SubSeq(list, i + 1, Len(list))
              /\ always' = always \ {list[i]}
      BY <2>2 DEF Deactivate
    <3>2. /\ list' \in Seq(Rules) /\ Elements(list') \subseteq Elements(list)
          /\ Elements(list) \ {list[i]} \subseteq Elements(list')
      BY <1>1, <3>1, RemoveElements
    <3>3. ever' = ever /\ list[i] \in Elements(list)
      BY <2>2, <3>1 DEF Deactivate, Elements
    <3> QED BY <1>1, <3>1, <3>2, <3>3 DEF IInv, TypeOK
  <2> QED BY <2>1, <2>2
<1> QED BY <1>3, <1>4 DEF IInv, TypeOK, PagesInRange, Prefix

LEMMA StepIInv == IInv /\ [Next]_vars => IInv'
<1> SUFFICES ASSUME IInv, [Next]_vars PROVE IInv'
  OBVIOUS
<1>1. CASE FetchPage
  BY <1>1, FetchStep
<1>2. CASE FetchFails \/ Poll
  BY <1>2, OtherSteps
<1>3. CASE (\E r \in Rules : Activate(r)) \/ Deactivate
  BY <1>3, ChangeSteps
<1>4. CASE UNCHANGED vars
  BY <1>4 DEF vars, IInv, TypeOK, PagesInRange, Prefix
<1> QED BY <1>1, <1>2, <1>3, <1>4 DEF Next

----------------------------------------------------------------------------
(* The theorems.                                                            *)

\* FetchAllQualityProfileRules asks for no page beyond the end of the listing
\* it was told of, for every page size, every listing and every interleaving
\* with changes: the unbounded loop cannot spin.
THEOREM FetchStaysInRange == Spec => []PagesInRange
<1>1. IInv => PagesInRange
  BY DEF IInv
<1> QED BY InitIInv, StepIInv, <1>1, PTL DEF Spec

\* A fetch nobody disturbed returns exactly the listing, in its order.
THEOREM UndisturbedFetchIsExact == Spec => []ExactUndisturbed
<1>1. IInv => ExactUndisturbed
  BY DEF IInv, Prefix, ExactUndisturbed
<1> QED BY InitIInv, StepIInv, <1>1, PTL DEF Spec

\* Every variable keeps its type.
THEOREM PaginationTypeCorrect == Spec => []TypeOK
<1>1. IInv => TypeOK
  BY DEF IInv
<1> QED BY InitIInv, StepIInv, <1>1, PTL DEF Spec
============================================================================

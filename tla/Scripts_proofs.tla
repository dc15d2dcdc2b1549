--------------------------- MODULE Scripts_proofs ---------------------------
(***************************************************************************)
(* The Python programs.                                                    *)
(*                                                                         *)
(* The list of database.py keeps its invariant, and is the top as long as  *)
(* the counts are totals: for every width of the plot, all urls and counts *)
(* and every sequence of pushes.  Then the file between the thread of the  *)
(* reader and the plot: whatever the board sends, whichever thread has the *)
(* port, and whenever a program is killed or started again.                *)
(*                                                                         *)
(* The table of log_file_parse.py sums up the log, for all packets and any *)
(* number of them and of capture files.                                    *)
(***************************************************************************)
EXTENDS Visualizer, LogFileParse, FiniteSetTheorems, SequenceTheorems, TLAPS

-----------------------------------------------------------------------------
(* What a sort does to a list of entries.                                  *)

(* The order of a sort is a permutation of the places.                     *)
LEMMA OrderIsPermutation ==
    ASSUME NEW s \in Seq(Entry), NEW p \in Orders(s)
    PROVE  /\ p \in [1 .. Len(s) -> 1 .. Len(s)]
           /\ \A i, j \in 1 .. Len(s) : p[i] = p[j] => i = j
           /\ \A k \in 1 .. Len(s) : \E i \in 1 .. Len(s) : p[i] = k
<1> DEFINE n == Len(s)
<1>1. n \in Nat /\ DOMAIN s = 1 .. n
  BY LenProperties
<1>2. p \in [1 .. n -> 1 .. n]
  BY <1>1 DEF Orders
<1>3. \A k \in 1 .. n : s[k].count \in Nat
  <2>1. \A k \in 1 .. n : s[k] \in Entry
    BY <1>1, ElementOfSeq
  <2> QED
    BY <2>1, DatabaseAssumption DEF Entry
<1>4. \A i, j \in 1 .. n : i < j => p[i] # p[j]
  <2> SUFFICES ASSUME NEW i \in 1 .. n, NEW j \in 1 .. n, i < j, p[i] = p[j]
               PROVE  FALSE
    OBVIOUS
  <2>1. Before(s, p[i], p[j])
    BY <1>1 DEF Orders
  <2> QED
    BY <2>1, <1>2, <1>3 DEF Before
<1>5. \A i, j \in 1 .. n : p[i] = p[j] => i = j
  BY <1>4, <1>1
<1>6. p \in Injection(1 .. n, 1 .. n)
  BY <1>2, <1>5 DEF Injection, IsInjective
<1>7. p \in Surjection(1 .. n, 1 .. n)
  <2>1. IsFiniteSet(1 .. n)
    BY <1>1, FS_Interval
  <2> QED
    BY <1>6, <2>1, FS_Injection
<1> QED
  BY <1>2, <1>5, <1>7 DEF Surjection

(* The result of a sort: the same entries, each once, the greatest first.  *)
LEMMA SortedIsRearranged ==
    ASSUME NEW s \in Seq(Entry), NEW t \in Sorted(s)
    PROVE  /\ t \in Seq(Entry) /\ Len(t) = Len(s)
           /\ \A i, j \in 1 .. Len(s) : i < j => t[i].count >= t[j].count
           /\ \E p \in [1 .. Len(s) -> 1 .. Len(s)] :
                 /\ \A i \in 1 .. Len(s) : t[i] = s[p[i]]
                 /\ \A i, j \in 1 .. Len(s) : p[i] = p[j] => i = j
                 /\ \A k \in 1 .. Len(s) : \E i \in 1 .. Len(s) : p[i] = k
<1> DEFINE n == Len(s)
<1>1. DOMAIN s = 1 .. n /\ n \in Nat
  BY LenProperties
<1>2. PICK p \in Orders(s) : t = [i \in 1 .. n |-> s[p[i]]]
  BY <1>1 DEF Sorted
<1>3. /\ p \in [1 .. n -> 1 .. n]
      /\ \A i, j \in 1 .. n : p[i] = p[j] => i = j
      /\ \A k \in 1 .. n : \E i \in 1 .. n : p[i] = k
  BY OrderIsPermutation
<1>4. \A k \in 1 .. n : s[k] \in Entry
  BY <1>1, ElementOfSeq
<1>5. t \in Seq(Entry) /\ Len(t) = n
  <2>1. \A i \in 1 .. n : s[p[i]] \in Entry
    BY <1>3, <1>4
  <2> QED
    BY <1>1, <1>2, <2>1, IsASeq
<1>6. \A i, j \in 1 .. n : i < j => t[i].count >= t[j].count
  <2> SUFFICES ASSUME NEW i \in 1 .. n, NEW j \in 1 .. n, i < j
               PROVE  t[i].count >= t[j].count
    OBVIOUS
  <2>1. Before(s, p[i], p[j])
    BY <1>1 DEF Orders
  <2>2. s[p[i]].count \in Nat /\ s[p[j]].count \in Nat
    BY <1>3, <1>4, DatabaseAssumption DEF Entry
  <2> QED
    BY <1>2, <2>1, <2>2 DEF Before
<1> QED
  BY <1>2, <1>3, <1>5, <1>6

(* An entry with a new url put into a list in which every url is once.     *)
LEMMA PutInPlace ==
    ASSUME NEW rest \in Seq(Entry), NEW e \in Entry,
           \A i, j \in 1 .. Len(rest) : rest[i].url = rest[j].url => i = j,
           \A i \in 1 .. Len(rest) : rest[i].url # e.url,
           NEW t \in Sorted(Append(rest, e))
    PROVE  /\ t \in Seq(Entry) /\ Len(t) = Len(rest) + 1
           /\ \A i, j \in 1 .. Len(t) : i < j => t[i].count >= t[j].count
           /\ \A i, j \in 1 .. Len(t) : t[i].url = t[j].url => i = j
           /\ \A i \in 1 .. Len(t) : t[i] = e \/ \E j \in 1 .. Len(rest) : t[i] = rest[j]
           /\ \E i \in 1 .. Len(t) : t[i] = e
           /\ \A j \in 1 .. Len(rest) : \E i \in 1 .. Len(t) : t[i] = rest[j]
<1> DEFINE s == Append(rest, e)
           n == Len(s)
<1>1. /\ s \in Seq(Entry) /\ n = Len(rest) + 1 /\ n \in Nat /\ Len(rest) \in Nat
      /\ s[n] = e /\ \A i \in 1 .. n - 1 : s[i] = rest[i]
  BY LenProperties, AppendProperties
<1>2. Len(rest) \in Nat /\ n = Len(rest) + 1
  BY <1>1
<1>3. \A i, j \in 1 .. n : s[i].url = s[j].url => i = j
  BY <1>2, <1>1
<1>4. s \in Seq(Entry) /\ t \in Sorted(s)
  BY <1>1
<1> HIDE DEF s
<1>s. /\ t \in Seq(Entry) /\ Len(t) = n
      /\ \A i, j \in 1 .. n : i < j => t[i].count >= t[j].count
      /\ \E p \in [1 .. n -> 1 .. n] :
            /\ \A i \in 1 .. n : t[i] = s[p[i]]
            /\ \A i, j \in 1 .. n : p[i] = p[j] => i = j
            /\ \A k \in 1 .. n : \E i \in 1 .. n : p[i] = k
  BY <1>4, SortedIsRearranged, Zenon
<1> HIDE DEF n
<1>5. /\ t \in Seq(Entry) /\ Len(t) = n
      /\ \A i, j \in 1 .. n : i < j => t[i].count >= t[j].count
  BY <1>s
<1>6. PICK p \in [1 .. n -> 1 .. n] :
         /\ \A i \in 1 .. n : t[i] = s[p[i]]
         /\ \A i, j \in 1 .. n : p[i] = p[j] => i = j
         /\ \A k \in 1 .. n : \E i \in 1 .. n : p[i] = k
  BY <1>s
<1>p. \A i \in 1 .. n : p[i] \in 1 .. n
  BY <1>6
<1>7. \A i, j \in 1 .. n : t[i].url = t[j].url => i = j
  <2> SUFFICES ASSUME NEW i \in 1 .. n, NEW j \in 1 .. n, t[i].url = t[j].url
               PROVE  i = j
    OBVIOUS
  <2>1. s[p[i]].url = s[p[j]].url
    BY <1>6
  <2>2. p[i] = p[j]
    BY <2>1, <1>p, <1>3
  <2> QED
    BY <2>2, <1>6
<1>8. \A i \in 1 .. n : t[i] = e \/ \E j \in 1 .. Len(rest) : t[i] = rest[j]
  <2> SUFFICES ASSUME NEW i \in 1 .. n
               PROVE  t[i] = e \/ \E j \in 1 .. Len(rest) : t[i] = rest[j]
    OBVIOUS
  <2>1. p[i] = n \/ p[i] \in 1 .. n - 1
    BY <1>2, <1>p
  <2>2. t[i] = s[p[i]]
    BY <1>6
  <2> QED
    BY <2>1, <2>2, <1>2, <1>1
<1>9. \E i \in 1 .. n : t[i] = e
  <2>1. n \in 1 .. n
    BY <1>2
  <2>2. PICK i \in 1 .. n : p[i] = n
    BY <2>1, <1>6
  <2> QED
    BY <2>2, <1>1, <1>6
<1>10. \A j \in 1 .. Len(rest) : \E i \in 1 .. n : t[i] = rest[j]
  <2> SUFFICES ASSUME NEW j \in 1 .. Len(rest)
               PROVE  \E i \in 1 .. n : t[i] = rest[j]
    OBVIOUS
  <2>1. j \in 1 .. n /\ s[j] = rest[j]
    BY <1>2, <1>1
  <2>2. PICK i \in 1 .. n : p[i] = j
    BY <2>1, <1>6
  <2> QED
    BY <2>1, <2>2, <1>6
<1> QED
  BY <1>2, <1>5, <1>7, <1>8, <1>9, <1>10

-----------------------------------------------------------------------------
(* The list after a push, for an entry that is there and one that is not.  *)

(* The list without an entry that is in it.                                *)
LEMMA WithoutEntry ==
    ASSUME DatabaseInv, NEW url, Listed(url)
    PROVE  \E k \in 1 .. Len(most_accessed) :
              /\ most_accessed[k].url = url
              /\ Len(most_accessed) >= 1
              /\ Without(url) \in Seq(Entry)
              /\ Len(Without(url)) = Len(most_accessed) - 1
              /\ \A i \in 1 .. Len(most_accessed) - 1 :
                    Without(url)[i] = IF i < k THEN most_accessed[i] ELSE most_accessed[i + 1]
<1> DEFINE n == Len(most_accessed)
           k == CHOOSE i \in DOMAIN most_accessed : most_accessed[i].url = url
<1>1. most_accessed \in Seq(Entry) /\ n \in Nat /\ DOMAIN most_accessed = 1 .. n
  BY LenProperties DEF DatabaseInv, ListTyped
<1>2. k \in 1 .. n /\ most_accessed[k].url = url
  BY <1>1 DEF Listed
<1>3. \A i \in 1 .. n : most_accessed[i] \in Entry
  BY <1>1, ElementOfSeq
<1>4. Without(url) = [i \in 1 .. n - 1 |->
                        IF i < k THEN most_accessed[i] ELSE most_accessed[i + 1]]
  BY DEF Without
<1>5. n >= 1 /\ n - 1 \in Nat
  BY <1>1, <1>2
<1>6. \A i \in 1 .. n - 1 : (IF i < k THEN most_accessed[i] ELSE most_accessed[i + 1]) \in Entry
  BY <1>1, <1>3, <1>5
<1>7. Without(url) \in Seq(Entry) /\ Len(Without(url)) = n - 1
  BY <1>4, <1>5, <1>6, IsASeq
<1> HIDE DEF k
<1> QED
  BY <1>2, <1>4, <1>5, <1>7

(* The list after a push of an url that is in it.                          *)
LEMMA AfterRefresh ==
    ASSUME DatabaseInv, NEW e \in Entry, Listed(e.url),
           NEW t \in Sorted(Append(Without(e.url), e))
    PROVE  /\ t \in Seq(Entry) /\ Len(t) = Len(most_accessed) /\ Len(t) >= 1
           /\ \A i, j \in 1 .. Len(t) : i < j => t[i].count >= t[j].count
           /\ \A i, j \in 1 .. Len(t) : t[i].url = t[j].url => i = j
           /\ \A i \in 1 .. Len(t) :
                 \/ t[i] = e
                 \/ t[i].url # e.url /\ \E j \in 1 .. Len(t) : t[i] = most_accessed[j]
           /\ \A j \in 1 .. Len(t) : \E i \in 1 .. Len(t) : t[i].url = most_accessed[j].url
           /\ \E i \in 1 .. Len(t) : t[i] = e
<1> DEFINE rest == Without(e.url)
           n == Len(most_accessed)
<1>1. /\ most_accessed \in Seq(Entry) /\ n \in Nat /\ DOMAIN most_accessed = 1 .. n
      /\ \A i, j \in 1 .. n : most_accessed[i].url = most_accessed[j].url => i = j
  BY LenProperties DEF DatabaseInv, ListTyped, UrlsOnce
<1>2. PICK k \in 1 .. n :
         /\ most_accessed[k].url = e.url
         /\ n >= 1
         /\ rest \in Seq(Entry) /\ Len(rest) = n - 1
         /\ \A i \in 1 .. n - 1 :
               rest[i] = IF i < k THEN most_accessed[i] ELSE most_accessed[i + 1]
  BY WithoutEntry
<1>3. t \in Sorted(Append(rest, e))
  OBVIOUS
<1> HIDE DEF rest
<1>4. \A i \in 1 .. n - 1 : \E j \in 1 .. n : j # k /\ rest[i] = most_accessed[j]
                                       /\ j = IF i < k THEN i ELSE i + 1
  BY <1>1, <1>2
<1>5. \A i \in 1 .. n - 1 : rest[i].url # e.url
  BY <1>1, <1>2, <1>4
<1>6. \A i, j \in 1 .. n - 1 : rest[i].url = rest[j].url => i = j
  BY <1>1, <1>4
<1>7. \A j \in 1 .. n : j = k \/ \E i \in 1 .. n - 1 : rest[i] = most_accessed[j]
  <2> SUFFICES ASSUME NEW j \in 1 .. n, j # k
               PROVE  \E i \in 1 .. n - 1 : rest[i] = most_accessed[j]
    OBVIOUS
  <2>1. CASE j < k
    BY <2>1, <1>1, <1>2
  <2>2. CASE j > k
    <3>1. j - 1 \in 1 .. n - 1 /\ ~(j - 1 < k)
      BY <2>2, <1>1, <1>2
    <3>2. rest[j - 1] = most_accessed[(j - 1) + 1]
      BY <3>1, <1>2
    <3> QED
      BY <3>1, <3>2, <1>1
  <2> QED
    BY <2>1, <2>2, <1>1, <1>2
<1>8. /\ t \in Seq(Entry) /\ Len(t) = n
      /\ \A i, j \in 1 .. n : i < j => t[i].count >= t[j].count
      /\ \A i, j \in 1 .. n : t[i].url = t[j].url => i = j
      /\ \A i \in 1 .. n : t[i] = e \/ \E j \in 1 .. n - 1 : t[i] = rest[j]
      /\ \E i \in 1 .. n : t[i] = e
      /\ \A j \in 1 .. n - 1 : \E i \in 1 .. n : t[i] = rest[j]
  <2>1. Len(rest) + 1 = n
    BY <1>1, <1>2
  <2>2. /\ t \in Seq(Entry) /\ Len(t) = Len(rest) + 1
        /\ \A i, j \in 1 .. Len(t) : i < j => t[i].count >= t[j].count
        /\ \A i, j \in 1 .. Len(t) : t[i].url = t[j].url => i = j
        /\ \A i \in 1 .. Len(t) : t[i] = e \/ \E j \in 1 .. Len(rest) : t[i] = rest[j]
        /\ \E i \in 1 .. Len(t) : t[i] = e
        /\ \A j \in 1 .. Len(rest) : \E i \in 1 .. Len(t) : t[i] = rest[j]
    <3>1. /\ rest \in Seq(Entry)
          /\ \A i, j \in 1 .. Len(rest) : rest[i].url = rest[j].url => i = j
          /\ \A i \in 1 .. Len(rest) : rest[i].url # e.url
      BY <1>2, <1>5, <1>6
    <3> QED
      BY <3>1, <1>3, PutInPlace
  <2> QED
    BY <2>1, <2>2, <1>2
<1>9. \A i \in 1 .. n :
         t[i] = e \/ (t[i].url # e.url /\ \E j \in 1 .. n : t[i] = most_accessed[j])
  BY <1>4, <1>5, <1>8
<1>10. \A j \in 1 .. n : \E i \in 1 .. n : t[i].url = most_accessed[j].url
  <2> SUFFICES ASSUME NEW j \in 1 .. n
               PROVE  \E i \in 1 .. n : t[i].url = most_accessed[j].url
    OBVIOUS
  <2>1. CASE j = k
    BY <2>1, <1>2, <1>8
  <2>2. CASE \E i \in 1 .. n - 1 : rest[i] = most_accessed[j]
    BY <2>2, <1>8
  <2> QED
    BY <2>1, <2>2, <1>7
<1> QED
  BY <1>2, <1>8, <1>9, <1>10

(* The cut at the width of the plot.                                       *)
LEMMA CutOffKeeps ==
    ASSUME NEW s \in Seq(Entry), Len(s) >= 1, Len(s) <= top_n_width + 1
    PROVE  /\ CutOff(s) \in Seq(Entry)
           /\ Len(CutOff(s)) \in 1 .. top_n_width
           /\ Len(CutOff(s)) = IF Len(s) > top_n_width THEN Len(s) - 1 ELSE Len(s)
           /\ \A i \in 1 .. Len(CutOff(s)) : CutOff(s)[i] = s[i]
<1>1. Len(s) \in Nat /\ top_n_width \in Nat \ {0}
  BY LenProperties, DatabaseAssumption
<1>2. CASE Len(s) > top_n_width
  <2> DEFINE m == Len(s) - 1
             c == SubSeq(s, 1, m)
  <2>1. 1 \in Int /\ m \in Int /\ m - 1 + 1 = m /\ 1 <= m
    BY <1>1, <1>2
  <2>2. \A i \in 1 .. m : s[i] \in Entry
    BY <1>1, ElementOfSeq
  <2>3. /\ c \in Seq(Entry)
        /\ Len(c) = IF 1 <= m THEN m - 1 + 1 ELSE 0
        /\ \A i \in 1 .. m - 1 + 1 : c[i] = s[1 + i - 1]
    BY <2>1, <2>2, SubSeqProperties
  <2>4. Len(c) = m /\ \A i \in 1 .. m : c[i] = s[i]
    BY <2>1, <2>3
  <2>5. CutOff(s) = c
    BY <1>2 DEF CutOff
  <2> HIDE DEF c
  <2> QED
    BY <1>1, <1>2, <2>3, <2>4, <2>5
<1>3. CASE ~(Len(s) > top_n_width)
  BY <1>1, <1>3 DEF CutOff
<1> QED
  BY <1>2, <1>3

(* The list that an insertion sorts before it cuts it.                     *)
LEMMA BeforeTheCut ==
    ASSUME DatabaseInv, NEW e \in Entry, ~Listed(e.url),
           NEW s \in Sorted(Append(most_accessed, e))
    PROVE  /\ s \in Seq(Entry) /\ Len(s) = Len(most_accessed) + 1
           /\ \A i, j \in 1 .. Len(s) : i < j => s[i].count >= s[j].count
           /\ \A i, j \in 1 .. Len(s) : s[i].url = s[j].url => i = j
           /\ \A i \in 1 .. Len(s) :
                 \/ s[i] = e
                 \/ s[i].url # e.url /\ \E j \in 1 .. Len(most_accessed) : s[i] = most_accessed[j]
           /\ \E i \in 1 .. Len(s) : s[i] = e
           /\ \A j \in 1 .. Len(most_accessed) : \E i \in 1 .. Len(s) : s[i] = most_accessed[j]
<1>1. most_accessed \in Seq(Entry) /\ DOMAIN most_accessed = 1 .. Len(most_accessed)
  BY LenProperties DEF DatabaseInv, ListTyped
<1>2. \A i, j \in 1 .. Len(most_accessed) : most_accessed[i].url = most_accessed[j].url => i = j
  BY <1>1 DEF DatabaseInv, UrlsOnce
<1>3. \A i \in 1 .. Len(most_accessed) : most_accessed[i].url # e.url
  BY <1>1 DEF Listed
<1>4. /\ s \in Seq(Entry) /\ Len(s) = Len(most_accessed) + 1
      /\ \A i, j \in 1 .. Len(s) : i < j => s[i].count >= s[j].count
      /\ \A i, j \in 1 .. Len(s) : s[i].url = s[j].url => i = j
      /\ \A i \in 1 .. Len(s) :
            s[i] = e \/ \E j \in 1 .. Len(most_accessed) : s[i] = most_accessed[j]
      /\ \E i \in 1 .. Len(s) : s[i] = e
      /\ \A j \in 1 .. Len(most_accessed) : \E i \in 1 .. Len(s) : s[i] = most_accessed[j]
  BY <1>1, <1>2, <1>3, PutInPlace
<1> QED
  BY <1>3, <1>4

-----------------------------------------------------------------------------
(* The list keeps its invariant when a listed url comes again.             *)
LEMMA RefreshKeeps ==
    ASSUME DatabaseInv, NEW e \in Entry, Refresh(e)
    PROVE  DatabaseInv'
<1> DEFINE t == most_accessed'
<1>1. /\ Listed(e.url) /\ t \in Sorted(Append(Without(e.url), e))
      /\ bottom_top_n' = t[Len(t)].count
  BY DEF Refresh
<1>2. /\ t \in Seq(Entry) /\ Len(t) = Len(most_accessed) /\ Len(t) >= 1
      /\ \A i, j \in 1 .. Len(t) : i < j => t[i].count >= t[j].count
      /\ \A i, j \in 1 .. Len(t) : t[i].url = t[j].url => i = j
  BY <1>1, AfterRefresh
<1>3. DOMAIN t = 1 .. Len(t) /\ t # <<>>
  BY <1>2, LenProperties, EmptySeq
<1>4. Len(most_accessed) <= top_n_width
  BY DEF DatabaseInv, ListTyped
<1> QED
  BY <1>1, <1>2, <1>3, <1>4
     DEF DatabaseInv, ListTyped, ListSorted, UrlsOnce, BottomIsLast

(* It keeps it when an url is added ...                                    *)
LEMMA InsertKeeps ==
    ASSUME DatabaseInv, NEW e \in Entry, Insert(e)
    PROVE  DatabaseInv'
<1> DEFINE t == most_accessed'
<1>1. PICK s \in Sorted(Append(most_accessed, e)) : t = CutOff(s)
  BY DEF Insert
<1>2. ~Listed(e.url) /\ bottom_top_n' = t[Len(t)].count
  BY DEF Insert
<1>3. /\ s \in Seq(Entry) /\ Len(s) = Len(most_accessed) + 1
      /\ \A i, j \in 1 .. Len(s) : i < j => s[i].count >= s[j].count
      /\ \A i, j \in 1 .. Len(s) : s[i].url = s[j].url => i = j
  BY <1>2, BeforeTheCut
<1>4. Len(most_accessed) \in Nat /\ Len(most_accessed) <= top_n_width /\ top_n_width \in Nat
  BY LenProperties, DatabaseAssumption DEF DatabaseInv, ListTyped
<1>5. /\ t \in Seq(Entry) /\ Len(t) \in 1 .. top_n_width /\ Len(t) <= Len(s)
      /\ \A i \in 1 .. Len(t) : t[i] = s[i]
  BY <1>1, <1>3, <1>4, CutOffKeeps
<1>6. DOMAIN t = 1 .. Len(t) /\ t # <<>>
  BY <1>5, LenProperties, EmptySeq
<1>7. \A i, j \in 1 .. Len(t) : i < j => t[i].count >= t[j].count
  BY <1>3, <1>4, <1>5
<1>8. \A i, j \in 1 .. Len(t) : t[i].url = t[j].url => i = j
  BY <1>3, <1>4, <1>5
<1> QED
  BY <1>2, <1>4, <1>5, <1>6, <1>7, <1>8
     DEF DatabaseInv, ListTyped, ListSorted, UrlsOnce, BottomIsLast

(* ... and in every push.                                                  *)
LEMMA PushKeeps ==
    ASSUME DatabaseInv, NEW url \in Urls, NEW count \in Counts, Push(url, count)
    PROVE  DatabaseInv'
<1> DEFINE e == [url |-> url, count |-> count]
<1>1. e \in Entry
  BY DEF Entry
<1>2. CASE Refresh(e) \/ Insert(e)
  BY <1>1, <1>2, RefreshKeeps, InsertKeeps
<1>3. CASE UNCHANGED <<most_accessed, bottom_top_n>>
  BY <1>3 DEF DatabaseInv, ListTyped, ListSorted, UrlsOnce, BottomIsLast
<1> QED
  BY <1>2, <1>3 DEF Push

(* The list is sorted, holds no url twice, is never longer than the plot   *)
(* is wide and bottom_top_n is its least count, for every sequence of      *)
(* pushes (Database.push, database.py:9-35).                               *)
THEOREM ListKept == DbSpec => []DatabaseInv
<1>1. DbInit => DatabaseInv
  <2> SUFFICES ASSUME DbInit PROVE DatabaseInv
    OBVIOUS
  <2>1. /\ most_accessed \in Seq(Entry) /\ Len(most_accessed) = 0 /\ bottom_top_n = 0
        /\ DOMAIN most_accessed = {} /\ most_accessed = <<>>
    BY EmptySeq DEF DbInit
  <2> QED
    BY <2>1, DatabaseAssumption
       DEF DatabaseInv, ListTyped, ListSorted, UrlsOnce, BottomIsLast
<1>2. DatabaseInv /\ [DbNext]_dbVars => DatabaseInv'
  <2> SUFFICES ASSUME DatabaseInv, [DbNext]_dbVars PROVE DatabaseInv'
    OBVIOUS
  <2>1. CASE DbNext
    BY <2>1, PushKeeps DEF DbNext
  <2>2. CASE UNCHANGED dbVars
    BY <2>2 DEF dbVars, DatabaseInv, ListTyped, ListSorted, UrlsOnce, BottomIsLast
  <2> QED
    BY <2>1, <2>2
<1> QED
  BY <1>1, <1>2, PTL DEF DbSpec

-----------------------------------------------------------------------------
(* The list is the top as long as totals come in.                          *)

TopInv == DatabaseInv /\ latest \in [Urls -> Nat] /\ totals \in BOOLEAN /\ TheTop

(* A new total for an url of the list.                                     *)
LEMMA RefreshKeepsTop ==
    ASSUME TopInv, NEW e \in Entry, Refresh(e),
           latest' = [latest EXCEPT ![e.url] = e.count]
    PROVE  EntriesLatest' /\ (OthersBelow /\ e.count >= latest[e.url] => OthersBelow')
<1> DEFINE t == most_accessed'
           n == Len(most_accessed)
<1>1. /\ Listed(e.url) /\ t \in Sorted(Append(Without(e.url), e))
      /\ bottom_top_n' = t[Len(t)].count
  BY DEF Refresh
<1>2. /\ t \in Seq(Entry) /\ Len(t) = n /\ n >= 1
      /\ \A i \in 1 .. n :
            \/ t[i] = e
            \/ t[i].url # e.url /\ \E j \in 1 .. n : t[i] = most_accessed[j]
      /\ \A j \in 1 .. n : \E i \in 1 .. n : t[i].url = most_accessed[j].url
      /\ \E i \in 1 .. n : t[i] = e
  BY <1>1, AfterRefresh DEF TopInv
<1>3. /\ DOMAIN t = 1 .. n /\ n \in Nat
      /\ most_accessed \in Seq(Entry) /\ DOMAIN most_accessed = 1 .. n
      /\ \A i \in 1 .. n : most_accessed[i] \in Entry /\ t[i] \in Entry
  <2>1. most_accessed \in Seq(Entry) /\ DOMAIN most_accessed = 1 .. n /\ n \in Nat
    BY LenProperties DEF TopInv, DatabaseInv, ListTyped
  <2>2. \A i \in 1 .. n : most_accessed[i] \in Entry /\ t[i] \in Entry
    BY <1>2, <2>1, ElementOfSeq
  <2>3. DOMAIN t = 1 .. n
    BY <1>2, LenProperties
  <2> QED
    BY <2>1, <2>2, <2>3
<1>4. /\ latest \in [Urls -> Nat] /\ e.url \in Urls /\ e.count \in Nat
      /\ \A i \in 1 .. n : most_accessed[i].count = latest[most_accessed[i].url]
      /\ \A i \in 1 .. n : most_accessed[i].url \in Urls /\ most_accessed[i].count \in Nat
  BY <1>3, DatabaseAssumption DEF TopInv, TheTop, EntriesLatest, Entry
<1>5. bottom_top_n = most_accessed[n].count
      /\ \A i \in 1 .. n : most_accessed[i].count >= bottom_top_n
  <2>1. n \in 1 .. n /\ most_accessed # <<>>
    BY <1>2, <1>3
  <2>2. bottom_top_n = most_accessed[n].count
    BY <2>1 DEF TopInv, DatabaseInv, BottomIsLast
  <2>3. \A i \in 1 .. n : i < n => most_accessed[i].count >= most_accessed[n].count
    BY <2>1, <1>3 DEF TopInv, DatabaseInv, ListSorted
  <2>4. \A i \in 1 .. n : i < n \/ i = n
    <3> HIDE DEF n
    <3> QED
      BY <1>3
  <2> QED
    BY <2>1, <2>2, <2>3, <2>4, <1>4
<1>6. EntriesLatest'
  <2> SUFFICES ASSUME NEW i \in 1 .. n
               PROVE  t[i].count = latest'[t[i].url]
    BY <1>3 DEF EntriesLatest
  <2>1. CASE t[i] = e
    BY <2>1, <1>4
  <2>2. CASE t[i].url # e.url /\ \E j \in 1 .. n : t[i] = most_accessed[j]
    BY <2>2, <1>4
  <2> QED
    BY <2>1, <2>2, <1>2
<1>7. e.count >= latest[e.url] => bottom_top_n' >= bottom_top_n
  <2> SUFFICES ASSUME e.count >= latest[e.url] PROVE bottom_top_n' >= bottom_top_n
    OBVIOUS
  <2>1. bottom_top_n' = t[n].count /\ n \in 1 .. n
    BY <1>1, <1>2, <1>3
  <2>2. CASE t[n] = e
    <3>1. PICK j \in 1 .. n : most_accessed[j].url = e.url
      BY <1>1, <1>3 DEF Listed
    <3>2. e.count >= most_accessed[j].count
      BY <3>1, <1>4
    <3> QED
      BY <2>1, <2>2, <3>2, <1>4, <1>5
  <2>3. CASE \E j \in 1 .. n : t[n] = most_accessed[j]
    BY <2>1, <2>3, <1>5
  <2> QED
    BY <2>1, <2>2, <2>3, <1>2
<1>8. bottom_top_n' \in Nat /\ bottom_top_n \in Nat
  <2>1. n \in 1 .. n /\ t[n] \in Entry /\ bottom_top_n' = t[n].count
    BY <1>1, <1>2, <1>3
  <2>2. t[n].count \in Nat
    BY <2>1, DatabaseAssumption DEF Entry
  <2> QED
    BY <2>1, <2>2, <1>4, <1>5
<1>9. OthersBelow /\ e.count >= latest[e.url] => OthersBelow'
  <2> SUFFICES ASSUME OthersBelow, e.count >= latest[e.url], NEW u \in Urls, ~Listed(u)'
               PROVE  /\ latest'[u] <= bottom_top_n'
                      /\ (latest'[u] > 0 => Len(t) = top_n_width)
    BY DEF OthersBelow
  <2>1. \A i \in 1 .. n : t[i].url # u
    BY <1>3 DEF Listed
  <2>2. ~Listed(u) /\ u # e.url
    <3>1. u # e.url
      BY <2>1, <1>2
    <3>2. ASSUME NEW j \in 1 .. n PROVE most_accessed[j].url # u
      <4>1. PICK i \in 1 .. n : t[i].url = most_accessed[j].url
        BY <1>2
      <4> QED
        BY <4>1, <2>1, <1>2
    <3> QED
      BY <3>1, <3>2, <1>3 DEF Listed
  <2>3. latest[u] <= bottom_top_n /\ (latest[u] > 0 => n = top_n_width)
    BY <2>2 DEF OthersBelow
  <2>4. latest'[u] = latest[u] /\ latest[u] \in Nat
    BY <2>2, <1>4
  <2>5. latest'[u] <= bottom_top_n'
    BY <2>3, <2>4, <1>7, <1>8
  <2>6. Len(t) = n /\ (latest'[u] > 0 => n = top_n_width)
    BY <2>3, <2>4, <1>2
  <2> QED
    BY <2>5, <2>6
<1> QED
  BY <1>6, <1>9

(* A total for an url that is not in the list.                             *)
LEMMA InsertKeepsTop ==
    ASSUME TopInv, NEW e \in Entry, Insert(e),
           latest' = [latest EXCEPT ![e.url] = e.count]
    PROVE  EntriesLatest' /\ (OthersBelow => OthersBelow')
<1> DEFINE t == most_accessed'
           n == Len(most_accessed)
           w == top_n_width
<1>1. PICK s \in Sorted(Append(most_accessed, e)) : t = CutOff(s)
  BY DEF Insert
<1>2. ~Listed(e.url) /\ bottom_top_n' = t[Len(t)].count
  BY DEF Insert
<1>3. /\ s \in Seq(Entry) /\ Len(s) = n + 1
      /\ \A i, j \in 1 .. n + 1 : i < j => s[i].count >= s[j].count
      /\ \A i, j \in 1 .. n + 1 : s[i].url = s[j].url => i = j
      /\ \A i \in 1 .. n + 1 :
            \/ s[i] = e
            \/ s[i].url # e.url /\ \E j \in 1 .. n : s[i] = most_accessed[j]
      /\ \E i \in 1 .. n + 1 : s[i] = e
      /\ \A j \in 1 .. n : \E i \in 1 .. n + 1 : s[i] = most_accessed[j]
  BY <1>2, BeforeTheCut DEF TopInv
<1>4. /\ n \in Nat /\ n <= w /\ w \in Nat \ {0}
      /\ most_accessed \in Seq(Entry) /\ DOMAIN most_accessed = 1 .. n
  BY LenProperties, DatabaseAssumption DEF TopInv, DatabaseInv, ListTyped
<1>5. /\ t \in Seq(Entry) /\ Len(t) \in 1 .. w
      /\ Len(t) = IF n + 1 > w THEN n ELSE n + 1
      /\ \A i \in 1 .. Len(t) : t[i] = s[i]
  <2>1. Len(s) >= 1 /\ Len(s) <= w + 1 /\ Len(s) - 1 = n
    BY <1>3, <1>4
  <2> QED
    BY <1>1, <1>3, <2>1, CutOffKeeps
<1>6. /\ DOMAIN t = 1 .. Len(t)
      /\ \A i \in 1 .. n : most_accessed[i] \in Entry
      /\ \A i \in 1 .. n + 1 : s[i] \in Entry
  BY <1>3, <1>4, <1>5, LenProperties, ElementOfSeq
<1>7. /\ latest \in [Urls -> Nat] /\ e.url \in Urls /\ e.count \in Nat
      /\ \A i \in 1 .. n : most_accessed[i].count = latest[most_accessed[i].url]
      /\ \A i \in 1 .. n : most_accessed[i].url \in Urls /\ most_accessed[i].count \in Nat
      /\ \A i \in 1 .. n + 1 : s[i].count \in Nat
  BY <1>4, <1>6, DatabaseAssumption DEF TopInv, TheTop, EntriesLatest, Entry
<1>8. \A i \in 1 .. n + 1 : s[i].count = latest'[s[i].url]
  <2> SUFFICES ASSUME NEW i \in 1 .. n + 1
               PROVE  s[i].count = latest'[s[i].url]
    OBVIOUS
  <2>1. CASE s[i] = e
    BY <2>1, <1>7
  <2>2. CASE s[i].url # e.url /\ \E j \in 1 .. n : s[i] = most_accessed[j]
    BY <2>2, <1>7
  <2> QED
    BY <2>1, <2>2, <1>3
<1>9. EntriesLatest'
  BY <1>4, <1>5, <1>6, <1>8 DEF EntriesLatest
<1>10. ASSUME OthersBelow, NEW u \in Urls, ~Listed(u)'
       PROVE  /\ latest'[u] <= bottom_top_n'
              /\ (latest'[u] > 0 => Len(t) = w)
  <2>1. \A i \in 1 .. Len(t) : s[i].url # u
    BY <1>5, <1>6, <1>10 DEF Listed
  <2>2. bottom_top_n' = s[Len(t)].count /\ bottom_top_n' \in Nat
    BY <1>2, <1>4, <1>5, <1>7
  <2>3. CASE n + 1 <= w
    <3>1. Len(t) = n + 1
      BY <2>3, <1>4, <1>5
    <3>2. ~Listed(u) /\ u # e.url
      BY <2>1, <3>1, <1>3, <1>4 DEF Listed
    <3>3. latest[u] > 0 => n = w
      BY <1>10, <3>2 DEF OthersBelow
    <3>4. latest'[u] = latest[u] /\ latest[u] \in Nat
      BY <3>2, <1>7
    <3>5. n # w
      <4> HIDE DEF n, w
      <4> QED
        BY <2>3, <1>4
    <3>6. latest'[u] = 0
      BY <3>3, <3>4, <3>5
    <3> QED
      BY <2>2, <3>6
  <2>4. CASE n = w
    <3>1. Len(t) = w /\ w \in 1 .. n + 1 /\ n + 1 \in 1 .. n + 1 /\ n \in 1 .. n
      BY <2>4, <1>4, <1>5
    <3>2. s[n].count >= s[n + 1].count
      BY <3>1, <2>4, <1>3, <1>4
    <3>3. CASE u = s[n + 1].url
      BY <2>2, <2>4, <3>1, <3>2, <3>3, <1>8
    <3>4. CASE u # s[n + 1].url
      <4>1. \A i \in 1 .. n + 1 : s[i].url # u
        BY <2>1, <2>4, <3>1, <3>4, <1>4
      <4>2. ~Listed(u) /\ u # e.url
        BY <4>1, <1>3, <1>4 DEF Listed
      <4>3. latest[u] <= bottom_top_n
        BY <1>10, <4>2 DEF OthersBelow
      <4>4. /\ bottom_top_n = most_accessed[n].count
            /\ \A i \in 1 .. n : most_accessed[i].count >= bottom_top_n
        <5>1. most_accessed # <<>> /\ n \in 1 .. n
          BY <3>1, <1>4
        <5>2. bottom_top_n = most_accessed[n].count
          BY <5>1 DEF TopInv, DatabaseInv, BottomIsLast
        <5>3. \A i \in 1 .. n : i < n => most_accessed[i].count >= most_accessed[n].count
          BY <5>1, <1>4 DEF TopInv, DatabaseInv, ListSorted
        <5>4. \A i \in 1 .. n : i < n \/ i = n
          <6> HIDE DEF n
          <6> QED
            BY <1>4
        <5> QED
          BY <5>1, <5>2, <5>3, <5>4, <1>7
      <4>5. s[n] # e \/ s[n + 1] # e
        BY <3>1, <2>4, <1>3, <1>4
      <4>6. s[n].count >= bottom_top_n
        <5>1. CASE s[n] # e
          BY <5>1, <3>1, <2>4, <4>4, <1>3
        <5>2. CASE s[n + 1] # e
          <6>1. s[n + 1].count >= bottom_top_n
            BY <5>2, <3>1, <4>4, <1>3
          <6> QED
            BY <6>1, <3>1, <2>4, <3>2, <4>4, <1>7
        <5> QED
          BY <5>1, <5>2, <4>5
      <4>7. latest'[u] = latest[u] /\ latest[u] \in Nat
        BY <4>2, <1>7
      <4>8. bottom_top_n \in Nat
        BY <4>4, <3>1, <1>7
      <4> QED
        BY <2>2, <2>4, <3>1, <4>3, <4>6, <4>7, <4>8
    <3> QED
      BY <3>3, <3>4
  <2>5. n + 1 <= w \/ n = w
    <3> HIDE DEF n, w
    <3> QED
      BY <1>4
  <2> QED
    BY <2>3, <2>4, <2>5
<1> QED
  BY <1>9, <1>10 DEF OthersBelow

(* An empty list is the top of no pushes.                                  *)
LEMMA TopInvInit == DbInit => TopInv
<1> SUFFICES ASSUME DbInit PROVE TopInv
  OBVIOUS
<1>1. /\ most_accessed \in Seq(Entry) /\ Len(most_accessed) = 0 /\ bottom_top_n = 0
      /\ DOMAIN most_accessed = {} /\ most_accessed = <<>>
      /\ latest = [u \in Urls |-> 0] /\ totals = TRUE
  BY EmptySeq DEF DbInit
<1>2. DatabaseInv
  BY <1>1, DatabaseAssumption
     DEF DatabaseInv, ListTyped, ListSorted, UrlsOnce, BottomIsLast
<1>3. latest \in [Urls -> Nat] /\ EntriesLatest /\ OthersBelow
  BY <1>1 DEF EntriesLatest, OthersBelow
<1> QED
  BY <1>1, <1>2, <1>3 DEF TopInv, TheTop

(* A push, and a step that is none, keep it.                               *)
LEMMA TopInvStep == ASSUME TopInv, [DbNext]_dbVars PROVE TopInv'
<1>1. CASE DbNext
  <2>1. PICK url \in Urls, count \in Counts : Push(url, count)
    BY <1>1 DEF DbNext
  <2> DEFINE e == [url |-> url, count |-> count]
  <2>2. /\ e \in Entry /\ e.url = url /\ e.count = count /\ count \in Nat
        /\ latest' = [latest EXCEPT ![url] = count]
        /\ totals' = (totals /\ count >= latest[url])
    BY <2>1, DatabaseAssumption DEF Entry, Push
  <2>3. Len(most_accessed) <= top_n_width
    BY DEF TopInv, DatabaseInv, ListTyped
  <2>4. Refresh(e) \/ Insert(e)
    BY <2>1, <2>3 DEF Push
  <2>5. DatabaseInv'
    BY <2>1, PushKeeps DEF TopInv
  <2>6. latest' \in [Urls -> Nat] /\ totals' \in BOOLEAN
    BY <2>2 DEF TopInv
  <2>7. EntriesLatest' /\ (OthersBelow /\ e.count >= latest[e.url] => OthersBelow')
    BY <2>2, <2>4, RefreshKeepsTop, InsertKeepsTop
  <2>8. TheTop'
    BY <2>2, <2>7 DEF TopInv, TheTop
  <2> QED
    BY <2>5, <2>6, <2>8 DEF TopInv
<1>2. CASE UNCHANGED dbVars
  BY <1>2
     DEF dbVars, TopInv, DatabaseInv, ListTyped, ListSorted, UrlsOnce,
         BottomIsLast,
              TheTop, EntriesLatest, OthersBelow, Listed
<1> QED
  BY <1>1, <1>2

(* An entry has the last count of its url, and as long as the counts are   *)
(* totals no url that is not in the list, perhaps cut off before, has a    *)
(* greater one than the least entry (Database.push, database.py:9-35).     *)
THEOREM TopKept == DbSpec => []TheTop
<1>1. TopInv => TheTop
  BY DEF TopInv
<1> QED
  BY <1>1, TopInvInit, TopInvStep, PTL DEF DbSpec


-----------------------------------------------------------------------------
(* The file between the reader and the plot.                               *)

(* The file is never half an export: it is empty from the truncation to    *)
(* the close, and after that it is the whole list.                         *)
FileInv == file \in {<<>>, exported}

(* There is no file at the start.                                          *)
LEMMA FileInvInit == Init => FileInv
BY DEF Init, FileInv

(* No step but the close changes what the last export is, and only the     *)
(* truncation empties the file.                                            *)
LEMMA FileInvStep == ASSUME FileInv, [Next]_vars PROVE FileInv'
<1> USE DEF FileInv
<1>1. CASE StartLine \/ SendToken \/ Setup \/ ReadLine \/ Wake
  BY <1>1 DEF StartLine, SendToken, Setup, ReadLine, Wake
<1>2. CASE OpenFile
  BY <1>2 DEF OpenFile
<1>3. CASE CloseFile
  BY <1>3 DEF CloseFile
<1>4. CASE Draw \/ DrawFails \/ CloseWindow \/ Kill \/ Rerun
  BY <1>4 DEF Draw, DrawFails, CloseWindow, Kill, Rerun
<1>5. CASE UNCHANGED vars
  BY <1>5 DEF vars
<1> QED
  BY <1>1, <1>2, <1>3, <1>4, <1>5 DEF Next

(* The file is whole or empty in every reachable state.                    *)
THEOREM FileWhole == Spec => []FileInv
BY FileInvInit, FileInvStep, PTL DEF Spec

(* What is drawn is nothing or the last whole export (Database.export and  *)
(* Visualizer.fread).                                                      *)
THEOREM PlotsExports == Spec => PlotIsAnExport
<1>1. ASSUME FileInv, [Next]_vars
      PROVE  [plotted' # plotted => plotted' \in {<<>>, exported}]_vars
  <2>1. CASE StartLine \/ SendToken \/ Setup \/ ReadLine \/ Wake \/ OpenFile \/ CloseFile
    BY <2>1
       DEF StartLine, SendToken, Setup, ReadLine, Wake, OpenFile, CloseFile,
           plotVars
  <2>2. CASE Draw
    BY <1>1, <2>2 DEF Draw, FileInv
  <2>3. CASE DrawFails \/ CloseWindow \/ Kill \/ Rerun
    BY <2>3 DEF DrawFails, CloseWindow, Kill, Rerun
  <2> QED
    BY <1>1, <2>1, <2>2, <2>3 DEF Next
<1> QED
  BY <1>1, FileWhole, PTL DEF Spec, PlotIsAnExport

-----------------------------------------------------------------------------
(* The list between its two threads.                                       *)

(* A line that is read has a count that the list is for.  The count is the *)
(* value of a row of digits.                                               *)
CountsRead == reader = "readline" /\ buffer # <<>> /\ Readable => CountRead \in Counts

(* A line is a push of one of the urls.                                    *)
LEMMA LineIsPush ==
    ASSUME CountsRead, ReadLine
    PROVE  [DbNext]_dbVars
<1>1. CASE Readable
  <2>1. reader = "readline" /\ buffer # <<>> /\ Push(UrlRead, CountRead)
    BY <1>1 DEF ReadLine
  <2>2. UrlRead \in Urls
    BY VisualizerAssumption DEF UrlRead
  <2>3. CountRead \in Counts
    BY <1>1, <2>1 DEF CountsRead
  <2> QED
    BY <2>1, <2>2, <2>3 DEF DbNext
<1>2. CASE ~Readable
  BY <1>2 DEF ReadLine
<1> QED
  BY <1>1, <1>2

(* A program that starts again while the port is free begins with an empty *)
(* list.                                                                   *)
LEMMA RerunFacts == ASSUME Rerun PROVE DbInit' \/ UNCHANGED dbVars
BY DEF Rerun, DbInit, dbVars

(* The list is the sorted top of what was read, none of its urls twice,    *)
(* also after the program was killed and started again while another one   *)
(* had the port (Database.push, SerialReader and the window).              *)
THEOREM TopAcrossRuns == Spec /\ []CountsRead => [](DatabaseInv /\ TheTop)
<1>1. Init => TopInv
  BY TopInvInit DEF Init
<1>2. DbInit' => TopInv'
  BY TopInvInit, PTL
<1>3. ASSUME TopInv, CountsRead, [Next]_vars PROVE TopInv'
  <2>1. CASE ReadLine
    BY <1>3, <2>1, LineIsPush, TopInvStep
  <2>2. CASE Rerun
    BY <1>2, <1>3, <2>2, RerunFacts, TopInvStep
  <2>3. CASE UNCHANGED dbVars
    BY <1>3, <2>3, TopInvStep
  <2>4. CASE ~ReadLine /\ ~Rerun
    <3>1. UNCHANGED dbVars
      BY <1>3, <2>4
         DEF Next, vars, StartLine, SendToken, Setup, OpenFile, CloseFile, Wake,
             Draw, DrawFails, CloseWindow, Kill
    <3> QED
      BY <2>3, <3>1
  <2> QED
    BY <2>1, <2>2, <2>4
<1>4. TopInv => DatabaseInv /\ TheTop
  BY DEF TopInv
<1> QED
  BY <1>1, <1>3, <1>4, PTL DEF Spec


-----------------------------------------------------------------------------
(* The lines, the table, and how far a packet is read.                     *)

Line ==
    [kind : {"header"}, dated : BOOLEAN, qr : {"q", "r"}, host : Word]
    \cup [kind : {"?"}, name : Word]
    \cup [kind : {"!"}, contains : {Strings(type) : type \in STRING}, data : STRING]
    \cup [kind : {"Total packet", "Total DNS Packets"}, count : Int]

(* A word, or none yet.                                                    *)
Host == Word \cup {Unset}

TableEntry ==
    [hosts : Seq(Host), a : SUBSET STRING, aaaa : SUBSET STRING, cname : SUBSET STRING]

LogType ==
    /\ lines \in Seq(Line) /\ log \in Seq(Packet)
    /\ counted \in [dns : Int, all : Int]
    /\ total_packets \in Int /\ total_dns_packets \in Int
    /\ response \in {Unset, "True", "False"} /\ hostIP \in Host /\ domain \in Host
    /\ dns_responses \in [DOMAIN dns_responses -> TableEntry]
    /\ pc \in {"loop", "done", "NameError"}

RegularLog == \A i \in DOMAIN log : Regular(log[i])

(* A packet of which the first n answers are read.                         *)
UpTo(p, n) == [p EXCEPT !.answers = SubSeq(p.answers, 1, n)]

(* What of the log l and the packet p behind it is in the table when r of  *)
(* the lines of p are read: a response counts from its question on.        *)
SoFar(l, p, r) ==
    IF p.qr = "r" /\ r >= 2 THEN Append(l, UpTo(p, r - 2)) ELSE l

TotalsRead ==
    total_packets = counted.all /\ total_dns_packets = counted.dns

InPacket(l, p, r) ==
    /\ log = Append(l, p)
    /\ r < Len(Printed(p))
    /\ lines = SubSeq(Printed(p), r + 1, Len(Printed(p)))
    /\ TotalsRead
    /\ r >= 1 => /\ response = IF p.qr = "r" THEN "True" ELSE "False"
                 /\ p.qr = "r" => hostIP = p.host
    /\ r >= 2 /\ p.qr = "r" => domain = p.questions[1]
    /\ SumsUp(dns_responses, SoFar(l, p, r))

InTotals ==
    /\ \/ /\ Len(lines) = 2 /\ lines[1].kind = "Total packet"
          /\ total_packets + lines[1].count = counted.all
       \/ Len(lines) = 1 /\ total_packets = counted.all
    /\ lines[Len(lines)].kind = "Total DNS Packets"
    /\ total_dns_packets + lines[Len(lines)].count = counted.dns
    /\ SumsUp(dns_responses, log)

Between == lines = <<>> /\ TotalsRead /\ SumsUp(dns_responses, log)

ScriptInv ==
    RegularLog =>
        /\ pc # "NameError"
        /\ pc = "done" => lines = <<>> /\ highest = Figures(log)
        /\ \/ Between
           \/ InTotals
           \/ \E l \in Seq(Packet), p \in Packet, r \in Nat : InPacket(l, p, r)

LogInv == LogType /\ ScriptInv

-----------------------------------------------------------------------------
(* A log with one packet more.                                             *)

(* The places of the responses about a name are among those of the log.    *)
LEMMA PlacesFinite ==
    ASSUME NEW l \in Seq(Packet), NEW d
    PROVE  /\ Places(l, d) \subseteq 1 .. Len(l)
           /\ IsFiniteSet(Places(l, d)) /\ Cardinality(Places(l, d)) \in Nat
<1>1. Len(l) \in Nat /\ DOMAIN l = 1 .. Len(l)
  BY LenProperties
<1>2. Places(l, d) \subseteq 1 .. Len(l)
  BY <1>1 DEF Places
<1>3. IsFiniteSet(1 .. Len(l))
  BY <1>1, FS_Interval
<1>4. IsFiniteSet(Places(l, d))
  BY <1>2, <1>3, FS_Subset
<1> QED
  BY <1>2, <1>4, FS_CardinalityType

(* A log with a packet behind it.                                          *)
LEMMA InAppend ==
    ASSUME NEW l \in Seq(Packet), NEW p \in Packet
    PROVE  /\ Append(l, p) \in Seq(Packet)
           /\ Len(l) \in Nat /\ Len(Append(l, p)) = Len(l) + 1
           /\ DOMAIN l = 1 .. Len(l) /\ DOMAIN Append(l, p) = 1 .. Len(l) + 1
           /\ \A i \in 1 .. Len(l) : Append(l, p)[i] = l[i]
           /\ Append(l, p)[Len(l) + 1] = p
<1>1. /\ Append(l, p) \in Seq(Packet) /\ Len(Append(l, p)) = Len(l) + 1
      /\ \A i \in 1 .. Len(l) : Append(l, p)[i] = l[i]
      /\ Append(l, p)[Len(l) + 1] = p
  BY AppendProperties
<1>2. Len(l) \in Nat /\ DOMAIN l = 1 .. Len(l)
  BY LenProperties
<1>3. DOMAIN Append(l, p) = 1 .. Len(Append(l, p))
  BY <1>1, LenProperties
<1> QED
  BY <1>1, <1>2, <1>3

(* A response about a name adds its place, any other packet none.          *)
LEMMA PlacesAppend ==
    ASSUME NEW l \in Seq(Packet), NEW p \in Packet, NEW d
    PROVE  Places(Append(l, p), d) =
              IF About(p, d) THEN Places(l, d) \cup {Len(l) + 1} ELSE Places(l, d)
<1> DEFINE L == Append(l, p)
           n == Len(l)
<1>1. /\ n \in Nat /\ DOMAIN l = 1 .. n /\ DOMAIN L = 1 .. n + 1
      /\ \A i \in 1 .. n : L[i] = l[i]
      /\ L[n + 1] = p
  BY InAppend
<1> HIDE DEF L, n
<1>2. \A i : i \in DOMAIN L <=> i \in DOMAIN l \/ i = n + 1
  BY <1>1
<1>3. \A i \in DOMAIN l : L[i] = l[i]
  BY <1>1
<1>4. n + 1 \notin DOMAIN l
  BY <1>1
<1>5. Places(l, d) = {i \in DOMAIN l : About(l[i], d)}
  BY DEF Places
<1>6. Places(L, d) = {i \in DOMAIN L : About(L[i], d)}
  BY DEF Places
<1>7. CASE About(p, d)
  BY <1>1, <1>2, <1>3, <1>4, <1>5, <1>6, <1>7 DEF L, n
<1>8. CASE ~About(p, d)
  BY <1>1, <1>2, <1>3, <1>4, <1>5, <1>6, <1>8 DEF L, n
<1> QED
  BY <1>7, <1>8

(* A response adds the name it is about.                                   *)
LEMMA NamesAppend ==
    ASSUME NEW l \in Seq(Packet), NEW p \in Packet
    PROVE  NamesOf(Append(l, p)) =
              IF p.qr = "r" THEN NamesOf(l) \cup {p.questions[1]} ELSE NamesOf(l)
<1> DEFINE L == Append(l, p)
           n == Len(l)
<1>1. /\ n \in Nat /\ DOMAIN l = 1 .. n /\ DOMAIN L = 1 .. n + 1
      /\ \A i \in 1 .. n : L[i] = l[i]
      /\ L[n + 1] = p
  BY InAppend
<1> HIDE DEF L, n
<1>2. /\ \A i \in DOMAIN l : i \in DOMAIN L /\ L[i] = l[i]
      /\ \A i \in DOMAIN L : i \in DOMAIN l \/ i = n + 1
      /\ n + 1 \in DOMAIN L
  BY <1>1
<1>3. CASE p.qr = "r"
  BY <1>1, <1>2, <1>3 DEF NamesOf, L
<1>4. CASE p.qr # "r"
  BY <1>1, <1>2, <1>4 DEF NamesOf, L
<1> QED
  BY <1>3, <1>4

(* A name of the log is one that a response is about.                      *)
LEMMA NamesHavePlaces ==
    ASSUME NEW l, NEW d
    PROVE  d \in NamesOf(l) <=> Places(l, d) # {}
BY DEF NamesOf, Places, About

(* The answers of a type that a packet has.                                *)
AnswersOf(p, type) == {a.data : a \in {b \in Range(p.answers) : b.type = type}}

(* A response adds its answers to those of its name.                       *)
LEMMA AnswersAppend ==
    ASSUME NEW l \in Seq(Packet), NEW p \in Packet, NEW d, NEW type
    PROVE  Answers(Append(l, p), d, type) =
              IF About(p, d) THEN Answers(l, d, type) \cup AnswersOf(p, type)
                             ELSE Answers(l, d, type)
<1> DEFINE L == Append(l, p)
           n == Len(l)
           InLog(m, b) == \E i \in Places(m, d) : b \in Range(m[i].answers)
<1>1. /\ \A i \in 1 .. n : L[i] = l[i]
      /\ L[n + 1] = p
  BY InAppend
<1>2. /\ Places(L, d) = IF About(p, d) THEN Places(l, d) \cup {n + 1} ELSE Places(l, d)
      /\ Places(l, d) \subseteq 1 .. n
  BY PlacesAppend, PlacesFinite
<1> HIDE DEF L, n
<1>3. \A i \in Places(l, d) : L[i] = l[i]
  BY <1>1, <1>2
<1>4. \A b : InLog(L, b) <=> InLog(l, b) \/ (About(p, d) /\ b \in Range(p.answers))
  <2>1. CASE About(p, d)
    BY <1>1, <1>2, <1>3, <2>1
  <2>2. CASE ~About(p, d)
    BY <1>2, <1>3, <2>2
  <2> QED
    BY <2>1, <2>2
<1>5. ASSUME NEW m, NEW v
      PROVE  v \in Answers(m, d, type) <=> \E b : InLog(m, b) /\ b.type = type /\ v = b.data
  BY DEF Answers
<1>6. \A v : v \in AnswersOf(p, type) <=> \E b \in Range(p.answers) : b.type = type /\ v = b.data
  BY DEF AnswersOf
<1> HIDE DEF InLog
<1>7. \A v : v \in Answers(L, d, type) <=>
                v \in Answers(l, d, type) \/ (About(p, d) /\ v \in AnswersOf(p, type))
  BY <1>4, <1>5, <1>6
<1>8. CASE About(p, d)
  BY <1>7, <1>8 DEF L
<1>9. CASE ~About(p, d)
  BY <1>7, <1>9 DEF L
<1> QED
  BY <1>8, <1>9

(* The place of a response among those about its name.                     *)
LEMMA RankInPlaces ==
    ASSUME NEW l \in Seq(Packet), NEW d, NEW i \in Places(l, d)
    PROVE  Rank(l, d, i) \in 1 .. Cardinality(Places(l, d))
<1> DEFINE P == Places(l, d)
           R == {j \in P : j <= i}
<1>1. IsFiniteSet(P) /\ Cardinality(P) \in Nat /\ P \subseteq 1 .. Len(l)
  BY PlacesFinite
<1>2. IsFiniteSet(R) /\ Cardinality(R) <= Cardinality(P)
  BY <1>1, FS_Subset
<1>3. Cardinality(R) \in Nat
  BY <1>2, FS_CardinalityType
<1>4. i \in R
  BY <1>1, LenProperties
<1>5. Cardinality(R) # 0
  BY <1>2, <1>4, FS_EmptySet
<1> QED
  BY <1>1, <1>2, <1>3, <1>5 DEF Rank

(* A response about a name comes last, and moves none of the others.       *)
LEMMA RankAppend ==
    ASSUME NEW l \in Seq(Packet), NEW p \in Packet, NEW d
    PROVE  /\ \A i \in Places(l, d) : Rank(Append(l, p), d, i) = Rank(l, d, i)
           /\ About(p, d) =>
                 /\ Rank(Append(l, p), d, Len(l) + 1) = Cardinality(Places(l, d)) + 1
                 /\ Cardinality(Places(Append(l, p), d)) = Cardinality(Places(l, d)) + 1
<1> DEFINE L == Append(l, p)
           n == Len(l)
           P == Places(l, d)
           Q == Places(L, d)
<1>1. Q = IF About(p, d) THEN P \cup {n + 1} ELSE P
  BY PlacesAppend
<1>2. P \subseteq 1 .. n /\ IsFiniteSet(P) /\ n \in Nat
  BY PlacesFinite, LenProperties
<1>3. /\ \A i : Rank(L, d, i) = Cardinality({j \in Q : j <= i})
      /\ \A i : Rank(l, d, i) = Cardinality({j \in P : j <= i})
  BY DEF Rank
<1> HIDE DEF L, n, P, Q
<1>4. \A j \in P : j \in Nat /\ j <= n
  BY <1>2
<1>5. n + 1 \notin P
  BY <1>2, <1>4
<1>6. ASSUME NEW i \in P
      PROVE  Rank(L, d, i) = Rank(l, d, i)
  <2>1. {j \in Q : j <= i} = {j \in P : j <= i}
    BY <1>1, <1>2, <1>4
  <2> QED
    BY <2>1, <1>3
<1>7. ASSUME About(p, d)
      PROVE  /\ Rank(L, d, n + 1) = Cardinality(P) + 1
             /\ Cardinality(Q) = Cardinality(P) + 1
  <2>1. Q = P \cup {n + 1}
    BY <1>1, <1>7
  <2>2. {j \in Q : j <= n + 1} = Q
    <3>1. ASSUME NEW j \in Q
          PROVE  j <= n + 1
      <4>1. CASE j \in P
        BY <4>1, <1>2, <1>4
      <4>2. CASE j = n + 1
        BY <4>2, <1>2
      <4> QED
        BY <2>1, <4>1, <4>2
    <3> QED
      BY <3>1
  <2>3. Cardinality(P \cup {n + 1}) = Cardinality(P) + 1
    BY <1>2, <1>5, FS_AddElement
  <2> QED
    BY <2>1, <2>2, <2>3, <1>3
<1> QED
  BY <1>6, <1>7 DEF L, n, P, Q

-----------------------------------------------------------------------------
(* What the steps of the script do to the table.                           *)

(* A packet that is no response changes nothing.                           *)
LEMMA QuerySums ==
    ASSUME NEW t, NEW l \in Seq(Packet), NEW p \in Packet, p.qr # "r", SumsUp(t, l)
    PROVE  SumsUp(t, Append(l, p))
<1>1. NamesOf(Append(l, p)) = NamesOf(l)
  BY NamesAppend
<1>2. ASSUME NEW d
      PROVE  /\ Places(Append(l, p), d) = Places(l, d)
             /\ \A type : Answers(Append(l, p), d, type) = Answers(l, d, type)
             /\ \A i \in Places(l, d) : Rank(Append(l, p), d, i) = Rank(l, d, i)
             /\ \A i \in Places(l, d) : Append(l, p)[i].host = l[i].host
  <2> ~About(p, d)
    BY DEF About
  <2>1. Places(Append(l, p), d) = Places(l, d)
    BY PlacesAppend
  <2>2. ASSUME NEW type
        PROVE  Answers(Append(l, p), d, type) = Answers(l, d, type)
    BY AnswersAppend
  <2>3. \A i \in Places(l, d) : Rank(Append(l, p), d, i) = Rank(l, d, i)
    BY RankAppend
  <2>4. \A i \in Places(l, d) : Append(l, p)[i] = l[i]
    BY InAppend, PlacesFinite
  <2> QED
    BY <2>1, <2>2, <2>3, <2>4
<1>3. ASSUME NEW d \in NamesOf(l)
      PROVE  /\ Len(t[d].hosts) = Cardinality(Places(Append(l, p), d))
             /\ \A i \in Places(Append(l, p), d) :
                   t[d].hosts[Rank(Append(l, p), d, i)] = Append(l, p)[i].host
             /\ t[d].a = Answers(Append(l, p), d, "A")
             /\ t[d].aaaa = Answers(Append(l, p), d, "AAAA")
             /\ t[d].cname = Answers(Append(l, p), d, "CNAME")
  <2>1. /\ Len(t[d].hosts) = Cardinality(Places(l, d))
        /\ \A i \in Places(l, d) : t[d].hosts[Rank(l, d, i)] = l[i].host
        /\ t[d].a = Answers(l, d, "A")
        /\ t[d].aaaa = Answers(l, d, "AAAA")
        /\ t[d].cname = Answers(l, d, "CNAME")
    BY DEF SumsUp
  <2> QED
    BY <2>1, <1>2
<1>4. DOMAIN t = NamesOf(Append(l, p))
  BY <1>1 DEF SumsUp
<1> QED
  BY <1>1, <1>3, <1>4 DEF SumsUp

(* The question of a response: its name has an entry now, with the host    *)
(* behind those that asked before.                                         *)
LEMMA QuestionSums ==
    ASSUME NEW l \in Seq(Packet), NEW p \in Packet, p.qr = "r", p.answers = <<>>,
           LogType, SumsUp(dns_responses, l), hostIP = p.host
    PROVE  /\ SumsUp(Queried(p.questions[1]), Append(l, p))
           /\ Queried(p.questions[1]) \in [DOMAIN Queried(p.questions[1]) -> TableEntry]
<1> DEFINE L == Append(l, p)
           n == Len(l)
           q == p.questions[1]
           t == dns_responses
           u == Queried(q)
<1>1. /\ NamesOf(L) = NamesOf(l) \cup {q}
      /\ DOMAIN t = NamesOf(l)
      /\ t \in [DOMAIN t -> TableEntry]
      /\ hostIP \in Host
  BY NamesAppend DEF SumsUp, LogType
<1>2. ASSUME NEW d
      PROVE  /\ Places(L, d) = IF d = q THEN Places(l, d) \cup {n + 1} ELSE Places(l, d)
             /\ \A type : Answers(L, d, type) = Answers(l, d, type)
             /\ \A i \in Places(l, d) : Rank(L, d, i) = Rank(l, d, i)
             /\ \A i \in Places(l, d) : L[i].host = l[i].host
             /\ d = q => /\ Rank(L, d, n + 1) = Cardinality(Places(l, d)) + 1
                         /\ Cardinality(Places(L, d)) = Cardinality(Places(l, d)) + 1
  <2> About(p, d) <=> d = q
    BY DEF About
  <2>1. Places(L, d) = IF d = q THEN Places(l, d) \cup {n + 1} ELSE Places(l, d)
    BY PlacesAppend
  <2>2. ASSUME NEW type
        PROVE  Answers(L, d, type) = Answers(l, d, type)
    <3>1. Range(p.answers) = {}
      BY DEF Range
    <3>2. AnswersOf(p, type) = {}
      BY <3>1 DEF AnswersOf
    <3>3. Answers(L, d, type) = IF About(p, d) THEN Answers(l, d, type) \cup AnswersOf(p, type)
                                                ELSE Answers(l, d, type)
      BY AnswersAppend
    <3> HIDE DEF L
    <3> QED
      BY <3>2, <3>3
  <2>3. /\ \A i \in Places(l, d) : Rank(L, d, i) = Rank(l, d, i)
        /\ d = q => /\ Rank(L, d, n + 1) = Cardinality(Places(l, d)) + 1
                    /\ Cardinality(Places(L, d)) = Cardinality(Places(l, d)) + 1
    BY RankAppend
  <2>4. \A i \in Places(l, d) : L[i] = l[i]
    BY InAppend, PlacesFinite
  <2> QED
    BY <2>1, <2>2, <2>3, <2>4
<1>3. L[n + 1] = p /\ n \in Nat
  BY InAppend
<1>4. \A d : Cardinality(Places(l, d)) \in Nat /\ Places(l, d) \subseteq 1 .. n
  BY PlacesFinite
<1>5. \A d : \A i \in Places(l, d) : Rank(l, d, i) \in 1 .. Cardinality(Places(l, d))
  BY RankInPlaces
<1> HIDE DEF L, n
<1> DEFINE Good(e, d) ==
              /\ Len(e.hosts) = Cardinality(Places(L, d))
              /\ \A i \in Places(L, d) : e.hosts[Rank(L, d, i)] = L[i].host
              /\ e.a = Answers(L, d, "A")
              /\ e.aaaa = Answers(L, d, "AAAA")
              /\ e.cname = Answers(L, d, "CNAME")
<1>6. ASSUME NEW d \in NamesOf(l), d # q
      PROVE  Good(t[d], d)
  <2>1. Places(L, d) = Places(l, d)
    BY <1>2, <1>6
  <2> QED
    BY <2>1, <1>2 DEF SumsUp
<1>7. CASE q \in NamesOf(l)
  <2> DEFINE h == t[q].hosts
             e == [t[q] EXCEPT !.hosts = Append(@, hostIP)]
  <2>1. u = [t EXCEPT ![q].hosts = Append(@, hostIP)] /\ q \in DOMAIN t
    BY <1>1, <1>7 DEF Queried
  <2>2. t[q] \in TableEntry
    BY <1>1, <2>1
  <2>3. /\ h \in Seq(Host) /\ Append(h, hostIP) \in Seq(Host)
        /\ Len(Append(h, hostIP)) = Len(h) + 1
        /\ \A i \in 1 .. Len(h) : Append(h, hostIP)[i] = h[i]
        /\ Append(h, hostIP)[Len(h) + 1] = hostIP
    BY <1>1, <2>2, AppendProperties DEF TableEntry
  <2>4. /\ e.hosts = Append(h, hostIP) /\ e.a = t[q].a /\ e.aaaa = t[q].aaaa
        /\ e.cname = t[q].cname /\ e \in TableEntry
    BY <2>2, <2>3 DEF TableEntry
  <2>5. u = [t EXCEPT ![q] = e]
    BY <2>1
  <2> HIDE DEF h, e
  <2>6. DOMAIN u = NamesOf(L) /\ u \in [DOMAIN u -> TableEntry]
    <3>1. NamesOf(L) = NamesOf(l)
      BY <1>1, <1>7
    <3>2. DOMAIN u = DOMAIN t
      BY <2>5
    <3>3. u \in [DOMAIN t -> TableEntry]
      BY <2>4, <2>5, <1>1
    <3> QED
      BY <3>1, <3>2, <3>3, <1>1
  <2>7. /\ Len(h) = Cardinality(Places(l, q))
        /\ \A i \in Places(l, q) : h[Rank(l, q, i)] = l[i].host
        /\ t[q].a = Answers(l, q, "A")
        /\ t[q].aaaa = Answers(l, q, "AAAA")
        /\ t[q].cname = Answers(l, q, "CNAME")
    BY <1>7 DEF SumsUp, h
  <2>8. Good(e, q)
    <3>1. Len(e.hosts) = Cardinality(Places(L, q))
      BY <2>3, <2>4, <2>7, <1>2
    <3>2. ASSUME NEW i \in Places(L, q)
          PROVE  e.hosts[Rank(L, q, i)] = L[i].host
      <4>1. i \in Places(l, q) \/ i = n + 1
        BY <1>2
      <4>2. CASE i \in Places(l, q)
        <5>1. Rank(L, q, i) = Rank(l, q, i) /\ Rank(l, q, i) \in 1 .. Len(h)
          BY <4>2, <1>2, <1>5, <2>7
        <5>2. e.hosts[Rank(L, q, i)] = h[Rank(l, q, i)]
          BY <5>1, <2>3, <2>4
        <5> QED
          BY <4>2, <5>2, <2>7, <1>2
      <4>3. CASE i = n + 1
        <5>1. Rank(L, q, i) = Len(h) + 1
          BY <4>3, <1>2, <2>7
        <5> QED
          BY <4>3, <5>1, <2>3, <2>4, <1>3
      <4> QED
        BY <4>1, <4>2, <4>3
    <3> QED
      BY <3>1, <3>2, <2>4, <2>7, <1>2
  <2>9. ASSUME NEW d \in NamesOf(L)
        PROVE  Good(u[d], d)
    <3>1. CASE d = q
      BY <3>1, <2>1, <2>5, <2>8
    <3>2. CASE d # q
      <4>1. d \in NamesOf(l) /\ u[d] = t[d]
        BY <3>2, <1>1, <2>5
      <4> QED
        BY <3>2, <4>1, <1>6
    <3> QED
      BY <3>1, <3>2
  <2> QED
    BY <2>6, <2>9 DEF SumsUp, L
<1>8. CASE q \notin NamesOf(l)
  <2> DEFINE e == [hosts |-> <<hostIP>>, a |-> {}, aaaa |-> {}, cname |-> {}]
  <2>1. u = [d \in DOMAIN t \cup {q} |-> IF d = q THEN e ELSE t[d]]
    BY <1>1, <1>8 DEF Queried
  <2>2. /\ e.hosts \in Seq(Host) /\ Len(e.hosts) = 1 /\ e.hosts[1] = hostIP
        /\ e.a = {} /\ e.aaaa = {} /\ e.cname = {} /\ e \in TableEntry
    BY <1>1 DEF TableEntry
  <2> HIDE DEF e
  <2>3. DOMAIN u = NamesOf(L) /\ u \in [DOMAIN u -> TableEntry]
    BY <2>1, <2>2, <1>1
  <2>4. Places(l, q) = {} /\ Cardinality(Places(l, q)) = 0
    BY <1>8, NamesHavePlaces, FS_EmptySet
  <2>5. \A type : Answers(l, q, type) = {}
    BY <2>4 DEF Answers
  <2>6. Good(e, q)
    <3>1. Places(L, q) = {n + 1}
      BY <2>4, <1>2
    <3>2. Cardinality(Places(L, q)) = 1 /\ Rank(L, q, n + 1) = 1
      <4>1. /\ Cardinality(Places(L, q)) = Cardinality(Places(l, q)) + 1
            /\ Rank(L, q, n + 1) = Cardinality(Places(l, q)) + 1
        BY <1>2
      <4> QED
        BY <2>4, <4>1
    <3>3. \A type : Answers(L, q, type) = {}
      BY <2>5, <1>2
    <3> QED
      BY <3>1, <3>2, <3>3, <2>2, <1>3
  <2>7. ASSUME NEW d \in NamesOf(L)
        PROVE  Good(u[d], d)
    <3>1. CASE d = q
      BY <3>1, <2>1, <2>6
    <3>2. CASE d # q
      <4>1. d \in NamesOf(l) /\ u[d] = t[d]
        BY <3>2, <1>1, <2>1
      <4> QED
        BY <3>2, <4>1, <1>6
    <3> QED
      BY <3>1, <3>2
  <2> QED
    BY <2>3, <2>7 DEF SumsUp, L
<1> QED
  BY <1>7, <1>8

(* An answer of a response: it goes to the set of its type.                *)
LEMMA AnswerSums ==
    ASSUME NEW l \in Seq(Packet), NEW p \in Packet, NEW p1 \in Packet, NEW x,
           p.qr = "r", p1.qr = "r", p1.questions = p.questions, p1.host = p.host,
           \A type : AnswersOf(p1, type) =
                        AnswersOf(p, type) \cup (IF x.type = type THEN {x.data} ELSE {}),
           NEW t, NEW u, SumsUp(t, Append(l, p)),
           DOMAIN u = DOMAIN t,
           \A d \in DOMAIN t : d # p.questions[1] => u[d] = t[d],
           u[p.questions[1]].hosts = t[p.questions[1]].hosts,
           u[p.questions[1]].a = t[p.questions[1]].a \cup (IF x.type = "A" THEN {x.data} ELSE {}),
           u[p.questions[1]].aaaa =
              t[p.questions[1]].aaaa \cup (IF x.type = "AAAA" THEN {x.data} ELSE {}),
           u[p.questions[1]].cname =
              t[p.questions[1]].cname \cup (IF x.type = "CNAME" THEN {x.data} ELSE {})
    PROVE  SumsUp(u, Append(l, p1))
<1> DEFINE L == Append(l, p)
           M == Append(l, p1)
           q == p.questions[1]
           one(type) == IF x.type = type THEN {x.data} ELSE {}
<1>1. NamesOf(M) = NamesOf(L) /\ DOMAIN t = NamesOf(L)
  <2>1. NamesOf(L) = NamesOf(l) \cup {q}
    BY NamesAppend
  <2>2. NamesOf(M) = NamesOf(l) \cup {p1.questions[1]}
    BY NamesAppend
  <2>3. DOMAIN t = NamesOf(L)
    BY DEF SumsUp
  <2> QED
    BY <2>1, <2>2, <2>3
<1>2. ASSUME NEW d
      PROVE  /\ Places(M, d) = Places(L, d)
             /\ \A i : Rank(M, d, i) = Rank(L, d, i)
             /\ \A i \in Places(L, d) : M[i].host = L[i].host
             /\ \A type : Answers(M, d, type) =
                             IF d = q THEN Answers(L, d, type) \cup one(type)
                                      ELSE Answers(L, d, type)
  <2>1. (About(p, d) <=> d = q) /\ (About(p1, d) <=> d = q)
    BY DEF About
  <2>2. Places(M, d) = Places(L, d)
    <3>1. Places(L, d) = IF About(p, d) THEN Places(l, d) \cup {Len(l) + 1} ELSE Places(l, d)
      BY PlacesAppend
    <3>2. Places(M, d) = IF About(p1, d) THEN Places(l, d) \cup {Len(l) + 1} ELSE Places(l, d)
      BY PlacesAppend
    <3> QED
      BY <2>1, <3>1, <3>2
  <2>3. \A i : Rank(M, d, i) = Rank(L, d, i)
    BY <2>2 DEF Rank
  <2>4. \A i \in Places(L, d) : M[i].host = L[i].host
    <3>1. /\ L \in Seq(Packet) /\ Len(l) \in Nat /\ Len(L) = Len(l) + 1
          /\ \A i \in 1 .. Len(l) : L[i] = l[i] /\ M[i] = l[i]
          /\ L[Len(l) + 1] = p /\ M[Len(l) + 1] = p1
      BY InAppend
    <3>2. Places(L, d) \subseteq 1 .. Len(l) + 1
      BY <3>1, PlacesFinite
    <3> HIDE DEF L, M
    <3>3. ASSUME NEW i \in Places(L, d)
          PROVE  M[i].host = L[i].host
      <4>1. i \in 1 .. Len(l) \/ i = Len(l) + 1
        BY <3>1, <3>2
      <4> QED
        BY <3>1, <4>1
    <3> QED
      BY <3>3
  <2>5. ASSUME NEW type
        PROVE  Answers(M, d, type) =
                  IF d = q THEN Answers(L, d, type) \cup one(type) ELSE Answers(L, d, type)
    <3>1. Answers(L, d, type) =
             IF d = q THEN Answers(l, d, type) \cup AnswersOf(p, type) ELSE Answers(l, d, type)
      BY <2>1, AnswersAppend
    <3>2. Answers(M, d, type) =
             IF d = q THEN Answers(l, d, type) \cup AnswersOf(p1, type) ELSE Answers(l, d, type)
      BY <2>1, AnswersAppend
    <3>3. AnswersOf(p1, type) = AnswersOf(p, type) \cup one(type)
      OBVIOUS
    <3> HIDE DEF L, M, q, one
    <3> QED
      BY <3>1, <3>2, <3>3
  <2> QED
    BY <2>2, <2>3, <2>4, <2>5
<1>3. /\ u[q].hosts = t[q].hosts /\ u[q].a = t[q].a \cup one("A")
      /\ u[q].aaaa = t[q].aaaa \cup one("AAAA") /\ u[q].cname = t[q].cname \cup one("CNAME")
      /\ \A d \in DOMAIN t : d # q => u[d] = t[d]
      /\ SumsUp(t, L)
  OBVIOUS
<1> HIDE DEF L, M, q, one
<1>4. ASSUME NEW d \in NamesOf(L)
      PROVE  /\ Len(u[d].hosts) = Cardinality(Places(M, d))
             /\ \A i \in Places(M, d) : u[d].hosts[Rank(M, d, i)] = M[i].host
             /\ u[d].a = Answers(M, d, "A")
             /\ u[d].aaaa = Answers(M, d, "AAAA")
             /\ u[d].cname = Answers(M, d, "CNAME")
  <2>1. /\ Len(t[d].hosts) = Cardinality(Places(L, d))
        /\ \A i \in Places(L, d) : t[d].hosts[Rank(L, d, i)] = L[i].host
        /\ t[d].a = Answers(L, d, "A")
        /\ t[d].aaaa = Answers(L, d, "AAAA")
        /\ t[d].cname = Answers(L, d, "CNAME")
    BY <1>3 DEF SumsUp
  <2>2. CASE d = q
    BY <2>1, <2>2, <1>2, <1>3
  <2>3. CASE d # q
    BY <2>1, <2>3, <1>1, <1>2, <1>3
  <2> QED
    BY <2>2, <2>3
<1> QED
  BY <1>1, <1>4 DEF SumsUp, M

(* Every place among the responses about a name is that of one of them.    *)
LEMMA RanksFill ==
    ASSUME NEW l \in Seq(Packet), NEW d, NEW k \in 1 .. Cardinality(Places(l, d))
    PROVE  \E i \in Places(l, d) : Rank(l, d, i) = k
<1> DEFINE P == Places(l, d)
           C == Cardinality(P)
           f == [i \in P |-> Rank(l, d, i)]
           R(i) == {j \in P : j <= i}
<1>1. P \subseteq 1 .. Len(l) /\ IsFiniteSet(P) /\ C \in Nat /\ Len(l) \in Nat
  BY PlacesFinite, LenProperties
<1>2. \A i \in P : i \in Nat
  BY <1>1
<1>3. ASSUME NEW i \in P, NEW j \in P, i < j
      PROVE  Rank(l, d, i) # Rank(l, d, j)
  <2>1. R(i) \subseteq R(j) /\ j \in R(j) /\ j \notin R(i)
    BY <1>2, <1>3
  <2>2. IsFiniteSet(R(j))
    BY <1>1, FS_Subset
  <2>3. Cardinality(R(i)) # Cardinality(R(j))
    BY <2>1, <2>2, FS_Subset
  <2> QED
    BY <2>3 DEF Rank
<1>4. \A i, j \in P : Rank(l, d, i) = Rank(l, d, j) => i = j
  BY <1>2, <1>3
<1>5. f \in [P -> 1 .. C]
  BY RankInPlaces
<1>6. f \in Injection(P, 1 .. C)
  BY <1>4, <1>5 DEF Injection, IsInjective
<1>7. IsFiniteSet(1 .. C) /\ Cardinality(1 .. C) = C
  BY <1>1, FS_Interval
<1>8. f \in Surjection(P, 1 .. C)
  BY <1>6, <1>7, FS_Injection
<1> QED
  BY <1>8 DEF Surjection

(* What the script counts in its table at the end.                         *)
LEMMA TableFigures ==
    ASSUME LogType, SumsUp(dns_responses, log), Report
    PROVE  highest' = Figures(log)
<1> DEFINE t == dns_responses
           N == NamesOf(log)
<1>1. DOMAIN t = N /\ t \in [N -> TableEntry]
  BY DEF LogType, SumsUp
<1>2. ASSUME NEW d \in N
      PROVE  /\ t[d].a = Answers(log, d, "A")
             /\ t[d].aaaa = Answers(log, d, "AAAA")
             /\ t[d].cname = Answers(log, d, "CNAME")
             /\ Range(t[d].hosts) = Hosts(log, d)
  <2> DEFINE h == t[d].hosts
             P == Places(log, d)
  <2>1. /\ Len(h) = Cardinality(P)
        /\ \A i \in P : h[Rank(log, d, i)] = log[i].host
        /\ t[d].a = Answers(log, d, "A")
        /\ t[d].aaaa = Answers(log, d, "AAAA")
        /\ t[d].cname = Answers(log, d, "CNAME")
    BY DEF SumsUp
  <2>2. h \in Seq(Host) /\ DOMAIN h = 1 .. Cardinality(P)
    BY <1>1, <2>1, LenProperties DEF TableEntry
  <2>3. \A i \in P : Rank(log, d, i) \in DOMAIN h
    BY <2>2, RankInPlaces DEF LogType
  <2>4. \A k \in DOMAIN h : \E i \in P : Rank(log, d, i) = k
    BY <2>2, RanksFill DEF LogType
  <2>5. \A v : (\E k \in DOMAIN h : v = h[k]) <=> (\E i \in P : v = log[i].host)
    BY <2>1, <2>3, <2>4
  <2>6. Range(h) = Hosts(log, d)
    BY <2>5 DEF Range, Hosts
  <2> QED
    BY <2>1, <2>6
<1>3. Range(t) = {t[d] : d \in N}
  BY <1>1 DEF Range
<1> HIDE DEF t, N
<1>4. {Cardinality(e.aaaa) : e \in Range(t)} = {Cardinality(Answers(log, d, "AAAA")) : d \in N}
  BY <1>2, <1>3
<1>5. {Cardinality(e.a) : e \in Range(t)} = {Cardinality(Answers(log, d, "A")) : d \in N}
  BY <1>2, <1>3
<1>6. {Cardinality(e.cname) : e \in Range(t)} = {Cardinality(Answers(log, d, "CNAME")) : d \in N}
  BY <1>2, <1>3
<1>7. {Cardinality(Range(e.hosts)) : e \in Range(t)} = {Cardinality(Hosts(log, d)) : d \in N}
  BY <1>2, <1>3
<1>8. highest' = [aaaa     |-> Highest({Cardinality(e.aaaa) : e \in Range(t)}),
                  a        |-> Highest({Cardinality(e.a) : e \in Range(t)}),
                  cname    |-> Highest({Cardinality(e.cname) : e \in Range(t)}),
                  requests |-> Highest({Cardinality(Range(e.hosts)) : e \in Range(t)})]
  BY DEF Report, t
<1> QED
  BY <1>4, <1>5, <1>6, <1>7, <1>8 DEF Figures, Most, N

-----------------------------------------------------------------------------
(* The lines of a packet.                                                  *)

(* The lines of a packet: a header, its questions, its answers.            *)
LEMMA PrintedLines ==
    ASSUME NEW p \in Packet
    PROVE  /\ Printed(p) \in Seq(Line)
           /\ Len(p.questions) \in Nat /\ Len(p.answers) \in Nat
           /\ Len(Printed(p)) = 1 + Len(p.questions) + Len(p.answers)
           /\ Printed(p)[1] = [kind |-> "header", dated |-> p.dated, qr |-> p.qr, host |-> p.host]
           /\ \A i \in 1 .. Len(p.questions) :
                 Printed(p)[1 + i] = [kind |-> "?", name |-> p.questions[i]]
           /\ \A j \in 1 .. Len(p.answers) :
                 Printed(p)[1 + Len(p.questions) + j] =
                    [kind |-> "!", contains |-> Strings(p.answers[j].type),
                     data |-> p.answers[j].data]
<1> DEFINE Q == p.questions
           A == p.answers
           h == [kind |-> "header", dated |-> p.dated, qr |-> p.qr, host |-> p.host]
           qs == [i \in DOMAIN Q |-> [kind |-> "?", name |-> Q[i]]]
           as == [i \in DOMAIN A |-> [kind |-> "!", contains |-> Strings(A[i].type),
                                      data |-> A[i].data]]
<1>1. Q \in Seq(Word) /\ A \in Seq([type : STRING, data : STRING]) /\ h \in Line
  BY DEF Packet, Line
<1>2. Len(Q) \in Nat /\ DOMAIN Q = 1 .. Len(Q) /\ Len(A) \in Nat /\ DOMAIN A = 1 .. Len(A)
  BY <1>1, LenProperties
<1>3. <<h>> \in Seq(Line) /\ Len(<<h>>) = 1 /\ <<h>>[1] = h
  BY <1>1
<1>4. qs \in Seq(Line) /\ Len(qs) = Len(Q)
  <2>1. \A i \in 1 .. Len(Q) : [kind |-> "?", name |-> Q[i]] \in Line
    BY <1>1, ElementOfSeq DEF Line
  <2> QED
    BY <2>1, <1>2, IsASeq
<1>5. as \in Seq(Line) /\ Len(as) = Len(A)
  <2>1. ASSUME NEW i \in 1 .. Len(A)
        PROVE  [kind |-> "!", contains |-> Strings(A[i].type), data |-> A[i].data] \in Line
    <3>1. A[i] \in [type : STRING, data : STRING]
      BY <1>1, ElementOfSeq
    <3> QED
      BY <3>1 DEF Line
  <2> QED
    BY <2>1, <1>2, IsASeq
<1>6. /\ \A i \in 1 .. Len(Q) : qs[i] = [kind |-> "?", name |-> Q[i]]
      /\ \A i \in 1 .. Len(A) : as[i] = [kind |-> "!", contains |-> Strings(A[i].type),
                                         data |-> A[i].data]
  BY <1>2
<1>7. Printed(p) = <<h>> \o qs \o as
  BY DEF Printed
<1> HIDE DEF Q, A, h, qs, as
<1>8. /\ <<h>> \o qs \in Seq(Line) /\ Len(<<h>> \o qs) = 1 + Len(Q)
      /\ (<<h>> \o qs)[1] = h
      /\ \A i \in 1 .. Len(Q) : (<<h>> \o qs)[1 + i] = qs[i]
  <2>1. /\ <<h>> \o qs \in Seq(Line) /\ Len(<<h>> \o qs) = 1 + Len(Q)
        /\ \A i \in 1 .. 1 + Len(Q) :
              (<<h>> \o qs)[i] = IF i <= 1 THEN <<h>>[i] ELSE qs[i - 1]
    BY <1>3, <1>4, ConcatProperties
  <2>2. (<<h>> \o qs)[1] = h
    BY <2>1, <1>2, <1>3
  <2>3. ASSUME NEW i \in 1 .. Len(Q)
        PROVE  (<<h>> \o qs)[1 + i] = qs[i]
    <3>1. 1 + i \in 1 .. 1 + Len(Q) /\ ~(1 + i <= 1) /\ (1 + i) - 1 = i
      BY <1>2
    <3> QED
      BY <2>1, <3>1
  <2> QED
    BY <2>1, <2>2, <2>3
<1> DEFINE hq == <<h>> \o qs
<1> HIDE DEF hq
<1>9. /\ hq \o as \in Seq(Line) /\ Len(hq \o as) = 1 + Len(Q) + Len(A)
      /\ \A i \in 1 .. 1 + Len(Q) : (hq \o as)[i] = hq[i]
      /\ \A j \in 1 .. Len(A) : (hq \o as)[1 + Len(Q) + j] = as[j]
  <2>1. hq \in Seq(Line) /\ Len(hq) = 1 + Len(Q)
    BY <1>8 DEF hq
  <2>2. as \in Seq(Line)
    BY <1>5
  <2>3. /\ hq \o as \in Seq(Line) /\ Len(hq \o as) = Len(hq) + Len(as)
        /\ \A i \in 1 .. Len(hq) + Len(as) :
              (hq \o as)[i] = IF i <= Len(hq) THEN hq[i] ELSE as[i - Len(hq)]
    BY <2>1, <2>2, ConcatProperties, Zenon
  <2>4. /\ hq \o as \in Seq(Line) /\ Len(hq \o as) = 1 + Len(Q) + Len(A)
        /\ \A i \in 1 .. 1 + Len(Q) + Len(A) :
              (hq \o as)[i] = IF i <= 1 + Len(Q) THEN hq[i] ELSE as[i - (1 + Len(Q))]
    BY <2>1, <2>3, <1>5
  <2>5. ASSUME NEW i \in 1 .. 1 + Len(Q)
        PROVE  (hq \o as)[i] = hq[i]
    <3>1. i \in 1 .. 1 + Len(Q) + Len(A) /\ i <= 1 + Len(Q)
      BY <1>2
    <3> QED
      BY <2>4, <3>1
  <2>6. ASSUME NEW j \in 1 .. Len(A)
        PROVE  (hq \o as)[1 + Len(Q) + j] = as[j]
    <3>1. /\ 1 + Len(Q) + j \in 1 .. 1 + Len(Q) + Len(A) /\ ~(1 + Len(Q) + j <= 1 + Len(Q))
          /\ (1 + Len(Q) + j) - (1 + Len(Q)) = j
      BY <1>2
    <3> QED
      BY <2>4, <3>1
  <2> QED
    BY <2>4, <2>5, <2>6
<1>10. \A i \in 1 .. Len(Q) : (hq \o as)[1 + i] = qs[i]
  <2>1. ASSUME NEW i \in 1 .. Len(Q)
        PROVE  (hq \o as)[1 + i] = qs[i]
    <3>1. 1 + i \in 1 .. 1 + Len(Q)
      BY <1>2
    <3> QED
      BY <3>1, <1>8, <1>9 DEF hq
  <2> QED
    BY <2>1
<1>11. (hq \o as)[1] = h
  <2>1. 1 \in 1 .. 1 + Len(Q)
    BY <1>2
  <2> QED
    BY <2>1, <1>8, <1>9 DEF hq
<1> QED
  BY <1>2, <1>6, <1>7, <1>9, <1>10, <1>11 DEF hq, Q, A, h

(* The next line of a packet, and what is left then.                       *)
LEMMA LineOfPacket ==
    ASSUME NEW l \in Seq(Packet), NEW p \in Packet, NEW r \in Nat, InPacket(l, p, r)
    PROVE  /\ line = Printed(p)[r + 1]
           /\ r + 1 < Len(Printed(p)) =>
                 Tail(lines) = SubSeq(Printed(p), (r + 1) + 1, Len(Printed(p)))
           /\ r + 1 = Len(Printed(p)) => Tail(lines) = <<>>
<1> DEFINE s == Printed(p)
           n == Len(s)
<1>1. s \in Seq(Line) /\ n \in Nat
  BY PrintedLines, LenProperties
<1>2. r + 1 \in 1 .. n /\ n \in r + 1 .. n /\ lines = SubSeq(s, r + 1, n)
  BY <1>1 DEF InPacket
<1> HIDE DEF s, n
<1>3. Head(lines) = s[r + 1] /\ Tail(lines) = SubSeq(s, (r + 1) + 1, n)
  BY <1>1, <1>2, HeadTailOfSubSeq DEF n
<1>4. r + 1 = n => Tail(lines) = <<>>
  BY <1>1, <1>3, SubSeqEmpty
<1> QED
  BY <1>3, <1>4 DEF line, s, n

(* How much of a regular packet the line is that comes next.               *)
LEMMA NextLine ==
    ASSUME NEW l \in Seq(Packet), NEW p \in Packet, NEW r \in Nat, InPacket(l, p, r),
           Regular(p)
    PROVE  \/ /\ r = 0 /\ line = [kind |-> "header", dated |-> TRUE, qr |-> p.qr, host |-> p.host]
           \/ /\ r \in 1 .. Len(p.questions) /\ line = [kind |-> "?", name |-> p.questions[r]]
              /\ p.qr = "r" => r = 1
           \/ /\ p.qr = "r" /\ r >= 2 /\ r - 1 \in 1 .. Len(p.answers)
              /\ line = [kind |-> "!", contains |-> Strings(p.answers[r - 1].type),
                         data |-> p.answers[r - 1].data]
<1> DEFINE nq == Len(p.questions)
           na == Len(p.answers)
<1>1. /\ nq \in Nat /\ na \in Nat /\ r < 1 + nq + na
      /\ Printed(p)[1] = [kind |-> "header", dated |-> p.dated, qr |-> p.qr, host |-> p.host]
      /\ \A i \in 1 .. nq : Printed(p)[1 + i] = [kind |-> "?", name |-> p.questions[i]]
      /\ \A j \in 1 .. na : Printed(p)[1 + nq + j] =
                    [kind |-> "!", contains |-> Strings(p.answers[j].type),
                     data |-> p.answers[j].data]
  BY PrintedLines DEF InPacket
<1>2. line = Printed(p)[r + 1]
  BY LineOfPacket
<1>3. /\ p.qr = "r" => nq = 1
      /\ p.qr # "r" => na = 0
      /\ p.dated = TRUE
  <2>1. p.qr # "r" => na = 0
    <3>1. Len(<<>>) = 0
      OBVIOUS
    <3> QED
      BY <3>1 DEF Regular
  <2>2. p.dated \in BOOLEAN /\ p.dated
    BY DEF Regular, Packet
  <2> QED
    BY <2>1, <2>2 DEF Regular
<1>n. nq \in Nat /\ na \in Nat /\ r < 1 + nq + na
  BY <1>1
<1>4. CASE r = 0
  <2>1. r + 1 = 1
    BY <1>4
  <2>2. line = Printed(p)[1]
    BY <2>1, <1>2
  <2> QED
    BY <2>2, <1>1, <1>3, <1>4
<1>5. CASE r \in 1 .. nq
  <2>1. line = Printed(p)[1 + r]
    BY <1>2
  <2> QED
    BY <2>1, <1>1, <1>3, <1>5
<1>6. CASE r > nq
  <2>1. p.qr = "r" /\ nq = 1
    <3> HIDE DEF nq, na
    <3>1. na # 0
      BY <1>n, <1>6
    <3> QED
      BY <3>1, <1>3
  <2>2. r - 1 \in 1 .. na /\ r >= 2
    <3> HIDE DEF nq, na
    <3> QED
      BY <2>1, <1>n, <1>6
  <2>3. r + 1 = 1 + nq + (r - 1)
    BY <2>1
  <2>4. line = [kind |-> "!", contains |-> Strings(p.answers[r - 1].type),
                data |-> p.answers[r - 1].data]
    BY <2>2, <2>3, <1>1, <1>2
  <2> QED
    BY <2>1, <2>2, <2>4
<1> QED
  <2>1. r = 0 \/ r \in 1 .. nq \/ r > nq
    BY <1>n
  <2> QED
    BY <2>1, <1>4, <1>5, <1>6

(* When a line of a packet is read and the table is right for it, the      *)
(* packet goes on, or it was its last line.                                *)
LEMMA AfterLine ==
    ASSUME NEW l \in Seq(Packet), NEW p \in Packet, NEW r \in Nat, InPacket(l, p, r),
           Regular(p), lines' = Tail(lines),
           UNCHANGED <<log, counted, packet_totals>>,
           response' = IF p.qr = "r" THEN "True" ELSE "False",
           p.qr = "r" => hostIP' = p.host,
           r >= 1 /\ p.qr = "r" => domain' = p.questions[1],
           SumsUp(dns_responses', SoFar(l, p, r + 1))
    PROVE  Between' \/ InPacket(l, p, r + 1)'
<1>1. Len(Printed(p)) = 1 + Len(p.questions) + Len(p.answers) /\ r < Len(Printed(p))
      /\ Len(p.questions) \in Nat /\ Len(p.answers) \in Nat
  BY PrintedLines DEF InPacket
<1>2. TotalsRead' /\ log' = Append(l, p)
  BY DEF TotalsRead, packet_totals, InPacket
<1>3. CASE r + 1 < Len(Printed(p))
  <2>1. lines' = SubSeq(Printed(p), (r + 1) + 1, Len(Printed(p)))
    BY <1>3, LineOfPacket
  <2>2. r + 1 >= 2 <=> r >= 1
    OBVIOUS
  <2> QED
    BY <2>1, <2>2, <1>2, <1>3 DEF InPacket
<1>4. CASE r + 1 = Len(Printed(p))
  <2>1. lines' = <<>>
    BY <1>4, LineOfPacket
  <2>2. SumsUp(dns_responses', Append(l, p))
    <3>1. CASE p.qr = "r"
      <4>1. Len(p.questions) = 1
        BY <3>1 DEF Regular
      <4>2. r + 1 = 2 + Len(p.answers)
        BY <4>1, <1>1, <1>4
      <4>3. UpTo(p, Len(p.answers)) = p
        <5>1. p.answers \in Seq([type : STRING, data : STRING])
          BY DEF Packet
        <5>2. SubSeq(p.answers, 1, Len(p.answers)) = p.answers
          BY <5>1, SubSeqFull
        <5> QED
          BY <5>2 DEF UpTo, Packet
      <4>4. SoFar(l, p, r + 1) = Append(l, UpTo(p, (r + 1) - 2)) /\ (r + 1) - 2 = Len(p.answers)
        BY <3>1, <4>2, <1>1 DEF SoFar
      <4> QED
        BY <4>3, <4>4
    <3>2. CASE p.qr # "r"
      <4>1. SoFar(l, p, r + 1) = l
        BY <3>2 DEF SoFar
      <4> QED
        BY <4>1, <3>2, QuerySums
    <3> QED
      BY <3>1, <3>2
  <2> QED
    BY <2>1, <2>2, <1>2 DEF Between
<1>5. r + 1 < Len(Printed(p)) \/ r + 1 = Len(Printed(p))
  <2> DEFINE n == Len(Printed(p))
  <2>1. n \in Nat /\ r < n
    BY PrintedLines, LenProperties DEF InPacket
  <2> HIDE DEF n
  <2>2. r + 1 < n \/ r + 1 = n
    BY <2>1
  <2> QED
    BY <2>2 DEF n
<1> QED
  BY <1>3, <1>4, <1>5

(* A packet cut off, and what one answer more adds to it.                  *)
LEMMA CutPacket ==
    ASSUME NEW p \in Packet, NEW n \in Nat, n < Len(p.answers)
    PROVE  /\ UpTo(p, n) \in Packet /\ UpTo(p, n + 1) \in Packet
           /\ UpTo(p, n).qr = p.qr /\ UpTo(p, n + 1).qr = p.qr
           /\ UpTo(p, n).questions = p.questions /\ UpTo(p, n + 1).questions = p.questions
           /\ UpTo(p, n).host = p.host /\ UpTo(p, n + 1).host = p.host
           /\ \A type : AnswersOf(UpTo(p, n + 1), type) =
                           AnswersOf(UpTo(p, n), type)
                           \cup (IF p.answers[n + 1].type = type
                                 THEN {p.answers[n + 1].data} ELSE {})
<1> DEFINE A == p.answers
           s == SubSeq(A, 1, n)
           t == SubSeq(A, 1, n + 1)
           x == A[n + 1]
<1>1. A \in Seq([type : STRING, data : STRING]) /\ Len(A) \in Nat
  BY LenProperties DEF Packet
<1>2. \A i \in 1 .. Len(A) : A[i] \in [type : STRING, data : STRING]
  BY <1>1, ElementOfSeq
<1>3. ASSUME NEW m \in Nat, m <= Len(A)
      PROVE  /\ SubSeq(A, 1, m) \in Seq([type : STRING, data : STRING])
             /\ Len(SubSeq(A, 1, m)) = m
             /\ DOMAIN SubSeq(A, 1, m) = 1 .. m
             /\ \A i \in 1 .. m : SubSeq(A, 1, m)[i] = A[i]
  <2>1. \A i \in 1 .. m : A[i] \in [type : STRING, data : STRING]
    BY <1>1, <1>2, <1>3
  <2>2. /\ SubSeq(A, 1, m) \in Seq([type : STRING, data : STRING])
        /\ Len(SubSeq(A, 1, m)) = IF 1 <= m THEN m - 1 + 1 ELSE 0
        /\ \A i \in 1 .. m - 1 + 1 : SubSeq(A, 1, m)[i] = A[1 + i - 1]
    BY <2>1, <1>3, SubSeqProperties
  <2>3. Len(SubSeq(A, 1, m)) = m
    BY <2>2, <1>3
  <2>4. \A i \in 1 .. m : SubSeq(A, 1, m)[i] = A[i]
    BY <2>2, <1>3
  <2> QED
    BY <2>2, <2>3, <2>4, LenProperties
<1>4. /\ UpTo(p, n) = [p EXCEPT !.answers = s]
      /\ UpTo(p, n + 1) = [p EXCEPT !.answers = t]
  BY DEF UpTo
<1>5. /\ s \in Seq([type : STRING, data : STRING])
      /\ t \in Seq([type : STRING, data : STRING])
      /\ DOMAIN s = 1 .. n /\ DOMAIN t = 1 .. n + 1
      /\ \A i \in 1 .. n : s[i] = A[i] /\ t[i] = A[i]
      /\ t[n + 1] = x
  <2>1. /\ s \in Seq([type : STRING, data : STRING]) /\ DOMAIN s = 1 .. n
        /\ \A i \in 1 .. n : s[i] = A[i]
    BY <1>1, <1>3
  <2>2. /\ t \in Seq([type : STRING, data : STRING]) /\ DOMAIN t = 1 .. n + 1
        /\ \A i \in 1 .. n + 1 : t[i] = A[i]
    BY <1>1, <1>3
  <2> QED
    BY <2>1, <2>2
<1> HIDE DEF s, t, x
<1>6. /\ UpTo(p, n) \in Packet /\ UpTo(p, n).answers = s
      /\ UpTo(p, n).qr = p.qr /\ UpTo(p, n).questions = p.questions
      /\ UpTo(p, n).host = p.host
      /\ UpTo(p, n + 1) \in Packet /\ UpTo(p, n + 1).answers = t
      /\ UpTo(p, n + 1).qr = p.qr /\ UpTo(p, n + 1).questions = p.questions
      /\ UpTo(p, n + 1).host = p.host
  BY <1>4, <1>5 DEF Packet
<1>7. \A b : b \in Range(t) <=> b \in Range(s) \/ b = x
  <2>1. \A i : i \in 1 .. n + 1 <=> i \in 1 .. n \/ i = n + 1
    OBVIOUS
  <2> QED
    BY <2>1, <1>5 DEF Range
<1>8. ASSUME NEW type
      PROVE  AnswersOf(UpTo(p, n + 1), type) =
                AnswersOf(UpTo(p, n), type) \cup (IF x.type = type THEN {x.data} ELSE {})
  <2>1. \A v : v \in AnswersOf(UpTo(p, n + 1), type) <=>
                  \E b \in Range(t) : b.type = type /\ v = b.data
    BY <1>6 DEF AnswersOf
  <2>2. \A v : v \in AnswersOf(UpTo(p, n), type) <=>
                  \E b \in Range(s) : b.type = type /\ v = b.data
    BY <1>6 DEF AnswersOf
  <2>3. \A v : v \in AnswersOf(UpTo(p, n + 1), type) <=>
                  v \in AnswersOf(UpTo(p, n), type) \/ (x.type = type /\ v = x.data)
    BY <2>1, <2>2, <1>7
  <2>4. CASE x.type = type
    BY <2>3, <2>4
  <2>5. CASE x.type # type
    BY <2>3, <2>5
  <2> QED
    BY <2>4, <2>5
<1> QED
  BY <1>6, <1>8 DEF x

-----------------------------------------------------------------------------
(* The types.                                                              *)

(* Nothing is read and no variable has a value at the start.               *)
LEMMA LogTypeInit == LogInit => LogType
<1> SUFFICES ASSUME LogInit PROVE LogType
  OBVIOUS
<1>1. lines \in Seq(Line) /\ log \in Seq(Packet)
  BY EmptySeq DEF LogInit
<1>2. dns_responses \in [DOMAIN dns_responses -> TableEntry]
  BY DEF LogInit
<1>3. Unset \in Host
  BY DEF Host
<1>4. counted \in [dns : Int, all : Int] /\ total_packets \in Int /\ total_dns_packets \in Int
  BY DEF LogInit
<1>5. /\ response \in {Unset, "True", "False"} /\ hostIP \in Host /\ domain \in Host
      /\ pc \in {"loop", "done", "NameError"}
  BY <1>3 DEF LogInit
<1> QED
  BY <1>1, <1>2, <1>4, <1>5 DEF LogType

(* The line that is read and those behind it.                              *)
LEMMA TailLines ==
    ASSUME LogType, lines # <<>>
    PROVE  Tail(lines) \in Seq(Line) /\ line \in Line /\ line = lines[1]
<1>1. lines \in Seq(Line)
  BY DEF LogType
<1>2. Tail(lines) \in Seq(Line) /\ Head(lines) \in Line
  BY <1>1, HeadTailProperties
<1>3. Head(lines) = lines[1]
  BY <1>1
<1> QED
  BY <1>2, <1>3 DEF line

(* An entry with a host more, and one with an answer more.                 *)
LEMMA QueriedType ==
    ASSUME LogType, NEW name
    PROVE  Queried(name) \in [DOMAIN Queried(name) -> TableEntry]
<1> DEFINE t == dns_responses
<1>1. t \in [DOMAIN t -> TableEntry] /\ hostIP \in Host
  BY DEF LogType
<1>2. CASE name \in DOMAIN t
  <2> DEFINE h == t[name].hosts
             e == [t[name] EXCEPT !.hosts = Append(@, hostIP)]
  <2>1. t[name] \in TableEntry
    BY <1>1, <1>2
  <2>2. Append(h, hostIP) \in Seq(Host)
    BY <1>1, <2>1, AppendProperties DEF TableEntry
  <2>3. e \in TableEntry
    BY <2>1, <2>2 DEF TableEntry
  <2>4. Queried(name) = [t EXCEPT ![name] = e]
    BY <1>2 DEF Queried
  <2> HIDE DEF e
  <2> QED
    BY <1>1, <1>2, <2>3, <2>4
<1>3. CASE name \notin DOMAIN t
  <2> DEFINE e == [hosts |-> <<hostIP>>, a |-> {}, aaaa |-> {}, cname |-> {}]
  <2>1. Queried(name) = [d \in DOMAIN t \cup {name} |-> IF d = name THEN e ELSE t[d]]
    BY <1>3 DEF Queried
  <2>2. e \in TableEntry
    BY <1>1 DEF TableEntry
  <2> HIDE DEF e
  <2> QED
    BY <1>1, <1>3, <2>1, <2>2
<1> QED
  BY <1>2, <1>3

(* An answer of any of the types goes into a set of the entry.             *)
LEMMA AnsweredType ==
    ASSUME NEW t, t \in [DOMAIN t -> TableEntry], NEW d, NEW v \in STRING, Goes # ""
    PROVE  LET u == [t EXCEPT ![d][Goes] = @ \cup {v}]
           IN  u \in [DOMAIN u -> TableEntry]
<1>1. CASE d \in DOMAIN t
  <2> DEFINE e == [t[d] EXCEPT ![Goes] = @ \cup {v}]
  <2>1. t[d] \in TableEntry
    BY <1>1
  <2>2. Goes \in {"cname", "aaaa", "a"}
    BY DEF Goes
  <2>3. e \in TableEntry
    <3>1. CASE Goes = "cname"
      BY <2>1, <3>1 DEF TableEntry
    <3>2. CASE Goes = "aaaa"
      BY <2>1, <3>2 DEF TableEntry
    <3>3. CASE Goes = "a"
      BY <2>1, <3>3 DEF TableEntry
    <3> QED
      BY <2>2, <3>1, <3>2, <3>3
  <2> HIDE DEF e
  <2>4. [t EXCEPT ![d] = e] \in [DOMAIN [t EXCEPT ![d] = e] -> TableEntry]
    BY <1>1, <2>3
  <2> QED
    BY <2>4 DEF e
<1>2. CASE d \notin DOMAIN t
  BY <1>2
<1> QED
  BY <1>1, <1>2

(* Every line leaves the variables of the script in their types.           *)
LEMMA LogTypeStep == ASSUME LogType, [LogNext]_logVars PROVE LogType'
<1>1. CASE NextPacket
  <2>1. PICK p \in Packets : lines' = Printed(p) /\ log' = Append(log, p)
    BY <1>1 DEF NextPacket
  <2>2. p \in Packet
    BY <2>1, LogAssumption
  <2>3. lines' \in Seq(Line) /\ log' \in Seq(Packet)
    BY <2>1, <2>2, PrintedLines, AppendProperties DEF LogType
  <2> QED
    BY <1>1, <2>3 DEF NextPacket, LogType, table, packet_totals
<1>2. CASE EndOfCapture
  <2> DEFINE dns == Len(log) - counted.dns
  <2>1. PICK others \in 0 .. MaxOthers :
           /\ lines' = <<[kind |-> "Total packet", count |-> dns + others],
                         [kind |-> "Total DNS Packets", count |-> dns]>>
           /\ counted' = [dns |-> Len(log), all |-> counted.all + dns + others]
    BY <1>2 DEF EndOfCapture
  <2>2. Len(log) \in Int /\ others \in Int /\ counted.dns \in Int /\ counted.all \in Int
    BY LogAssumption, LenProperties DEF LogType
  <2>3. dns \in Int /\ dns + others \in Int /\ counted.all + dns + others \in Int
    BY <2>2
  <2>4. counted' \in [dns : Int, all : Int]
    BY <2>1, <2>2, <2>3
  <2>5. /\ [kind |-> "Total packet", count |-> dns + others] \in Line
        /\ [kind |-> "Total DNS Packets", count |-> dns] \in Line
    BY <2>3 DEF Line
  <2> HIDE DEF dns
  <2>6. lines' \in Seq(Line)
    <3> DEFINE x == [kind |-> "Total packet", count |-> dns + others]
               y == [kind |-> "Total DNS Packets", count |-> dns]
    <3>1. x \in Line /\ y \in Line /\ lines' = <<x, y>>
      BY <2>1, <2>5
    <3> HIDE DEF x, y
    <3> QED
      BY <3>1
  <2> QED
    BY <1>2, <2>4, <2>6 DEF EndOfCapture, LogType, table, packet_totals
<1>3. CASE HeaderLine
  <2>1. lines # <<>> /\ lines' = Tail(lines) /\ line.kind = "header"
    BY <1>3 DEF HeaderLine, Read
  <2>2. lines' \in Seq(Line) /\ line \in Line
    BY <2>1, TailLines
  <2>3. line.host \in Host /\ line.qr \in {"q", "r"}
    BY <2>1, <2>2 DEF Line, Host
  <2>4. response' \in {Unset, "True", "False"} /\ hostIP' \in Host
    BY <1>3, <2>3 DEF HeaderLine, LogType
  <2> QED
    BY <1>3, <2>2, <2>4 DEF HeaderLine, Stays, LogType, packet_totals
<1>4. CASE QuestionLine
  <2>1. lines # <<>> /\ lines' = Tail(lines) /\ line.kind = "?"
    BY <1>4 DEF QuestionLine, Read
  <2>2. lines' \in Seq(Line) /\ line \in Line
    BY <2>1, TailLines
  <2>3. line.name \in Host
    BY <2>1, <2>2 DEF Line, Host
  <2>4. Queried(line.name) \in [DOMAIN Queried(line.name) -> TableEntry]
    BY QueriedType
  <2>5. /\ dns_responses' \in [DOMAIN dns_responses' -> TableEntry] /\ domain' \in Host
        /\ response' = response /\ hostIP' = hostIP /\ pc' \in {pc, "NameError"}
        /\ UNCHANGED <<log, counted, total_packets, total_dns_packets>>
    <3>1. CASE response = Unset /\ NameError
      BY <1>4, <3>1 DEF QuestionLine, Stays, NameError, LogType, table, packet_totals
    <3>2. CASE response = "False" /\ UNCHANGED <<table, packet_totals, pc>>
      BY <1>4, <3>2 DEF QuestionLine, Stays, LogType, table, packet_totals
    <3>3. CASE /\ response = "True"
               /\ domain' = line.name /\ dns_responses' = Queried(line.name)
               /\ UNCHANGED <<response, hostIP, packet_totals, pc>>
      BY <1>4, <2>3, <2>4, <3>3 DEF QuestionLine, Stays, packet_totals
    <3> QED
      BY <1>4, <3>1, <3>2, <3>3 DEF QuestionLine
  <2> QED
    BY <2>2, <2>5 DEF LogType
<1>5. CASE AnswerLine
  <2>1. lines # <<>> /\ lines' = Tail(lines) /\ line.kind = "!"
    BY <1>5 DEF AnswerLine, Read
  <2>2. lines' \in Seq(Line) /\ line \in Line
    BY <2>1, TailLines
  <2>3. line.data \in STRING
    BY <2>1, <2>2 DEF Line, Word
  <2> DEFINE u == [dns_responses EXCEPT ![domain][Goes] = @ \cup {line.data}]
  <2>4. ASSUME Goes # ""
        PROVE  u \in [DOMAIN u -> TableEntry]
    BY <2>3, <2>4, AnsweredType DEF LogType
  <2>5. /\ dns_responses' \in [DOMAIN dns_responses' -> TableEntry] /\ domain' = domain
        /\ response' = response /\ hostIP' = hostIP /\ pc' \in {pc, "NameError"}
        /\ UNCHANGED <<log, counted, total_packets, total_dns_packets>>
    <3>1. CASE Goes = "" /\ UNCHANGED <<table, packet_totals, pc>>
      BY <1>5, <3>1 DEF AnswerLine, Stays, LogType, table, packet_totals
    <3>2. CASE Goes # "" /\ domain = Unset /\ NameError
      BY <1>5, <3>2 DEF AnswerLine, Stays, NameError, LogType, table, packet_totals
    <3>3. CASE /\ Goes # "" /\ domain # Unset
               /\ dns_responses' = u
               /\ UNCHANGED <<response, hostIP, domain, packet_totals, pc>>
      BY <1>5, <2>4, <3>3 DEF AnswerLine, Stays, packet_totals
    <3> QED
      BY <1>5, <3>1, <3>2, <3>3 DEF AnswerLine
  <2> QED
    BY <2>2, <2>5 DEF LogType
<1>6. CASE TotalLine
  <2>1. /\ lines # <<>> /\ lines' = Tail(lines)
        /\ line.kind \in {"Total packet", "Total DNS Packets"}
    BY <1>6 DEF TotalLine, Read
  <2>2. lines' \in Seq(Line) /\ line \in Line
    BY <2>1, TailLines
  <2>3. line.count \in Int
    BY <2>1, <2>2 DEF Line
  <2>4. total_packets' \in Int /\ total_dns_packets' \in Int
    <3>1. total_packets \in Int /\ total_dns_packets \in Int
      BY DEF LogType
    <3>2. CASE line.kind = "Total packet"
      <4>1. /\ total_packets' = total_packets + line.count
            /\ total_dns_packets' = total_dns_packets
        BY <1>6, <3>2, Zenon DEF TotalLine
      <4> QED
        BY <2>3, <3>1, <4>1
    <3>3. CASE line.kind # "Total packet"
      <4>1. /\ total_dns_packets' = total_dns_packets + line.count
            /\ total_packets' = total_packets
        BY <1>6, <3>3, Zenon DEF TotalLine
      <4> QED
        BY <2>3, <3>1, <4>1
    <3> QED
      BY <3>2, <3>3
  <2> QED
    BY <1>6, <2>2, <2>4 DEF TotalLine, Stays, LogType, table
<1>7. CASE Report
  BY <1>7 DEF Report, LogType, table, packet_totals
<1>8. CASE UNCHANGED logVars
  BY <1>8 DEF logVars, LogType, table, packet_totals
<1> QED
  BY <1>1, <1>2, <1>3, <1>4, <1>5, <1>6, <1>7, <1>8 DEF LogNext

-----------------------------------------------------------------------------
(* The invariant.                                                          *)

(* An empty table sums up an empty log.                                    *)
LEMMA ScriptInit == LogInit => ScriptInv
<1> SUFFICES ASSUME LogInit PROVE Between /\ pc = "loop"
  BY DEF ScriptInv
<1>1. TotalsRead
  BY DEF LogInit, TotalsRead
<1>2. DOMAIN dns_responses = {} /\ NamesOf(log) = {}
  BY DEF LogInit, NamesOf
<1>3. SumsUp(dns_responses, log)
  BY <1>2 DEF SumsUp
<1> QED
  BY <1>1, <1>3 DEF LogInit, Between

(* Which of the three a state is in, by the kind of the next line.         *)
LEMMA WhatIsRead ==
    ASSUME LogType, ScriptInv, RegularLog, pc = "loop", lines # <<>>
    PROVE  \/ InTotals /\ line.kind \in {"Total packet", "Total DNS Packets"}
           \/ \E l \in Seq(Packet), p \in Packet, r \in Nat :
                 /\ InPacket(l, p, r) /\ Regular(p)
                 /\ line.kind \in {"header", "?", "!"}
<1>1. InTotals \/ \E l \in Seq(Packet), p \in Packet, r \in Nat : InPacket(l, p, r)
  BY DEF ScriptInv, Between
<1>2. CASE InTotals
  <2>1. line = lines[1]
    BY TailLines
  <2>2. lines[1].kind \in {"Total packet", "Total DNS Packets"}
    BY <1>2 DEF InTotals
  <2> QED
    BY <1>2, <2>1, <2>2
<1>3. ASSUME NEW l \in Seq(Packet), NEW p \in Packet, NEW r \in Nat, InPacket(l, p, r)
      PROVE  Regular(p) /\ line.kind \in {"header", "?", "!"}
  <2>1. log = Append(l, p)
    BY <1>3 DEF InPacket
  <2>2. Len(l) + 1 \in DOMAIN log /\ log[Len(l) + 1] = p
    <3>1. Len(l) \in Nat /\ DOMAIN log = 1 .. Len(l) + 1 /\ log[Len(l) + 1] = p
      BY <2>1, InAppend
    <3> QED
      BY <3>1
  <2>3. Regular(p)
    BY <2>2 DEF RegularLog
  <2>4. line.kind \in {"header", "?", "!"}
    BY <1>3, <2>3, NextLine
  <2> QED
    BY <2>3, <2>4
<1> QED
  BY <1>1, <1>2, <1>3

(* What is left to show of a step that does not print: the log it leaves   *)
(* regular was regular.                                                    *)
LEMMA SameLog == ASSUME log' = log PROVE RegularLog' => RegularLog
BY DEF RegularLog

(* A header tells of what packet the lines behind it are.                  *)
LEMMA HeaderStep == ASSUME LogType, ScriptInv, HeaderLine PROVE ScriptInv'
<1>1. /\ pc = "loop" /\ lines # <<>> /\ lines' = Tail(lines) /\ line.kind = "header"
      /\ UNCHANGED <<log, counted, domain, dns_responses, packet_totals, pc>>
  BY DEF HeaderLine, Read, Stays
<1> SUFFICES ASSUME RegularLog
             PROVE  Between' \/ \E l \in Seq(Packet), p \in Packet, r \in Nat :
                                   InPacket(l, p, r)'
  BY <1>1, SameLog DEF ScriptInv
<1>2. PICK l \in Seq(Packet), p \in Packet, r \in Nat : InPacket(l, p, r) /\ Regular(p)
  BY <1>1, WhatIsRead
<1>3. r = 0 /\ line = [kind |-> "header", dated |-> TRUE, qr |-> p.qr, host |-> p.host]
  BY <1>1, <1>2, NextLine
<1>4. /\ response' = IF p.qr = "r" THEN "True" ELSE "False"
      /\ p.qr = "r" => hostIP' = p.host
  <2>1. p.qr \in {"q", "r"} /\ line.dated = TRUE /\ line.qr = p.qr /\ line.host = p.host
    BY <1>3 DEF Packet
  <2> QED
    BY <2>1 DEF HeaderLine
<1>5. SumsUp(dns_responses', SoFar(l, p, r + 1))
  <2>1. SoFar(l, p, r) = l /\ SoFar(l, p, r + 1) = l
    BY <1>3 DEF SoFar
  <2>2. SumsUp(dns_responses, l)
    BY <1>2, <2>1 DEF InPacket
  <2> QED
    BY <1>1, <2>1, <2>2
<1>6. Between' \/ InPacket(l, p, r + 1)'
  <2>1. UNCHANGED <<log, counted, packet_totals>> /\ ~(r >= 1)
    BY <1>1, <1>3
  <2> QED
    BY <2>1, <1>1, <1>2, <1>4, <1>5, AfterLine
<1> QED
  BY <1>6

(* A question of a response counts it, one of a query does not.            *)
LEMMA QuestionStep == ASSUME LogType, ScriptInv, QuestionLine PROVE ScriptInv'
<1>1. /\ pc = "loop" /\ lines # <<>> /\ lines' = Tail(lines) /\ line.kind = "?"
      /\ UNCHANGED <<log, counted>>
  BY DEF QuestionLine, Read, Stays
<1> SUFFICES ASSUME RegularLog
             PROVE  /\ pc' = "loop"
                    /\ Between' \/ \E l \in Seq(Packet), p \in Packet, r \in Nat :
                                      InPacket(l, p, r)'
  BY <1>1, SameLog DEF ScriptInv
<1>2. PICK l \in Seq(Packet), p \in Packet, r \in Nat : InPacket(l, p, r) /\ Regular(p)
  BY <1>1, WhatIsRead
<1>3. /\ r \in 1 .. Len(p.questions) /\ line = [kind |-> "?", name |-> p.questions[r]]
      /\ p.qr = "r" => r = 1
  BY <1>1, <1>2, NextLine
<1>4. /\ response = IF p.qr = "r" THEN "True" ELSE "False"
      /\ p.qr = "r" => hostIP = p.host
      /\ SumsUp(dns_responses, SoFar(l, p, r))
      /\ r >= 1
  BY <1>2, <1>3 DEF InPacket
<1>5. CASE p.qr = "r"
  <2>1. response = "True" /\ r = 1 /\ line.name = p.questions[1]
    BY <1>3, <1>4, <1>5
  <2>2. /\ domain' = p.questions[1] /\ dns_responses' = Queried(p.questions[1])
        /\ UNCHANGED <<response, hostIP, packet_totals, pc>>
    BY <2>1 DEF QuestionLine, Unset
  <2>3. SoFar(l, p, r) = l /\ SoFar(l, p, r + 1) = Append(l, UpTo(p, 0))
    BY <2>1, <1>5 DEF SoFar
  <2>4. /\ UpTo(p, 0) \in Packet /\ UpTo(p, 0).qr = "r" /\ UpTo(p, 0).answers = <<>>
        /\ UpTo(p, 0).questions = p.questions /\ UpTo(p, 0).host = p.host
    <3>1. SubSeq(p.answers, 1, 0) = <<>>
      BY SubSeqEmpty
    <3>2. UpTo(p, 0) = [p EXCEPT !.answers = <<>>]
      BY <3>1 DEF UpTo
    <3> QED
      BY <3>2, <1>5, EmptySeq DEF Packet
  <2>5. SumsUp(Queried(p.questions[1]), Append(l, UpTo(p, 0)))
    <3>1. SumsUp(dns_responses, l) /\ hostIP = UpTo(p, 0).host
      BY <1>4, <1>5, <2>3, <2>4
    <3>2. SumsUp(Queried(UpTo(p, 0).questions[1]), Append(l, UpTo(p, 0)))
      BY <2>4, <3>1, QuestionSums
    <3> QED
      BY <2>4, <3>2
  <2>6. SumsUp(dns_responses', SoFar(l, p, r + 1))
    BY <2>2, <2>3, <2>5
  <2>7. /\ response' = IF p.qr = "r" THEN "True" ELSE "False"
        /\ p.qr = "r" => hostIP' = p.host
        /\ r >= 1 /\ p.qr = "r" => domain' = p.questions[1]
        /\ UNCHANGED <<log, counted, packet_totals>> /\ pc' = "loop"
    BY <2>2, <1>1, <1>4
  <2>8. Between' \/ InPacket(l, p, r + 1)'
    BY <2>6, <2>7, <1>1, <1>2, AfterLine
  <2> QED
    BY <2>7, <2>8
<1>6. CASE p.qr # "r"
  <2>1. response = "False"
    BY <1>4, <1>6
  <2>2. UNCHANGED <<response, hostIP, domain, dns_responses, packet_totals, pc>>
    BY <2>1 DEF QuestionLine, Unset, table
  <2>3. SoFar(l, p, r) = l /\ SoFar(l, p, r + 1) = l
    BY <1>6 DEF SoFar
  <2>4. SumsUp(dns_responses', SoFar(l, p, r + 1))
    BY <1>4, <2>2, <2>3
  <2>5. /\ response' = IF p.qr = "r" THEN "True" ELSE "False"
        /\ UNCHANGED <<log, counted, packet_totals>> /\ pc' = "loop"
    BY <2>2, <1>1, <1>4
  <2>6. Between' \/ InPacket(l, p, r + 1)'
    BY <2>4, <2>5, <1>1, <1>2, <1>6, AfterLine
  <2> QED
    BY <2>5, <2>6
<1> QED
  BY <1>5, <1>6

(* An answer goes to the name that its own response is about.              *)
LEMMA AnswerStep == ASSUME LogType, ScriptInv, AnswerLine PROVE ScriptInv'
<1>1. /\ pc = "loop" /\ lines # <<>> /\ lines' = Tail(lines) /\ line.kind = "!"
      /\ UNCHANGED <<log, counted>>
  BY DEF AnswerLine, Read, Stays
<1> SUFFICES ASSUME RegularLog
             PROVE  /\ pc' = "loop"
                    /\ Between' \/ \E l \in Seq(Packet), p \in Packet, r \in Nat :
                                      InPacket(l, p, r)'
  BY <1>1, SameLog DEF ScriptInv
<1>2. PICK l \in Seq(Packet), p \in Packet, r \in Nat : InPacket(l, p, r) /\ Regular(p)
  BY <1>1, WhatIsRead
<1>3. /\ p.qr = "r" /\ r >= 2 /\ r - 1 \in 1 .. Len(p.answers)
      /\ line = [kind |-> "!", contains |-> Strings(p.answers[r - 1].type),
                 data |-> p.answers[r - 1].data]
  BY <1>1, <1>2, NextLine
<1>4. /\ response = "True" /\ hostIP = p.host /\ domain = p.questions[1]
      /\ SumsUp(dns_responses, SoFar(l, p, r))
  BY <1>2, <1>3 DEF InPacket
<1> DEFINE n == r - 2
           q == p.questions[1]
           x == p.answers[r - 1]
           t == dns_responses
<1>5. n \in Nat /\ n + 1 = r - 1 /\ n < Len(p.answers) /\ (r + 1) - 2 = n + 1 /\ r + 1 >= 2
  <2>1. Len(p.answers) \in Nat
    BY PrintedLines
  <2> QED
    BY <2>1, <1>3
<1>6. SoFar(l, p, r) = Append(l, UpTo(p, n)) /\ SoFar(l, p, r + 1) = Append(l, UpTo(p, n + 1))
  BY <1>3, <1>5 DEF SoFar
<1>7. /\ UpTo(p, n) \in Packet /\ UpTo(p, n + 1) \in Packet
      /\ UpTo(p, n).qr = "r" /\ UpTo(p, n + 1).qr = "r"
      /\ UpTo(p, n).questions = p.questions /\ UpTo(p, n + 1).questions = p.questions
      /\ UpTo(p, n + 1).host = UpTo(p, n).host
      /\ \A type : AnswersOf(UpTo(p, n + 1), type) =
                      AnswersOf(UpTo(p, n), type) \cup (IF x.type = type THEN {x.data} ELSE {})
  BY <1>3, <1>5, CutPacket
<1>8. /\ x.type \in STRING /\ x.data \in STRING /\ x.type # "SOA"
      /\ line.contains = Strings(x.type) /\ line.data = x.data
  <2>1. p.answers \in Seq([type : STRING, data : STRING])
    BY DEF Packet
  <2>2. x \in [type : STRING, data : STRING] /\ r - 1 \in DOMAIN p.answers
    BY <2>1, <1>3, ElementOfSeq, LenProperties
  <2>3. x.type # "SOA"
    BY <2>2, <1>2 DEF Regular
  <2> QED
    BY <2>2, <2>3, <1>3
<1>9. domain = q /\ q # Unset
  <2>1. Len(p.questions) = 1 /\ p.questions \in Seq(Word)
    BY <1>2, <1>3 DEF Regular, Packet
  <2>2. q \in Word
    BY <2>1, ElementOfSeq
  <2> QED
    BY <2>2, <1>4 DEF Word
<1>10. /\ q \in DOMAIN t /\ t \in [DOMAIN t -> TableEntry]
       /\ SumsUp(t, Append(l, UpTo(p, n)))
  <2>1. SumsUp(t, Append(l, UpTo(p, n)))
    BY <1>4, <1>6
  <2>2. q \in NamesOf(Append(l, UpTo(p, n)))
    BY <1>7, NamesAppend
  <2> QED
    BY <2>1, <2>2 DEF SumsUp, LogType
<1> HIDE DEF x, q, n, t
<1>11. Goes = CASE x.type = "CNAME" -> "cname" [] x.type = "AAAA" -> "aaaa"
                [] x.type = "A" -> "a" [] OTHER -> ""
  <2>1. CASE x.type = "CNAME"
    BY <2>1, <1>8 DEF Goes, Strings
  <2>2. CASE x.type = "PTR"
    BY <2>2, <1>8 DEF Goes, Strings
  <2>3. CASE x.type = "AAAA"
    <3>1. line.contains = {"AAAA", "A "}
      BY <2>3, <1>8 DEF Strings
    <3>2. Goes = "aaaa"
      BY <3>1 DEF Goes
    <3> QED
      BY <2>3, <3>2
  <2>4. CASE x.type = "A"
    <3>1. line.contains = {"A "}
      BY <2>4, <1>8 DEF Strings
    <3>2. Goes = "a"
      BY <3>1 DEF Goes
    <3> QED
      BY <2>4, <3>2
  <2>5. CASE x.type \notin {"CNAME", "PTR", "AAAA", "A"}
    BY <2>5, <1>8 DEF Goes, Strings
  <2> QED
    BY <2>1, <2>2, <2>3, <2>4, <2>5
<1>12. /\ UNCHANGED <<response, hostIP, domain, packet_totals, pc>>
       /\ Goes = "" => t' = t
       /\ Goes # "" => t' = [t EXCEPT ![q][Goes] = @ \cup {x.data}]
  BY <1>8, <1>9 DEF AnswerLine, table, t
<1> DEFINE Fits(u) ==
              /\ DOMAIN u = DOMAIN t
              /\ \A d \in DOMAIN t : d # q => u[d] = t[d]
              /\ u[q].hosts = t[q].hosts
              /\ u[q].a = t[q].a \cup (IF x.type = "A" THEN {x.data} ELSE {})
              /\ u[q].aaaa = t[q].aaaa \cup (IF x.type = "AAAA" THEN {x.data} ELSE {})
              /\ u[q].cname = t[q].cname \cup (IF x.type = "CNAME" THEN {x.data} ELSE {})
<1>13. Fits(t')
  <2> DEFINE e == t[q]
  <2>1. e \in TableEntry
    BY <1>10
  <2>2. ASSUME Goes # ""
        PROVE  t' = [t EXCEPT ![q] = [e EXCEPT ![Goes] = @ \cup {x.data}]]
    BY <2>2, <1>12
  <2>3. CASE x.type = "CNAME"
    <3>1. t' = [t EXCEPT ![q] = [e EXCEPT !.cname = @ \cup {x.data}]]
      BY <2>2, <2>3, <1>11
    <3> DEFINE f == [e EXCEPT !.cname = @ \cup {x.data}]
    <3>2. f.hosts = e.hosts /\ f.a = e.a /\ f.aaaa = e.aaaa /\ f.cname = e.cname \cup {x.data}
      BY <2>1 DEF TableEntry
    <3> HIDE DEF f, e
    <3>3. DOMAIN t' = DOMAIN t /\ t'[q] = f /\ \A d \in DOMAIN t : d # q => t'[d] = t[d]
      BY <3>1, <1>10 DEF f
    <3> QED
      BY <3>2, <3>3, <2>3 DEF e
  <2>4. CASE x.type = "AAAA"
    <3>1. t' = [t EXCEPT ![q] = [e EXCEPT !.aaaa = @ \cup {x.data}]]
      BY <2>2, <2>4, <1>11
    <3> DEFINE f == [e EXCEPT !.aaaa = @ \cup {x.data}]
    <3>2. f.hosts = e.hosts /\ f.a = e.a /\ f.cname = e.cname /\ f.aaaa = e.aaaa \cup {x.data}
      BY <2>1 DEF TableEntry
    <3> HIDE DEF f, e
    <3>3. DOMAIN t' = DOMAIN t /\ t'[q] = f /\ \A d \in DOMAIN t : d # q => t'[d] = t[d]
      BY <3>1, <1>10 DEF f
    <3> QED
      BY <3>2, <3>3, <2>4 DEF e
  <2>5. CASE x.type = "A"
    <3>1. t' = [t EXCEPT ![q] = [e EXCEPT !.a = @ \cup {x.data}]]
      BY <2>2, <2>5, <1>11
    <3> DEFINE f == [e EXCEPT !.a = @ \cup {x.data}]
    <3>2. f.hosts = e.hosts /\ f.aaaa = e.aaaa /\ f.cname = e.cname /\ f.a = e.a \cup {x.data}
      BY <2>1 DEF TableEntry
    <3> HIDE DEF f, e
    <3>3. DOMAIN t' = DOMAIN t /\ t'[q] = f /\ \A d \in DOMAIN t : d # q => t'[d] = t[d]
      BY <3>1, <1>10 DEF f
    <3> QED
      BY <3>2, <3>3, <2>5 DEF e
  <2>6. CASE x.type \notin {"CNAME", "AAAA", "A"}
    <3>1. t' = t
      BY <2>6, <1>11, <1>12
    <3> QED
      BY <3>1, <2>6
  <2> QED
    BY <2>3, <2>4, <2>5, <2>6
<1>14. SumsUp(t', Append(l, UpTo(p, n + 1)))
  <2> DEFINE p0 == UpTo(p, n)
             p1 == UpTo(p, n + 1)
  <2>1. /\ p0 \in Packet /\ p1 \in Packet /\ p0.qr = "r" /\ p1.qr = "r"
        /\ p1.questions = p0.questions /\ p1.host = p0.host /\ p0.questions[1] = q
        /\ \A type : AnswersOf(p1, type) =
                        AnswersOf(p0, type) \cup (IF x.type = type THEN {x.data} ELSE {})
    BY <1>7 DEF q
  <2>2. SumsUp(t, Append(l, p0))
    BY <1>10
  <2> HIDE DEF p0, p1
  <2>3. SumsUp(t', Append(l, p1))
    BY <2>1, <2>2, <1>13, AnswerSums
  <2> QED
    BY <2>3 DEF p1
<1>15. Between' \/ InPacket(l, p, r + 1)'
  <2>1. /\ response' = IF p.qr = "r" THEN "True" ELSE "False"
        /\ p.qr = "r" => hostIP' = p.host
        /\ r >= 1 /\ p.qr = "r" => domain' = p.questions[1]
        /\ UNCHANGED <<log, counted, packet_totals>>
    BY <1>1, <1>3, <1>4, <1>12
  <2>2. SumsUp(dns_responses', SoFar(l, p, r + 1))
    BY <1>6, <1>14 DEF t
  <2> QED
    BY <2>1, <2>2, <1>1, <1>2, AfterLine
<1>16. r + 1 \in Nat /\ pc' = "loop"
  <2>1. UNCHANGED pc
    BY <1>12
  <2> QED
    BY <2>1, <1>1
<1> QED
  BY <1>15, <1>16

(* The two totals of a capture file are added up.                          *)
LEMMA TotalStep == ASSUME LogType, ScriptInv, TotalLine PROVE ScriptInv'
<1>1. /\ pc = "loop" /\ lines # <<>> /\ lines' = Tail(lines)
      /\ line.kind \in {"Total packet", "Total DNS Packets"}
      /\ UNCHANGED <<log, counted, dns_responses, pc>>
  BY DEF TotalLine, Read, Stays, table
<1> SUFFICES ASSUME RegularLog
             PROVE  Between' \/ InTotals'
  BY <1>1, SameLog DEF ScriptInv
<1>2. InTotals
  BY <1>1, WhatIsRead
<1>3. /\ lines \in Seq(Line) /\ line = lines[1]
      /\ Len(lines') = Len(lines) - 1
      /\ \A i \in 1 .. Len(lines') : lines'[i] = lines[i + 1]
      /\ lines' \in Seq(Line)
  BY <1>1, TailLines, HeadTailProperties DEF LogType
<1>4. SumsUp(dns_responses', log')
  BY <1>1, <1>2 DEF InTotals
<1>5. CASE Len(lines) = 2
  <2>1. /\ line.kind = "Total packet" /\ total_packets + line.count = counted.all
        /\ lines[2].kind = "Total DNS Packets"
        /\ total_dns_packets + lines[2].count = counted.dns
    <3>1. /\ lines[1].kind = "Total packet" /\ total_packets + lines[1].count = counted.all
          /\ lines[Len(lines)].kind = "Total DNS Packets"
          /\ total_dns_packets + lines[Len(lines)].count = counted.dns
      <4>1. Len(lines) # 1
        BY <1>5
      <4> QED
        BY <4>1, <1>2, Zenon DEF InTotals
    <3> QED
      BY <3>1, <1>3, <1>5
  <2>2. total_packets' = counted.all /\ total_dns_packets' = total_dns_packets
    BY <2>1, Zenon DEF TotalLine
  <2>3. Len(lines') = 1 /\ lines'[1] = lines[2]
    BY <1>3, <1>5
  <2>4. InTotals'
    BY <2>1, <2>2, <2>3, <1>1, <1>4 DEF InTotals
  <2> QED
    BY <2>4
<1>6. CASE Len(lines) = 1
  <2>1. /\ line.kind = "Total DNS Packets" /\ total_packets = counted.all
        /\ total_dns_packets + line.count = counted.dns
    BY <1>2, <1>3, <1>6 DEF InTotals
  <2>2. line.kind # "Total packet"
    BY <2>1
  <2>3. total_dns_packets' = counted.dns /\ total_packets' = total_packets
    BY <2>1, <2>2, Zenon DEF TotalLine
  <2>4. lines' = <<>>
    BY <1>3, <1>6, EmptySeq
  <2> QED
    BY <2>1, <2>3, <2>4, <1>1, <1>4 DEF Between, TotalsRead
<1> QED
  BY <1>2, <1>5, <1>6 DEF InTotals

(* Nothing left to read means that no packet and no totals are.            *)
LEMMA NotInside ==
    ASSUME LogType, lines = <<>>
    PROVE  ~InTotals /\ \A l \in Seq(Packet), p \in Packet, r \in Nat : ~InPacket(l, p, r)
<1>1. Len(lines) = 0
  OBVIOUS
<1>2. ~InTotals
  BY <1>1 DEF InTotals
<1>3. ASSUME NEW l \in Seq(Packet), NEW p \in Packet, NEW r \in Nat, InPacket(l, p, r)
      PROVE  FALSE
  <2> DEFINE s == Printed(p)
             n == Len(s)
  <2>1. s \in Seq(Line) /\ n \in Nat /\ r < n /\ lines = SubSeq(s, r + 1, n)
    BY <1>3, PrintedLines, LenProperties DEF InPacket
  <2>2. \A i \in r + 1 .. n : s[i] \in Line
    BY <2>1, ElementOfSeq
  <2> HIDE DEF s, n
  <2>3. Len(SubSeq(s, r + 1, n)) = IF r + 1 <= n THEN n - (r + 1) + 1 ELSE 0
    BY <2>1, <2>2, SubSeqProperties
  <2> QED
    BY <2>1, <2>3, <1>1
<1> QED
  BY <1>2, <1>3

(* A new packet begins when nothing is left of the one before.             *)
LEMMA PacketStep == ASSUME LogType, ScriptInv, NextPacket PROVE ScriptInv'
<1>1. /\ pc = "loop" /\ lines = <<>>
      /\ UNCHANGED <<counted, dns_responses, packet_totals, pc>>
  BY DEF NextPacket, table
<1>2. PICK p \in Packets : lines' = Printed(p) /\ log' = Append(log, p)
  BY DEF NextPacket
<1>3. p \in Packet /\ log \in Seq(Packet)
  BY LogAssumption DEF LogType
<1>4. /\ log' \in Seq(Packet) /\ \A i \in DOMAIN log : i \in DOMAIN log' /\ log'[i] = log[i]
  BY <1>2, <1>3, InAppend
<1>5. RegularLog' => RegularLog
  BY <1>4 DEF RegularLog
<1>6. ASSUME RegularLog
      PROVE  \E l \in Seq(Packet), q \in Packet, r \in Nat : InPacket(l, q, r)'
  <2>1. Between
    BY <1>1, <1>6, NotInside DEF ScriptInv
  <2>2. /\ Printed(p) \in Seq(Line) /\ Len(Printed(p)) \in Nat /\ 0 < Len(Printed(p))
        /\ Printed(p) = SubSeq(Printed(p), 0 + 1, Len(Printed(p)))
    <3>1. /\ Printed(p) \in Seq(Line) /\ Len(p.questions) \in Nat /\ Len(p.answers) \in Nat
          /\ Len(Printed(p)) = 1 + Len(p.questions) + Len(p.answers)
      BY <1>3, PrintedLines
    <3>2. SubSeq(Printed(p), 1, Len(Printed(p))) = Printed(p)
      BY <3>1, SubSeqFull
    <3> QED
      <4> DEFINE n == Len(Printed(p))
                 a == Len(p.questions)
                 b == Len(p.answers)
      <4>1. a \in Nat /\ b \in Nat /\ n = 1 + a + b
        BY <3>1
      <4> HIDE DEF n, a, b
      <4>2. n \in Nat /\ 0 < n /\ 0 + 1 = 1
        BY <4>1
      <4> QED
        BY <3>1, <3>2, <4>2 DEF n
  <2> DEFINE l == log
  <2>3. SumsUp(dns_responses', SoFar(l, p, 0)) /\ TotalsRead'
    BY <2>1, <1>1 DEF Between, SoFar, TotalsRead, packet_totals
  <2>4. log' = Append(l, p) /\ lines' = SubSeq(Printed(p), 0 + 1, Len(Printed(p)))
    BY <1>2, <2>2
  <2>5. l \in Seq(Packet)
    BY <1>3
  <2> HIDE DEF l
  <2> QED
    BY <2>2, <2>3, <2>4, <2>5, <1>3 DEF InPacket
<1> QED
  BY <1>1, <1>5, <1>6 DEF ScriptInv

(* The totals of a file are those of the packets since the file before.    *)
LEMMA CaptureStep == ASSUME LogType, ScriptInv, EndOfCapture PROVE ScriptInv'
<1> DEFINE dns == Len(log) - counted.dns
<1>1. PICK others \in 0 .. MaxOthers :
         /\ lines' = <<[kind |-> "Total packet", count |-> dns + others],
                       [kind |-> "Total DNS Packets", count |-> dns]>>
         /\ counted' = [dns |-> Len(log), all |-> counted.all + dns + others]
  BY DEF EndOfCapture
<1>2. /\ pc = "loop" /\ lines = <<>>
      /\ UNCHANGED <<log, dns_responses, total_packets, total_dns_packets, pc>>
  BY DEF EndOfCapture, table, packet_totals
<1> SUFFICES ASSUME RegularLog PROVE InTotals'
  BY <1>2, SameLog DEF ScriptInv
<1>3. total_packets = counted.all /\ total_dns_packets = counted.dns /\ SumsUp(dns_responses, log)
  BY <1>2, NotInside DEF ScriptInv, Between, TotalsRead
<1>4. /\ Len(log) \in Int /\ others \in Int /\ counted.dns \in Int /\ counted.all \in Int
      /\ dns \in Int
  BY LogAssumption, LenProperties DEF LogType
<1>5. total_packets + (dns + others) = counted.all + dns + others
  BY <1>3, <1>4
<1>6. total_dns_packets + dns = Len(log)
  BY <1>3, <1>4
<1>7. /\ Len(lines') = 2 /\ lines'[1].kind = "Total packet" /\ lines'[1].count = dns + others
      /\ lines'[2].kind = "Total DNS Packets" /\ lines'[2].count = dns
      /\ counted'.dns = Len(log) /\ counted'.all = counted.all + dns + others
  BY <1>1
<1> HIDE DEF dns
<1> QED
  BY <1>2, <1>3, <1>5, <1>6, <1>7 DEF InTotals

(* The figures are those of the log, because the table is.                 *)
LEMMA ReportStep == ASSUME LogType, ScriptInv, Report PROVE ScriptInv'
<1>1. /\ pc = "loop" /\ lines = <<>> /\ pc' = "done"
      /\ UNCHANGED <<lines, log, counted, dns_responses, total_packets, total_dns_packets>>
  BY DEF Report, table, packet_totals
<1> SUFFICES ASSUME RegularLog PROVE Between' /\ highest' = Figures(log)'
  BY <1>1, SameLog DEF ScriptInv
<1>2. TotalsRead /\ SumsUp(dns_responses, log)
  BY <1>1, NotInside DEF ScriptInv, Between
<1>3. highest' = Figures(log)
  BY <1>2, TableFigures
<1>4. Between'
  BY <1>1, <1>2 DEF Between, TotalsRead
<1> QED
  BY <1>1, <1>3, <1>4

(* Every step of the script and of the log keeps the invariant.            *)
LEMMA ScriptStep == ASSUME LogType, ScriptInv, [LogNext]_logVars PROVE ScriptInv'
<1>1. CASE UNCHANGED logVars
  <2>1. /\ UNCHANGED <<lines, log, counted, response, hostIP, domain, dns_responses>>
        /\ UNCHANGED <<total_packets, total_dns_packets, highest, pc>>
    BY <1>1 DEF logVars, table, packet_totals
  <2>2. (RegularLog' <=> RegularLog) /\ (Between' <=> Between) /\ (InTotals' <=> InTotals)
    BY <2>1 DEF RegularLog, Between, InTotals, TotalsRead
  <2>3. \A l, p, r : InPacket(l, p, r)' <=> InPacket(l, p, r)
    BY <2>1 DEF InPacket, TotalsRead
  <2>4. Figures(log)' = Figures(log)
    BY <2>1
  <2> QED
    BY <2>1, <2>2, <2>3, <2>4 DEF ScriptInv
<1> QED
  BY <1>1, HeaderStep, QuestionStep, AnswerStep, TotalStep, PacketStep, CaptureStep, ReportStep
     DEF LogNext

(* After any number of lines of a regular log the table, the totals and    *)
(* the variables that one line leaves for the next (response, hostIP and   *)
(* domain) are those of the packet that the lines are of                   *)
(* (log_file_parse.py:33-91).                                              *)
THEOREM LogInvariant == LogSpec => []LogInv
<1>1. LogInit => LogInv
  BY LogTypeInit, ScriptInit DEF LogInv
<1>2. LogInv /\ [LogNext]_logVars => LogInv'
  BY LogTypeStep, ScriptStep DEF LogInv
<1> QED
  BY <1>1, <1>2, PTL DEF LogSpec

(* Whatever capture files of however many packets are given to it: between *)
(* two packets of a regular log the script has not stopped, its table and  *)
(* totals are those of the log, and the figures at the end are the largest *)
(* of any name (log_file_parse.py:33-123).                                 *)
THEOREM LogSummed == LogSpec => []SumsTheLog
<1>1. LogInv => SumsTheLog
  BY NotInside DEF LogInv, ScriptInv, RegularLog, Between, TotalsRead, SumsTheLog
<1> QED
  BY <1>1, LogInvariant, PTL
=============================================================================

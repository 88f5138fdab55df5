------------------------- MODULE XraySectionsProofs -------------------------
(***************************************************************************)
(* Proofs about the list sections of the Xray editor, for any sections,    *)
(* tags, bounds on the lists and profiles of the server.                   *)
(***************************************************************************)
EXTENDS XraySections, FiniteSetTheorems, SequenceTheorems, TLAPS

-----------------------------------------------------------------------------
(* Lists *)

\* A list is a function on the numbers of its rows.
LEMMA ListFacts ==
    ASSUME NEW list \in Seq(Row)
    PROVE  /\ Len(list) \in Nat /\ DOMAIN list = 1..Len(list)
           /\ \A i \in 1..Len(list) : list[i] \in Row
           /\ list = << >> <=> Len(list) = 0
<1>1. Len(list) \in Nat /\ DOMAIN list = 1..Len(list) /\ \A i \in 1..Len(list) : list[i] \in Row
  BY LenProperties, ElementOfSeq
<1>2. list # << >> => Len(list) # 0
  BY EmptySeq
<1>3. Len(<< >>) = 0
  BY EmptySeq
<1> QED BY <1>1, <1>2, <1>3

\* A function on the numbers up to n is a list of n rows.
LEMMA FunctionIsList ==
    ASSUME NEW n \in Nat, NEW f \in [1..n -> Row]
    PROVE  f \in Seq(Row) /\ Len(f) = n
OBVIOUS

\* Overwriting a row keeps the others.
LEMMA SetRowFacts ==
    ASSUME NEW list \in Seq(Row), NEW i \in 1..Len(list), NEW row \in Row
    PROVE  /\ SetRow(list, i, row) \in Seq(Row)
           /\ Len(SetRow(list, i, row)) = Len(list)
           /\ \A j \in 1..Len(list) : SetRow(list, i, row)[j] = IF j = i THEN row ELSE list[j]
<1> DEFINE n == Len(list)
           f == [j \in 1..n |-> IF j = i THEN row ELSE list[j]]
<1>1. n \in Nat /\ \A j \in 1..n : list[j] \in Row
  BY ListFacts
<1>2. SetRow(list, i, row) = f
  BY <1>1 DEF SetRow
<1>3. f \in [1..n -> Row]
  BY <1>1
<1>4. f \in Seq(Row) /\ Len(f) = n
  BY <1>1, <1>3, FunctionIsList
<1> QED BY <1>2, <1>4

\* The same in one word.
Overwritten(list, old, i, row) ==
    /\ list \in Seq(Row) /\ Len(list) = Len(old)
    /\ \A j \in 1..Len(old) : list[j] = IF j = i THEN row ELSE old[j]

LEMMA SetRowOverwrites ==
    ASSUME NEW list \in Seq(Row), NEW i \in 1..Len(list), NEW row \in Row
    PROVE  Overwritten(SetRow(list, i, row), list, i, row)
<1> DEFINE new == SetRow(list, i, row)
<1>1. /\ new \in Seq(Row) /\ Len(new) = Len(list)
      /\ \A j \in 1..Len(list) : new[j] = IF j = i THEN row ELSE list[j]
  BY SetRowFacts
<1> HIDE DEF new
<1>2. Overwritten(new, list, i, row)
  BY <1>1 DEF Overwritten
<1> QED BY <1>2 DEF new

\* Each row of list is a row of old, and no two are the same one.
Drawn(list, old) ==
    \E f \in [1..Len(list) -> 1..Len(old)] :
        /\ \A k \in 1..Len(list) : list[k] = old[f[k]]
        /\ \A k, m \in 1..Len(list) : f[k] = f[m] => k = m

\* Dropping rows leaves each of the others once.
LEMMA DropRowsFacts ==
    ASSUME NEW list \in Seq(Row), NEW gone
    PROVE  /\ DropRows(list, gone) \in Seq(Row)
           /\ Len(DropRows(list, gone)) = Cardinality(DOMAIN list \ gone)
           /\ Drawn(DropRows(list, gone), list)
<1> DEFINE left == DOMAIN list \ gone
           n == Cardinality(left)
           Upto(i) == {j \in left : j <= i}
           Kept(k) == CHOOSE i \in left : Cardinality(Upto(i)) = k
           c == [i \in left |-> Cardinality(Upto(i))]
           f == [k \in 1..n |-> Kept(k)]
           new == [k \in 1..n |-> list[Kept(k)]]
<1>1. DropRows(list, gone) = new
  BY DEF DropRows
<1>2. /\ Len(list) \in Nat /\ DOMAIN list = 1..Len(list)
      /\ \A i \in 1..Len(list) : list[i] \in Row
  BY ListFacts
<1>3. IsFiniteSet(left) /\ n \in Nat /\ left \subseteq 1..Len(list)
  <2>1. IsFiniteSet(1..Len(list))
    BY <1>2, FS_Interval
  <2>2. IsFiniteSet(left)
    BY <1>2, <2>1, FS_Difference
  <2> QED BY <1>2, <2>2, FS_CardinalityType
<1> HIDE DEF left
<1>4. \A i \in left : IsFiniteSet(Upto(i)) /\ Cardinality(Upto(i)) \in 1..n
  <2> TAKE i \in left
  <2>1. IsFiniteSet(Upto(i)) /\ Cardinality(Upto(i)) <= n
    BY <1>3, FS_Subset
  <2>2. Cardinality(Upto(i)) \in Nat
    BY <2>1, FS_CardinalityType
  <2>3. i \in Upto(i)
    BY <1>3
  <2>4. Cardinality(Upto(i)) # 0
    BY <2>1, <2>3, FS_EmptySet
  <2> QED BY <1>3, <2>1, <2>2, <2>4
<1>5. ASSUME NEW i \in left, NEW j \in left, i < j
      PROVE  Cardinality(Upto(i)) # Cardinality(Upto(j))
  <2>1. Upto(i) \in SUBSET Upto(j) /\ Upto(i) # Upto(j)
    <3>1. i \in Nat /\ j \in Nat /\ \A x \in left : x \in Nat
      BY <1>2, <1>3
    <3>2. j \in Upto(j) /\ j \notin Upto(i)
      BY <1>5, <3>1
    <3>3. \A x \in Upto(i) : x \in Upto(j)
      BY <1>5, <3>1
    <3> QED BY <3>2, <3>3
  <2> QED BY <1>4, <2>1, FS_Subset
<1>6. c \in [left -> 1..n] /\ \A i, j \in left : c[i] = c[j] => i = j
  BY <1>3, <1>4, <1>5
<1>7. c \in Injection(left, 1..n)
  BY <1>6 DEF Injection, IsInjective
<1>8. IsFiniteSet(1..n) /\ Cardinality(1..n) = n
  BY <1>3, FS_Interval
<1>9. c \in Surjection(left, 1..n)
  BY <1>7, <1>8, FS_Injection
<1>10. \A k \in 1..n : \E i \in left : Cardinality(Upto(i)) = k
  BY <1>9 DEF Surjection
<1>11. \A k \in 1..n : Kept(k) \in left /\ Cardinality(Upto(Kept(k))) = k
  BY <1>10
<1> HIDE DEF Kept, Upto
<1>12. f \in [1..n -> 1..Len(list)] /\ \A k, m \in 1..n : f[k] = f[m] => k = m
  BY <1>3, <1>11
<1>13. new \in [1..n -> Row] /\ \A k \in 1..n : new[k] = list[f[k]]
  BY <1>2, <1>3, <1>11
<1> HIDE DEF new, f, n
<1>14. new \in Seq(Row) /\ Len(new) = n
  BY <1>3, <1>13, FunctionIsList
<1>15. Drawn(new, list)
  BY <1>12, <1>13, <1>14 DEF Drawn
<1>16. Len(new) = Cardinality(DOMAIN list \ gone)
  BY <1>14 DEF left, n
<1> QED BY <1>1, <1>14, <1>15, <1>16

\* Where the row that moves to place k comes from.
Source(from, to, k) ==
    IF k = to THEN from
    ELSE IF from <= k /\ k < to THEN k + 1
    ELSE IF to < k /\ k <= from THEN k - 1 ELSE k

\* Moving a row permutes the list.
LEMMA arrayMoveFacts ==
    ASSUME NEW list \in Seq(Row), NEW from \in 1..Len(list), NEW to \in 1..Len(list)
    PROVE  /\ arrayMove(list, from, to) \in Seq(Row)
           /\ Len(arrayMove(list, from, to)) = Len(list)
           /\ \A k \in 1..Len(list) :
                 arrayMove(list, from, to)[k] = list[Source(from, to, k)]
           /\ Drawn(arrayMove(list, from, to), list)
<1> DEFINE n == Len(list)
           a == SubSeq(list, 1, from - 1)
           b == SubSeq(list, from + 1, n)
           s == a \o b
           d == SubSeq(s, 1, to - 1)
           e == SubSeq(s, to, Len(s))
           new == (d \o <<list[from]>>) \o e
<1>1. n \in Nat /\ \A i \in 1..n : list[i] \in Row
  BY ListFacts
<1>2. /\ a \in Seq(Row) /\ Len(a) = from - 1
      /\ \A i \in 1..(from - 1) : a[i] = list[i]
  <2>1. \A i \in 1..(from - 1) : list[i] \in Row
    BY <1>1
  <2> QED BY <1>1, <2>1, SubSeqProperties
<1>3. /\ b \in Seq(Row) /\ Len(b) = n - from
      /\ \A i \in 1..(n - from) : b[i] = list[from + i]
  <2>1. \A i \in (from + 1)..n : list[i] \in Row
    BY <1>1
  <2>2. /\ b \in Seq(Row) /\ Len(b) = IF from + 1 <= n THEN n - (from + 1) + 1 ELSE 0
        /\ \A i \in 1..(n - (from + 1) + 1) : b[i] = list[from + 1 + i - 1]
    BY <1>1, <2>1, SubSeqProperties
  <2> QED BY <1>1, <2>2
<1> HIDE DEF a, b
<1>4. /\ s \in Seq(Row) /\ Len(s) = n - 1
      /\ \A i \in 1..(n - 1) : s[i] = IF i < from THEN list[i] ELSE list[i + 1]
  <2>1. /\ s \in Seq(Row) /\ Len(s) = Len(a) + Len(b)
        /\ \A i \in 1..(Len(a) + Len(b)) : s[i] = IF i <= Len(a) THEN a[i] ELSE b[i - Len(a)]
    BY <1>2, <1>3, ConcatProperties
  <2>2. Len(a) + Len(b) = n - 1
    BY <1>1, <1>2, <1>3
  <2>3. ASSUME NEW i \in 1..(n - 1), i < from PROVE s[i] = list[i]
    BY <1>1, <1>2, <2>1, <2>2, <2>3
  <2>4. ASSUME NEW i \in 1..(n - 1), ~(i < from) PROVE s[i] = list[i + 1]
    <3>1. s[i] = b[i - (from - 1)]
      BY <1>1, <1>2, <2>1, <2>2, <2>4
    <3>2. i - (from - 1) \in 1..(n - from) /\ from + (i - (from - 1)) = i + 1
      BY <1>1, <2>4
    <3> QED BY <1>3, <3>1, <3>2
  <2> QED BY <2>1, <2>2, <2>3, <2>4
<1> HIDE DEF s
<1>5. \A i \in 1..(n - 1) : s[i] \in Row
  BY <1>4, ListFacts
<1>6. /\ d \in Seq(Row) /\ Len(d) = to - 1
      /\ \A i \in 1..(to - 1) : d[i] = s[i]
  <2>1. \A i \in 1..(to - 1) : s[i] \in Row
    BY <1>1, <1>5
  <2> QED BY <1>1, <2>1, SubSeqProperties
<1>7. /\ e \in Seq(Row) /\ Len(e) = n - to
      /\ \A i \in 1..(n - to) : e[i] = s[to + i - 1]
  <2>1. \A i \in to..(n - 1) : s[i] \in Row
    BY <1>1, <1>5
  <2>2. /\ e \in Seq(Row) /\ Len(e) = IF to <= n - 1 THEN (n - 1) - to + 1 ELSE 0
        /\ \A i \in 1..((n - 1) - to + 1) : e[i] = s[to + i - 1]
    BY <1>1, <1>4, <2>1, SubSeqProperties
  <2> QED BY <1>1, <2>2
<1> HIDE DEF d, e
<1> DEFINE one == <<list[from]>>
           g == d \o one
<1>8. one \in Seq(Row) /\ Len(one) = 1 /\ one[1] = list[from]
  BY <1>1
<1> HIDE DEF one
<1>9. /\ g \in Seq(Row) /\ Len(g) = to
      /\ \A i \in 1..to : g[i] = IF i < to THEN s[i] ELSE list[from]
  <2>1. /\ g \in Seq(Row) /\ Len(g) = Len(d) + Len(one)
        /\ \A i \in 1..(Len(d) + Len(one)) : g[i] = IF i <= Len(d) THEN d[i] ELSE one[i - Len(d)]
    BY <1>6, <1>8, ConcatProperties
  <2> QED BY <1>1, <1>6, <1>8, <2>1
<1> HIDE DEF g
<1>10. /\ g \o e \in Seq(Row) /\ Len(g \o e) = n
       /\ \A i \in 1..n : (g \o e)[i] =
             IF i < to THEN s[i] ELSE IF i = to THEN list[from] ELSE s[i - 1]
  <2>1. /\ g \o e \in Seq(Row) /\ Len(g \o e) = Len(g) + Len(e)
        /\ \A i \in 1..(Len(g) + Len(e)) : (g \o e)[i] = IF i <= Len(g) THEN g[i] ELSE e[i - Len(g)]
    BY <1>7, <1>9, ConcatProperties
  <2> QED BY <1>1, <1>7, <1>9, <2>1
<1>11. arrayMove(list, from, to) = g \o e
  BY DEF arrayMove, InsertAt, RemoveAt, g, one, d, e, s, a, b
<1>12. \A k \in 1..n : (g \o e)[k] = list[Source(from, to, k)]
  <2> TAKE k \in 1..n
  <2>1. CASE k = to
    BY <1>1, <1>10, <2>1 DEF Source
  <2>2. CASE k < to
    <3>1. k \in 1..(n - 1) /\ (g \o e)[k] = s[k]
      BY <1>1, <1>10, <2>2
    <3> QED BY <1>1, <1>4, <2>2, <3>1 DEF Source
  <2>3. CASE k > to
    <3>1. k - 1 \in 1..(n - 1) /\ (g \o e)[k] = s[k - 1] /\ (k - 1) + 1 = k
      BY <1>1, <1>10, <2>3
    <3>2. (g \o e)[k] = IF k - 1 < from THEN list[k - 1] ELSE list[k]
      BY <1>4, <3>1
    <3> QED BY <1>1, <2>3, <3>2 DEF Source
  <2>4. k = to \/ k < to \/ k > to
    BY <1>1
  <2> QED BY <2>1, <2>2, <2>3, <2>4
<1>13. Drawn(g \o e, list)
  <2> DEFINE f == [k \in 1..n |-> Source(from, to, k)]
  <2>1. f \in [1..n -> 1..n] /\ \A k, m \in 1..n : f[k] = f[m] => k = m
    BY <1>1 DEF Source
  <2>2. \A k \in 1..n : (g \o e)[k] = list[f[k]]
    BY <1>12
  <2> DEFINE h == g \o e
  <2>3. Len(h) = n /\ Len(list) = n /\ \A k \in 1..n : h[k] = list[f[k]]
    BY <1>10, <2>2
  <2> HIDE DEF f, h, n
  <2>4. Drawn(h, list)
    BY <2>1, <2>3 DEF Drawn
  <2> QED BY <2>4 DEF h
<1> QED BY <1>10, <1>11, <1>12, <1>13

-----------------------------------------------------------------------------
(* Profiles *)

\* The parts of a profile.
LEMMA ProfileFacts ==
    ASSUME NEW p \in Profile
    PROVE  /\ p.rows \in [Sections -> Seq(Row)]
           /\ p.sources \in [Sources -> (SUBSET Tags) \cup {None}]
           /\ \A s \in Sections : p.rows[s] \in Seq(Row)
BY DEF Profile

\* The tags that can be observed are tags, and depend on the lists only.
LEMMA ObservableFacts ==
    /\ \A p \in Profile : ObservableTags(p) \in SUBSET Tags /\ ObservableTags(p) # None
    /\ \A p, q : p.rows = q.rows => ObservableTags(p) = ObservableTags(q)
<1>1. ASSUME NEW p \in Profile PROVE ObservableTags(p) \in SUBSET Tags
  <2>1. \A i \in DOMAIN RowsOf(p, "outbounds") : RowsOf(p, "outbounds")[i] \in Row
    <3>1. CASE "outbounds" \in Sections
      BY <3>1, ProfileFacts, ListFacts DEF RowsOf
    <3>2. CASE "outbounds" \notin Sections
      BY <3>2 DEF RowsOf
    <3> QED BY <3>1, <3>2
  <2>2. \A r \in ToSet(RowsOf(p, "outbounds")) : r \in Row
    BY <2>1 DEF ToSet
  <2>3. \A r \in Row : r.tag \in Tags \cup {NoTag}
    BY DEF Row
  <2> QED BY <2>2, <2>3 DEF ObservableTags
<1>2. \A c \in SUBSET Tags : c # None
  BY SettingsAssumption
<1>3. ASSUME NEW p, NEW q, p.rows = q.rows PROVE ObservableTags(p) = ObservableTags(q)
  BY <1>3 DEF ObservableTags, RowsOf
<1> QED BY <1>1, <1>2, <1>3

\* One list is replaced, and nothing else.
LEMMA WithRowsFacts ==
    ASSUME NEW p \in Profile, NEW s \in Sections, NEW list \in Seq(Row)
    PROVE  /\ WithRows(p, s, list) \in Profile
           /\ WithRows(p, s, list).rows = [p.rows EXCEPT ![s] = list]
           /\ WithRows(p, s, list).sources = p.sources
<1> DEFINE r == [p.rows EXCEPT ![s] = list]
<1>1. r \in [Sections -> Seq(Row)]
  BY ProfileFacts
<1>2. WithRows(p, s, list) = [p EXCEPT !.rows = r]
  BY DEF WithRows
<1> HIDE DEF r
<1>3. /\ [p EXCEPT !.rows = r] \in Profile
      /\ [p EXCEPT !.rows = r].rows = r /\ [p EXCEPT !.rows = r].sources = p.sources
  BY <1>1 DEF Profile
<1> QED BY <1>2, <1>3 DEF r

\* Other sources are set, and nothing else.
LEMMA WithSourcesFacts ==
    ASSUME NEW p \in Profile, NEW c \in [Sources -> (SUBSET Tags) \cup {None}]
    PROVE  /\ [p EXCEPT !.sources = c] \in Profile
           /\ [p EXCEPT !.sources = c].rows = p.rows
           /\ [p EXCEPT !.sources = c].sources = c
BY DEF Profile

\* The selectors follow, the lists stay.
LEMMA SyncSelectorsFacts ==
    ASSUME NEW p \in Profile, NEW before \in Profile
    PROVE  /\ SyncSelectors(p, before) \in Profile
           /\ SyncSelectors(p, before).rows = p.rows
           /\ \A k \in Sources : SyncSelectors(p, before).sources[k] =
                 IF p.sources[k] # None /\ p.sources[k] = ObservableTags(before)
                 THEN ObservableTags(p) ELSE p.sources[k]
<1> DEFINE c == [k \in Sources |->
                   IF p.sources[k] # None /\ p.sources[k] = ObservableTags(before)
                   THEN ObservableTags(p) ELSE p.sources[k]]
<1>1. c \in [Sources -> (SUBSET Tags) \cup {None}]
  BY ProfileFacts, ObservableFacts
<1>2. SyncSelectors(p, before) = [p EXCEPT !.sources = c]
  BY DEF SyncSelectors
<1>3. \A k \in Sources : c[k] = IF p.sources[k] # None /\ p.sources[k] = ObservableTags(before)
                                THEN ObservableTags(p) ELSE p.sources[k]
  OBVIOUS
<1> HIDE DEF c
<1> QED BY <1>1, <1>2, <1>3, WithSourcesFacts

\* A profile with sources is left alone, one without gets a source.
LEMMA ensureFacts ==
    ASSUME NEW p \in Profile
    PROVE  /\ ensureObservationForProfile(p) \in Profile
           /\ ensureObservationForProfile(p).rows = p.rows
           /\ profileHasObservation(ensureObservationForProfile(p))
           /\ profileHasObservation(p) => ensureObservationForProfile(p) = p
<1>1. CASE profileHasObservation(p)
  BY <1>1 DEF ensureObservationForProfile
<1>2. CASE ~profileHasObservation(p)
  <2> DEFINE leastPing == \E r \in ToSet(RowsOf(p, "balancers")) : r.trait
             k == IF leastPing THEN "observatory" ELSE "burstObservatory"
             o == ObservableTags(p)
             c == [p.sources EXCEPT ![k] = o]
  <2>1. ensureObservationForProfile(p) = [p EXCEPT !.sources[k] = o]
    BY <1>2 DEF ensureObservationForProfile
  <2>2. k \in Sources
    BY DEF Sources
  <2>3. o \in SUBSET Tags /\ o # None
    BY ObservableFacts
  <2> HIDE DEF k, o
  <2>4. c \in [Sources -> (SUBSET Tags) \cup {None}] /\ c[k] = o
    BY <2>2, <2>3, ProfileFacts
  <2>5. ensureObservationForProfile(p) = [p EXCEPT !.sources = c]
    BY <2>1
  <2> HIDE DEF c
  <2>6. /\ [p EXCEPT !.sources = c] \in Profile /\ [p EXCEPT !.sources = c].rows = p.rows
        /\ [p EXCEPT !.sources = c].sources = c
    BY <2>4, WithSourcesFacts
  <2> QED BY <1>2, <2>2, <2>3, <2>4, <2>5, <2>6 DEF profileHasObservation
<1> QED BY <1>1, <1>2

\* Each section replaces its own list only.
LEMMA UpdateRowsFacts ==
    ASSUME NEW p \in Profile, NEW s \in Sections, NEW list \in Seq(Row)
    PROVE  /\ UpdateRows(p, s, list) \in Profile
           /\ UpdateRows(p, s, list).rows = [p.rows EXCEPT ![s] = list]
           /\ s # "outbounds" => UpdateRows(p, s, list).sources = p.sources
           /\ s = "outbounds" =>
                 \A k \in Sources : UpdateRows(p, s, list).sources[k] =
                    IF p.sources[k] # None /\ p.sources[k] = ObservableTags(p)
                    THEN ObservableTags(UpdateRows(p, s, list)) ELSE p.sources[k]
<1> DEFINE q == WithRows(p, s, list)
<1>1. q \in Profile /\ q.rows = [p.rows EXCEPT ![s] = list] /\ q.sources = p.sources
  BY WithRowsFacts
<1>2. CASE s # "outbounds"
  BY <1>1, <1>2 DEF UpdateRows
<1>3. CASE s = "outbounds"
  <2>1. UpdateRows(p, s, list) = SyncSelectors(q, p)
    BY <1>3 DEF UpdateRows
  <2> HIDE DEF q
  <2>2. /\ SyncSelectors(q, p) \in Profile /\ SyncSelectors(q, p).rows = q.rows
        /\ \A k \in Sources : SyncSelectors(q, p).sources[k] =
              IF q.sources[k] # None /\ q.sources[k] = ObservableTags(p)
              THEN ObservableTags(q) ELSE q.sources[k]
    BY <1>1, SyncSelectorsFacts
  <2>3. ObservableTags(SyncSelectors(q, p)) = ObservableTags(q)
    BY <2>2, ObservableFacts
  <2> QED BY <1>1, <1>3, <2>1, <2>2, <2>3
<1> QED BY <1>2, <1>3

\* The effect of the balancers section touches the sources only.
LEMMA RenderedFacts ==
    ASSUME NEW p \in Profile, NEW s \in Sections
    PROVE  /\ Rendered(p, s) \in Profile
           /\ Rendered(p, s).rows = p.rows
           /\ s = "balancers" /\ p.rows[s] # << >> => profileHasObservation(Rendered(p, s))
           /\ s # "balancers" => Rendered(p, s) = p
BY ensureFacts DEF Rendered

\* A list replaced on the screen.
LEMMA RenderedUpdateFacts ==
    ASSUME NEW p \in Profile, NEW s \in Sections, NEW list \in Seq(Row)
    PROVE  /\ Rendered(UpdateRows(p, s, list), s) \in Profile
           /\ Rendered(UpdateRows(p, s, list), s).rows = [p.rows EXCEPT ![s] = list]
BY UpdateRowsFacts, RenderedFacts

-----------------------------------------------------------------------------
(* Types and lengths *)

Fits(p) == \A s \in Sections : Len(p.rows[s]) \in MinRowCount(s)..MaxRows[s]

ListsOK == profile \in Profile /\ Fits(profile)

DialogOK ==
    dialog # None =>
        /\ dialog \in Dialog /\ dialog.selected <= MaxRows[section]
        /\ dialog.mode = "add" => dialog.draft \in Row
        /\ dialog.mode = "edit" => dialog.selected # 0

ScreenOK ==
    /\ section \in Sections
    /\ ticks \subseteq 1..MaxRows[section]
    /\ obsDraft \in [Sources -> (SUBSET Tags) \cup {None}] \cup {None}

\* The inductive invariant: the types, the minimum of every list, and dialogs
\* that have a row.
Typed == ListsOK /\ DialogOK /\ ScreenOK

LEMMA TypedGives == Typed => TypeOK /\ LastRowStays /\ DialogHasRow
<1> SUFFICES ASSUME Typed PROVE TypeOK /\ LastRowStays /\ DialogHasRow
  OBVIOUS
<1>1. \A s \in Sections : Len(profile.rows[s]) \in Nat /\ MaxRows[s] \in Nat /\ MinRowCount(s) \in Nat
  BY SettingsAssumption, ProfileFacts, ListFacts DEF Typed, ListsOK, MinRowCount
<1> QED
  BY <1>1 DEF Typed, ListsOK, Fits, DialogOK, ScreenOK, TypeOK, LastRowStays, DialogHasRow,
              Adding, Editing

\* The list on the screen.
LEMMA RowsFacts ==
    ASSUME Typed
    PROVE  /\ rows \in Seq(Row) /\ Len(rows) \in Nat /\ DOMAIN rows = 1..Len(rows)
           /\ \A i \in 1..Len(rows) : rows[i] \in Row
           /\ Len(rows) \in MinRowCount(section)..MaxRows[section]
           /\ MaxRows[section] \in Nat /\ MinRowCount(section) \in {0, 1}
BY ProfileFacts, ListFacts, SettingsAssumption
DEF Typed, ListsOK, Fits, ScreenOK, rows, MinRowCount

\* The row a dialog shows.
LEMMA ShownFacts ==
    ASSUME Typed, RowShown
    PROVE  /\ Shown \in Row /\ dialog # None /\ dialog \in Dialog
           /\ ~Adding => Editing /\ dialog.selected \in 1..Len(rows)
           /\ Shown.tag \in Tags \cup {NoTag} /\ Shown.trait \in BOOLEAN /\ Shown.checked \in BOOLEAN
           /\ dialog.form \in Tags \cup {NoTag}
<1>1. dialog # None /\ dialog \in Dialog /\ dialog.form \in Tags \cup {NoTag} /\ dialog.selected \in Nat
  BY DEF RowShown, Adding, Editing, Typed, DialogOK, Dialog
<1>2. ~Adding => Editing /\ dialog.selected \in 1..Len(rows)
  BY <1>1, RowsFacts DEF RowShown, Adding, Editing, Typed, DialogOK
<1>3. Shown \in Row
  BY <1>1, <1>2, RowsFacts DEF Shown, Adding, Typed, DialogOK
<1>4. \A r \in Row : r.tag \in Tags \cup {NoTag} /\ r.trait \in BOOLEAN /\ r.checked \in BOOLEAN
  BY DEF Row
<1> QED BY <1>1, <1>2, <1>3, <1>4

\* A new list for the section on the screen.
LEMMA ListStep ==
    ASSUME Typed, NEW list \in Seq(Row),
           Len(list) \in MinRowCount(section)..MaxRows[section],
           profile' \in Profile, profile'.rows = [profile.rows EXCEPT ![section] = list]
    PROVE  ListsOK'
<1>1. profile.rows \in [Sections -> Seq(Row)]
  BY ProfileFacts DEF Typed, ListsOK
<1>2. \A s \in Sections : profile'.rows[s] = IF s = section THEN list ELSE profile.rows[s]
  BY <1>1
<1> QED BY <1>2 DEF Typed, ListsOK, Fits

\* A step that leaves the lists alone.
LEMMA SameListStep ==
    ASSUME Typed, profile' \in Profile, profile'.rows = profile.rows
    PROVE  ListsOK'
BY DEF Typed, ListsOK, Fits

\* What a change of the dialog's row does to profile and dialog.
LEMMA PatchFacts ==
    ASSUME Typed, RowShown,
           NEW tag \in Tags \cup {NoTag}, NEW trait \in BOOLEAN, NEW checked \in BOOLEAN,
           NEW form \in Tags \cup {NoTag}, Patch(tag, trait, checked, form),
           section' = section
    PROVE  LET row == [tag |-> tag, trait |-> trait, checked |-> checked]
           IN  /\ ListsOK' /\ DialogOK' /\ row \in Row
               /\ dialog' # None => /\ dialog'.mode = dialog.mode /\ dialog'.form = form
                                    /\ dialog'.selected = dialog.selected
               /\ Adding => /\ profile' = profile
                            /\ dialog' # None => dialog'.draft.tag = tag
               /\ ~Adding => /\ profile'.rows = [profile.rows EXCEPT ![section] =
                                                   SetRow(rows, dialog.selected, row)]
                             /\ SetRow(rows, dialog.selected, row) \in Seq(Row)
                             /\ profile' = Rendered(UpdateRows(profile, section,
                                              SetRow(rows, dialog.selected, row)), section)
<1> DEFINE row == [tag |-> tag, trait |-> trait, checked |-> checked]
<1>1. row \in Row
  BY DEF Row
<1>2. /\ dialog # None /\ dialog \in Dialog /\ dialog.selected <= MaxRows[section]
      /\ ~Adding => Editing /\ dialog.selected \in 1..Len(rows)
  BY ShownFacts DEF Typed, DialogOK
<1>3. CASE Adding
  <2> DEFINE draft == [dialog.draft EXCEPT !.tag = tag, !.trait = trait]
  <2>1. dialog' = [dialog EXCEPT !.draft = draft, !.form = form] /\ profile' = profile
    BY <1>3 DEF Patch
  <2>2. dialog.draft \in Row /\ dialog.mode = "add"
    BY <1>2, <1>3 DEF Typed, DialogOK, Adding
  <2>3. draft \in Row /\ draft.tag = tag
    BY <2>2 DEF Row
  <2> HIDE DEF draft
  <2>4. /\ dialog' \in Dialog /\ dialog'.mode = dialog.mode /\ dialog'.draft = draft
        /\ dialog'.selected = dialog.selected /\ dialog'.form = form
    BY <1>2, <2>1, <2>3 DEF Dialog
  <2>5. ListsOK'
    BY <2>1 DEF Typed, ListsOK, Fits
  <2>6. DialogOK'
    BY <1>2, <2>2, <2>3, <2>4 DEF DialogOK
  <2> QED BY <1>1, <1>3, <2>1, <2>3, <2>4, <2>5, <2>6
<1>4. CASE ~Adding
  <2> DEFINE list == SetRow(rows, dialog.selected, row)
  <2>1. dialog' = [dialog EXCEPT !.form = form] /\ profile' = Rendered(UpdateRows(profile, section, list), section)
    BY <1>4 DEF Patch
  <2>2. list \in Seq(Row) /\ Len(list) = Len(rows)
    BY <1>1, <1>2, <1>4, RowsFacts, SetRowFacts
  <2> HIDE DEF list
  <2>3. profile' \in Profile /\ profile'.rows = [profile.rows EXCEPT ![section] = list]
    BY <2>1, <2>2, RenderedUpdateFacts DEF Typed, ListsOK, ScreenOK
  <2>4. ListsOK'
    BY <2>2, <2>3, RowsFacts, ListStep
  <2>5. /\ dialog' \in Dialog /\ dialog'.mode = dialog.mode /\ dialog'.form = form
        /\ dialog'.selected = dialog.selected /\ dialog'.draft = dialog.draft
    BY <1>2, <2>1 DEF Dialog
  <2>6. DialogOK'
    BY <1>2, <2>5 DEF DialogOK, Typed
  <2> QED BY <1>1, <1>4, <2>1, <2>2, <2>3, <2>4, <2>5, <2>6 DEF list
<1> QED BY <1>3, <1>4

\* The server's profiles are in order.
LEMMA ServerFacts ==
    ASSUME NEW p \in Profiles, NEW s \in Sections
    PROVE  /\ p \in Profile /\ Fits(p)
           /\ Rendered(p, s) \in Profile /\ Fits(Rendered(p, s))
           /\ Rendered(p, s).rows = p.rows
<1>1. p \in Profile /\ Fits(p)
  BY ProfilesAssumption DEF Fits
<1>2. Rendered(p, s) \in Profile /\ Rendered(p, s).rows = p.rows
  BY <1>1, RenderedFacts
<1> QED BY <1>1, <1>2 DEF Fits

\* Dropping as many rows as the guards let through leaves the minimum.
LEMMA DropStep ==
    ASSUME Typed, NEW gone \in SUBSET (1..MaxRows[section]),
           Cardinality(gone) <= Len(rows) - MinRowCount(section) \/ MinRowCount(section) = 0
    PROVE  /\ DropRows(rows, gone) \in Seq(Row)
           /\ Len(DropRows(rows, gone)) \in MinRowCount(section)..MaxRows[section]
<1> DEFINE n == Len(DropRows(rows, gone))
<1>0. rows \in Seq(Row) /\ Len(rows) \in Nat /\ DOMAIN rows = 1..Len(rows)
  BY RowsFacts
<1>1. DropRows(rows, gone) \in Seq(Row) /\ n = Cardinality((1..Len(rows)) \ gone)
  <2>1. DropRows(rows, gone) \in Seq(Row) /\ n = Cardinality(DOMAIN rows \ gone)
    BY <1>0, DropRowsFacts
  <2> QED BY <1>0, <2>1
<1>2. IsFiniteSet(1..Len(rows)) /\ Cardinality(1..Len(rows)) = Len(rows)
  <2>1. /\ IsFiniteSet(1..Len(rows))
        /\ Cardinality(1..Len(rows)) = IF 1 > Len(rows) THEN 0 ELSE Len(rows) - 1 + 1
    BY <1>0, FS_Interval
  <2> QED BY <1>0, <2>1
<1>3. IsFiniteSet(gone) /\ Cardinality(gone) \in Nat
  <2>1. IsFiniteSet(1..MaxRows[section])
    BY RowsFacts, FS_Interval
  <2> QED BY <2>1, FS_Subset, FS_CardinalityType
<1> DEFINE both == (1..Len(rows)) \cap gone
<1>4. n = Len(rows) - Cardinality(both)
  BY <1>1, <1>2, FS_Difference
<1>5. IsFiniteSet(both) /\ Cardinality(both) \in Nat /\ Cardinality(both) <= Cardinality(gone)
      /\ Cardinality(both) <= Len(rows)
  <2>1. both \in SUBSET gone /\ both \in SUBSET (1..Len(rows))
    OBVIOUS
  <2> HIDE DEF both
  <2> QED BY <1>2, <1>3, <2>1, FS_Subset, FS_CardinalityType
<1> HIDE DEF both, n
<1>6. n \in MinRowCount(section)..MaxRows[section]
  BY <1>3, <1>4, <1>5, RowsFacts
<1> QED BY <1>1, <1>6 DEF n

\* Every step keeps types, lengths and dialogs in order.
LEMMA TypedStep ==
    ASSUME Typed, [Next]_vars
    PROVE  Typed'
<1>S. /\ ListsOK /\ DialogOK /\ ScreenOK /\ section \in Sections /\ profile \in Profile
      /\ Fits(profile) /\ MaxRows \in [Sections -> Nat]
  BY SettingsAssumption DEF Typed, ListsOK, ScreenOK
<1>L. UNCHANGED profile => ListsOK'
  BY <1>S DEF ListsOK, Fits
<1>D. UNCHANGED <<dialog, section>> => DialogOK'
  BY <1>S DEF DialogOK
<1>N. dialog' = None => DialogOK'
  BY DEF DialogOK
<1>U. UNCHANGED <<section, ticks, obsDraft>> => ScreenOK'
  BY <1>S DEF ScreenOK
<1>1. ASSUME NEW s \in Sections, ChangeSection(s) PROVE Typed'
  <2>1. ListsOK'
    BY <1>1, <1>S, RenderedFacts, SameListStep DEF ChangeSection
  <2>2. ScreenOK' /\ DialogOK'
    BY <1>1, <1>S DEF ChangeSection, ScreenOK, DialogOK
  <2> QED BY <2>1, <2>2 DEF Typed
<1>2. ASSUME Refetch PROVE Typed'
  <2>1. PICK p \in Profiles : profile' = Rendered(p, section)
    BY <1>2 DEF Refetch
  <2>2. ListsOK'
    BY <1>S, <2>1, ServerFacts DEF ListsOK, Fits
  <2> QED BY <1>2, <1>D, <1>U, <2>2 DEF Typed, Refetch, ui
<1>3. ASSUME NEW i \in DOMAIN rows, RowClick(i) PROVE Typed'
  <2>1. i \in 1..Len(rows) /\ rows[i] \in Row /\ i \in Nat /\ i # 0 /\ i <= MaxRows[section]
    BY RowsFacts
  <2>2. rows[i].tag \in Tags \cup {NoTag} /\ [rows[i] EXCEPT !.checked = TRUE] \in Row
    BY <2>1 DEF Row
  <2>3. EditOriginal(rows[i]) \in Row \cup {None}
    BY <2>2 DEF EditOriginal
  <2>4. DialogOK'
    BY <1>3, <2>1, <2>2, <2>3 DEF RowClick, OpenDialog, DialogOK, Dialog
  <2> QED BY <1>3, <1>L, <1>U, <2>4 DEF Typed, RowClick
<1>4. ASSUME NEW t \in Tags \cup {NoTag}, BeginAdd(t) PROVE Typed'
  <2> DEFINE row == [tag |-> t, trait |-> section = "outbounds", checked |-> TRUE]
  <2>1. row \in Row
    BY DEF Row
  <2>2. dialog' = [mode |-> "add", selected |-> 0, draft |-> row, initial |-> row,
                   form |-> t, asking |-> FALSE]
    BY <1>4 DEF BeginAdd, OpenDialog
  <2> HIDE DEF row
  <2>3. DialogOK'
    BY <1>4, <1>S, <2>1, <2>2 DEF BeginAdd, DialogOK, Dialog
  <2> QED BY <1>4, <1>L, <1>U, <2>3 DEF Typed, BeginAdd
<1>5. ASSUME NEW t \in Tags \cup {NoTag}, TypeTag(t) PROVE Typed'
  <2> DEFINE taken == profileTagHasDuplicateUsage(profile, t, Edited)
  <2>0. RowShown /\ section' = section /\ UNCHANGED <<section, ticks, obsDraft>>
    BY <1>5 DEF TypeTag
  <2>1. /\ Shown.trait \in BOOLEAN /\ (Shown.checked /\ ~taken) \in BOOLEAN
        /\ dialog # None /\ dialog \in Dialog
    BY <2>0, ShownFacts
  <2>2. CASE dialog' = [dialog EXCEPT !.form = t] /\ UNCHANGED profile
    <3>1. dialog' \in Dialog /\ dialog'.mode = dialog.mode /\ dialog'.selected = dialog.selected
          /\ dialog'.draft = dialog.draft
      BY <2>1, <2>2 DEF Dialog
    <3>2. DialogOK'
      BY <1>S, <2>0, <2>1, <3>1 DEF DialogOK
    <3> QED BY <1>L, <1>U, <2>0, <2>2, <3>2 DEF Typed
  <2>3. CASE Patch(t, Shown.trait, Shown.checked /\ ~taken, t)
    <3> HIDE DEF taken
    <3>1. ListsOK' /\ DialogOK'
      BY <2>0, <2>1, <2>3, PatchFacts
    <3> QED BY <1>U, <2>0, <3>1 DEF Typed
  <2> QED BY <1>5, <2>2, <2>3 DEF TypeTag
<1>6. ASSUME ChangeTrait PROVE Typed'
  <2> DEFINE form == IF section = "outbounds" \/ Adding THEN Shown.tag ELSE dialog.form
  <2>0. RowShown /\ section' = section /\ UNCHANGED <<section, ticks, obsDraft>>
        /\ Patch(Shown.tag, ~Shown.trait, Shown.checked, form)
    BY <1>6 DEF ChangeTrait
  <2>1. /\ Shown.tag \in Tags \cup {NoTag} /\ (~Shown.trait) \in BOOLEAN
        /\ Shown.checked \in BOOLEAN /\ form \in Tags \cup {NoTag}
    BY <2>0, ShownFacts
  <2> HIDE DEF form
  <2>2. ListsOK' /\ DialogOK'
    BY <2>0, <2>1, PatchFacts
  <2> QED BY <1>U, <2>0, <2>2 DEF Typed
<1>7. ASSUME NEW t \in Tags \cup {NoTag}, NEW uri \in BOOLEAN, ImportRow(t, uri) PROVE Typed'
  <2> DEFINE form == IF uri \/ Adding THEN t ELSE dialog.form
             checked == Shown.checked /\ ~profileTagHasDuplicateUsage(profile, t, Edited)
  <2>0. RowShown /\ section' = section /\ UNCHANGED <<section, ticks, obsDraft>>
        /\ Patch(t, Shown.trait, checked, form)
    BY <1>7 DEF ImportRow
  <2>1. /\ Shown.trait \in BOOLEAN /\ checked \in BOOLEAN /\ form \in Tags \cup {NoTag}
    BY <2>0, ShownFacts
  <2> HIDE DEF form, checked
  <2>2. ListsOK' /\ DialogOK'
    BY <2>0, <2>1, PatchFacts
  <2> QED BY <1>U, <2>0, <2>2 DEF Typed
<1>8. ASSUME Cancel PROVE Typed'
  <2>1. ASSUME dialog # None, dialog' = [dialog EXCEPT !.asking = TRUE], section' = section
        PROVE  DialogOK'
    <3>1. /\ dialog' \in Dialog /\ dialog'.mode = dialog.mode
          /\ dialog'.selected = dialog.selected /\ dialog'.draft = dialog.draft
      BY <1>S, <2>1 DEF DialogOK, Dialog
    <3> QED BY <1>S, <2>1, <3>1 DEF DialogOK
  <2> QED BY <1>8, <1>L, <1>N, <1>U, <2>1 DEF Typed, Cancel, finalizeDetailClose
<1>9. ASSUME Discard PROVE Typed'
  BY <1>9, <1>L, <1>N, <1>U DEF Typed, Discard, finalizeDetailClose
<1>10. ASSUME KeepEditing PROVE Typed'
  <2>1. dialog # None /\ dialog' = [dialog EXCEPT !.asking = FALSE] /\ section' = section
    BY <1>10 DEF KeepEditing, Answering
  <2>2. /\ dialog' \in Dialog /\ dialog'.mode = dialog.mode
        /\ dialog'.selected = dialog.selected /\ dialog'.draft = dialog.draft
    BY <1>S, <2>1 DEF DialogOK, Dialog
  <2>3. DialogOK'
    BY <1>S, <2>1, <2>2 DEF DialogOK
  <2> QED BY <1>10, <1>L, <1>U, <2>3 DEF Typed, KeepEditing
<1>11. ASSUME CommitAdd PROVE Typed'
  <2> DEFINE row == [dialog.draft EXCEPT !.checked = TRUE, !.tag =
                       IF section \in {"outbounds", "balancers"} THEN dialog.form ELSE @]
             list == Append(rows, row)
             q == UpdateRows(profile, section, list)
  <2>1. dialog # None /\ dialog.draft \in Row /\ dialog.form \in Tags \cup {NoTag}
    BY <1>11, <1>S DEF CommitAdd, Adding, DialogOK, Dialog
  <2>2. row \in Row
    BY <2>1 DEF Row
  <2>3. profile' = IF section = "balancers" THEN ensureObservationForProfile(q) ELSE q
    BY <1>11 DEF CommitAdd
  <2> HIDE DEF row
  <2>4. list \in Seq(Row) /\ Len(list) = Len(rows) + 1
    BY <2>2, RowsFacts, AppendProperties
  <2>5. Len(list) \in MinRowCount(section)..MaxRows[section]
    BY <1>11, <2>4, RowsFacts DEF CommitAdd
  <2> HIDE DEF list
  <2>6. q \in Profile /\ q.rows = [profile.rows EXCEPT ![section] = list]
    BY <1>S, <2>4, UpdateRowsFacts
  <2> HIDE DEF q
  <2>7. profile' \in Profile /\ profile'.rows = [profile.rows EXCEPT ![section] = list]
    BY <2>3, <2>6, ensureFacts
  <2>8. ListsOK'
    BY <2>4, <2>5, <2>7, ListStep
  <2> QED BY <1>11, <1>N, <1>U, <2>8 DEF Typed, CommitAdd, finalizeDetailClose
<1>12. ASSUME CommitEdit PROVE Typed'
  <2> DEFINE row == [Shown EXCEPT !.checked = TRUE,
                                  !.tag = IF section = "outbounds" THEN dialog.form ELSE @]
             list == SetRow(rows, dialog.selected, row)
  <2>1. RowShown /\ Editing /\ ~Adding
    BY <1>12 DEF CommitEdit, CommitAllowed, Editing, Adding
  <2>2. Shown \in Row /\ dialog.form \in Tags \cup {NoTag} /\ dialog.selected \in 1..Len(rows)
    BY <2>1, ShownFacts
  <2>3. row \in Row
    BY <2>2 DEF Row
  <2>4. profile' = Rendered(UpdateRows(profile, section, list), section)
    BY <1>12 DEF CommitEdit
  <2> HIDE DEF row
  <2>5. list \in Seq(Row) /\ Len(list) = Len(rows)
    BY <2>2, <2>3, RowsFacts, SetRowFacts
  <2> HIDE DEF list
  <2>6. ListsOK'
    <3>1. profile' \in Profile /\ profile'.rows = [profile.rows EXCEPT ![section] = list]
      BY <1>S, <2>4, <2>5, RenderedUpdateFacts
    <3>2. Len(list) \in MinRowCount(section)..MaxRows[section]
      BY <2>5, RowsFacts
    <3> QED BY <2>5, <3>1, <3>2, ListStep
  <2> QED BY <1>12, <1>N, <1>U, <2>6 DEF Typed, CommitEdit, finalizeDetailClose
<1>13. ASSUME NEW i \in DOMAIN rows, RemoveRow(i) PROVE Typed'
  <2>1. Cardinality({i}) = 1
    BY FS_Singleton
  <2>2. {i} \in SUBSET (1..MaxRows[section])
    BY RowsFacts
  <2>3. Cardinality({i}) <= Len(rows) - MinRowCount(section)
    BY <1>13, <2>1, RowsFacts DEF RemoveRow
  <2>4. /\ DropRows(rows, {i}) \in Seq(Row)
        /\ Len(DropRows(rows, {i})) \in MinRowCount(section)..MaxRows[section]
    BY <2>2, <2>3, DropStep
  <2>5. ListsOK'
    BY <1>13, <1>S, <2>4, RenderedUpdateFacts, ListStep DEF RemoveRow
  <2> QED BY <1>13, <1>D, <1>U, <2>5 DEF Typed, RemoveRow
<1>14. ASSUME NEW i \in DOMAIN rows, NEW j \in DOMAIN rows, Reorder(i, j) PROVE Typed'
  <2>1. i \in 1..Len(rows) /\ j \in 1..Len(rows) /\ rows \in Seq(Row)
    BY RowsFacts
  <2>2. arrayMove(rows, i, j) \in Seq(Row) /\ Len(arrayMove(rows, i, j)) = Len(rows)
    BY <2>1, arrayMoveFacts
  <2>3. ListsOK'
    <3> DEFINE list == arrayMove(rows, i, j)
    <3>1. list \in Seq(Row) /\ profile' = WithRows(profile, section, list)
      BY <1>14, <2>2 DEF Reorder
    <3>2. Len(list) \in MinRowCount(section)..MaxRows[section]
      BY <2>2, RowsFacts
    <3> HIDE DEF list
    <3>3. profile' \in Profile /\ profile'.rows = [profile.rows EXCEPT ![section] = list]
      BY <1>S, <3>1, WithRowsFacts
    <3> QED BY <3>1, <3>2, <3>3, ListStep
  <2> QED BY <1>14, <1>D, <1>U, <2>3 DEF Typed, Reorder
<1>15. ASSUME NEW i \in DOMAIN rows, Tick(i) PROVE Typed'
  <2>1. i \in 1..MaxRows[section]
    BY RowsFacts
  <2>2. ScreenOK'
    BY <1>15, <1>S, <2>1 DEF Tick, ScreenOK
  <2> QED BY <1>15, <1>L, <1>D, <2>2 DEF Typed, Tick
<1>16. ASSUME ClearTicks PROVE Typed'
  <2>1. ScreenOK'
    BY <1>16, <1>S DEF ClearTicks, ScreenOK
  <2> QED BY <1>16, <1>L, <1>D, <2>1 DEF Typed, ClearTicks
<1>17. ASSUME BulkRemove PROVE Typed'
  <2>1. ticks \in SUBSET (1..MaxRows[section])
    BY <1>S DEF ScreenOK
  <2>0. IsFiniteSet(ticks) /\ Cardinality(ticks) \in Nat
    <3>1. IsFiniteSet(1..MaxRows[section])
      BY RowsFacts, FS_Interval
    <3> QED BY <2>1, <3>1, FS_Subset, FS_CardinalityType
  <2>2. MinRowCount(section) = 0 \/ Len(rows) - Cardinality(ticks) >= MinRowCount(section)
    BY <1>17 DEF BulkRemove, BulkAllowed
  <2>3. MinRowCount(section) = 0 \/ Cardinality(ticks) <= Len(rows) - MinRowCount(section)
    BY <2>0, <2>2, RowsFacts
  <2>4. /\ DropRows(rows, ticks) \in Seq(Row)
        /\ Len(DropRows(rows, ticks)) \in MinRowCount(section)..MaxRows[section]
    BY <2>1, <2>3, DropStep
  <2>5. ListsOK'
    BY <1>17, <1>S, <2>4, RenderedUpdateFacts, ListStep DEF BulkRemove
  <2>6. ScreenOK'
    BY <1>17, <1>S DEF BulkRemove, ScreenOK
  <2> QED BY <1>17, <1>D, <2>5, <2>6 DEF Typed, BulkRemove
<1>18. ASSUME OpenObservationDialog PROVE Typed'
  <2>1. ScreenOK'
    BY <1>18, <1>S, ProfileFacts DEF OpenObservationDialog, ScreenOK
  <2> QED BY <1>18, <1>L, <1>D, <2>1 DEF Typed, OpenObservationDialog
<1>19. ASSUME CloseObservationDialog PROVE Typed'
  <2>1. ScreenOK'
    BY <1>19, <1>S DEF CloseObservationDialog, ScreenOK
  <2> QED BY <1>19, <1>L, <1>D, <2>1 DEF Typed, CloseObservationDialog
<1>20. ASSUME commitObservationDraft PROVE Typed'
  <2>1. obsDraft \in [Sources -> (SUBSET Tags) \cup {None}]
    BY <1>20, <1>S DEF commitObservationDraft, ScreenOK
  <2>2. profile' \in Profile /\ profile'.rows = profile.rows
    <3> DEFINE q == [profile EXCEPT !.sources = obsDraft]
    <3>1. q \in Profile /\ q.rows = profile.rows
      BY <1>S, <2>1, WithSourcesFacts
    <3>2. profile' = Rendered(q, section)
      BY <1>20 DEF commitObservationDraft
    <3> HIDE DEF q
    <3> QED BY <1>S, <3>1, <3>2, RenderedFacts
  <2>3. ScreenOK'
    BY <1>20, <1>S DEF commitObservationDraft, ScreenOK
  <2> QED BY <1>20, <1>D, <2>2, <2>3, SameListStep DEF Typed, commitObservationDraft
<1>21. ASSUME NEW k \in Sources, ToggleSource(k) PROVE Typed'
  <2>1. obsDraft \in [Sources -> (SUBSET Tags) \cup {None}]
    BY <1>21, <1>S DEF ToggleSource, ScreenOK
  <2>2. ObservableTags(profile) \in SUBSET Tags
    BY <1>S, ObservableFacts
  <2>3. obsDraft' \in [Sources -> (SUBSET Tags) \cup {None}]
    <3> DEFINE c == IF obsDraft[k] = None THEN ObservableTags(profile) ELSE None
    <3>0. c = ObservableTags(profile) \/ c = None
      OBVIOUS
    <3>1. c \in (SUBSET Tags) \cup {None}
      BY <2>2, <3>0
    <3>2. obsDraft' = [obsDraft EXCEPT ![k] = c]
      BY <1>21 DEF ToggleSource
    <3> HIDE DEF c
    <3> QED BY <2>1, <3>1, <3>2
  <2>4. ScreenOK'
    BY <1>21, <1>S, <2>3 DEF ToggleSource, ScreenOK
  <2> QED BY <1>21, <1>L, <1>D, <2>4 DEF Typed, ToggleSource
<1>22. ASSUME NEW k \in Sources, NEW c \in Picks, PickSubjects(k, c) PROVE Typed'
  <2>1. obsDraft \in [Sources -> (SUBSET Tags) \cup {None}]
    BY <1>22, <1>S DEF PickSubjects, ScreenOK
  <2>2. obsDraft' \in [Sources -> (SUBSET Tags) \cup {None}]
    BY <1>22, <2>1, SettingsAssumption DEF PickSubjects
  <2>3. ScreenOK'
    BY <1>22, <1>S, <2>2 DEF PickSubjects, ScreenOK
  <2> QED BY <1>22, <1>L, <1>D, <2>3 DEF Typed, PickSubjects
<1>23. ASSUME UNCHANGED vars PROVE Typed'
  BY <1>23, <1>L, <1>D, <1>U DEF Typed, vars, ui
<1> QED
  BY <1>1, <1>2, <1>3, <1>4, <1>5, <1>6, <1>7, <1>8, <1>9, <1>10, <1>11, <1>12, <1>13, <1>14,
     <1>15, <1>16, <1>17, <1>18, <1>19, <1>20, <1>21, <1>22, <1>23 DEF Next

LEMMA TypedInit == Init => Typed
<1> SUFFICES ASSUME Init PROVE Typed
  OBVIOUS
<1>1. section \in Sections
  BY DEF Init
<1>2. ListsOK
  BY <1>1, ServerFacts DEF Init, ListsOK
<1> QED BY <1>1, <1>2 DEF Init, Typed, DialogOK, ScreenOK

LEMMA TypedInvariant == Spec => []Typed
BY TypedInit, TypedStep, PTL DEF Spec

\* Profile, dialog and table have their types in every behaviour: no write
\* lands beyond the end of a list that a refetch has made shorter.
THEOREM TypeCorrect == Spec => []TypeOK
BY TypedInvariant, TypedGives, PTL

\* Whatever is ticked, removed, refetched and ticked again, an inbound and an
\* outbound are left.
THEOREM MinimumIsKept == Spec => []LastRowStays
BY TypedInvariant, TypedGives, PTL

-----------------------------------------------------------------------------
(* Observation *)

\* The effect of the section provides a source wherever one is needed.
LEMMA RenderedKeeps ==
    ASSUME section' \in Sections, NEW p \in Profile, profile' = Rendered(p, section')
    PROVE  ObservationKept'
<1>1. profile'.rows = p.rows
  BY RenderedFacts
<1> QED BY <1>1, RenderedFacts DEF ObservationKept, rows

\* Every change of the profile ends in the effect, provides a source itself, or
\* touches neither the sources nor whether there are balancers.
LEMMA ObservationStep ==
    ASSUME Typed, ObservationKept, [Next]_vars
    PROVE  ObservationKept'
<1>S. section \in Sections /\ profile \in Profile
  BY DEF Typed, ListsOK, ScreenOK
<1>U. UNCHANGED <<profile, section>> => ObservationKept'
  BY DEF ObservationKept, rows
<1>P. ASSUME RowShown, NEW tag \in Tags \cup {NoTag}, NEW trait \in BOOLEAN,
             NEW checked \in BOOLEAN, NEW form \in Tags \cup {NoTag},
             Patch(tag, trait, checked, form), section' = section
      PROVE  ObservationKept'
  <2> DEFINE list == SetRow(rows, dialog.selected, [tag |-> tag, trait |-> trait, checked |-> checked])
  <2>1. \/ profile' = profile
        \/ list \in Seq(Row) /\ profile' = Rendered(UpdateRows(profile, section, list), section)
    <3>1. CASE Adding
      BY <1>P, <3>1 DEF Patch
    <3>2. CASE ~Adding
      <4>1. profile' = Rendered(UpdateRows(profile, section, list), section)
        BY <1>P, <3>2 DEF Patch
      <4>2. dialog.selected \in 1..Len(rows) /\ rows \in Seq(Row)
        BY <1>P, <3>2, ShownFacts, RowsFacts
      <4>3. [tag |-> tag, trait |-> trait, checked |-> checked] \in Row
        BY DEF Row
      <4> QED BY <4>1, <4>2, <4>3, SetRowFacts
    <3> QED BY <3>1, <3>2
  <2> HIDE DEF list
  <2> QED BY <1>P, <1>S, <1>U, <2>1, UpdateRowsFacts, RenderedKeeps
<1>1. ASSUME NEW s \in Sections, ChangeSection(s) PROVE ObservationKept'
  BY <1>1, <1>S, RenderedKeeps DEF ChangeSection
<1>2. ASSUME Refetch PROVE ObservationKept'
  <2>1. PICK p \in Profiles : profile' = Rendered(p, section)
    BY <1>2 DEF Refetch
  <2> QED BY <1>2, <1>S, <2>1, ServerFacts, RenderedKeeps DEF Refetch, ui
<1>3. ASSUME NEW t \in Tags \cup {NoTag}, TypeTag(t) PROVE ObservationKept'
  <2> DEFINE checked == Shown.checked /\ ~profileTagHasDuplicateUsage(profile, t, Edited)
  <2>0. RowShown /\ section' = section /\ (profile' = profile \/ Patch(t, Shown.trait, checked, t))
    BY <1>3 DEF TypeTag
  <2>1. Shown.trait \in BOOLEAN /\ checked \in BOOLEAN
    BY <2>0, ShownFacts
  <2> HIDE DEF checked
  <2> QED BY <1>P, <1>U, <2>0, <2>1
<1>4. ASSUME ChangeTrait PROVE ObservationKept'
  <2> DEFINE form == IF section = "outbounds" \/ Adding THEN Shown.tag ELSE dialog.form
  <2>0. RowShown /\ section' = section /\ Patch(Shown.tag, ~Shown.trait, Shown.checked, form)
    BY <1>4 DEF ChangeTrait
  <2>1. /\ Shown.tag \in Tags \cup {NoTag} /\ (~Shown.trait) \in BOOLEAN
        /\ Shown.checked \in BOOLEAN /\ form \in Tags \cup {NoTag}
    BY <2>0, ShownFacts
  <2> HIDE DEF form
  <2> QED BY <1>P, <2>0, <2>1
<1>5. ASSUME NEW t \in Tags \cup {NoTag}, NEW uri \in BOOLEAN, ImportRow(t, uri) PROVE ObservationKept'
  <2> DEFINE form == IF uri \/ Adding THEN t ELSE dialog.form
             checked == Shown.checked /\ ~profileTagHasDuplicateUsage(profile, t, Edited)
  <2>0. RowShown /\ section' = section /\ Patch(t, Shown.trait, checked, form)
    BY <1>5 DEF ImportRow
  <2>1. Shown.trait \in BOOLEAN /\ checked \in BOOLEAN /\ form \in Tags \cup {NoTag}
    BY <2>0, ShownFacts
  <2> HIDE DEF form, checked
  <2> QED BY <1>P, <2>0, <2>1
<1>6. ASSUME CommitAdd PROVE ObservationKept'
  <2>1. section # "balancers" \/ \E q : profile' = ensureObservationForProfile(q) /\ q \in Profile
    <3> DEFINE row == [dialog.draft EXCEPT !.checked = TRUE, !.tag =
                         IF section \in {"outbounds", "balancers"} THEN dialog.form ELSE @]
               list == Append(rows, row)
    <3>1. dialog.draft \in Row /\ dialog.form \in Tags \cup {NoTag}
      BY <1>6 DEF CommitAdd, Adding, Typed, DialogOK, Dialog
    <3>2. row \in Row
      BY <3>1 DEF Row
    <3>3. section = "balancers" =>
             profile' = ensureObservationForProfile(UpdateRows(profile, section, list))
      BY <1>6 DEF CommitAdd
    <3> HIDE DEF row
    <3>4. list \in Seq(Row)
      BY <3>2, RowsFacts, AppendProperties
    <3> HIDE DEF list
    <3> QED BY <1>S, <3>3, <3>4, UpdateRowsFacts
  <2> QED BY <1>6, <2>1, ensureFacts DEF CommitAdd, ObservationKept
<1>7. ASSUME CommitEdit PROVE ObservationKept'
  <2> DEFINE row == [Shown EXCEPT !.checked = TRUE,
                                  !.tag = IF section = "outbounds" THEN dialog.form ELSE @]
             list == SetRow(rows, dialog.selected, row)
  <2>1. RowShown /\ ~Adding
    BY <1>7 DEF CommitEdit, CommitAllowed, Editing, Adding
  <2>2. Shown \in Row /\ dialog.form \in Tags \cup {NoTag} /\ dialog.selected \in 1..Len(rows)
    BY <2>1, ShownFacts
  <2>3. row \in Row
    BY <2>2 DEF Row
  <2>4. profile' = Rendered(UpdateRows(profile, section, list), section) /\ section' = section
    BY <1>7 DEF CommitEdit
  <2> HIDE DEF row
  <2>5. list \in Seq(Row)
    BY <2>2, <2>3, RowsFacts, SetRowFacts
  <2> HIDE DEF list
  <2> QED BY <1>S, <2>4, <2>5, UpdateRowsFacts, RenderedKeeps
<1>8. ASSUME NEW i \in DOMAIN rows, RemoveRow(i) PROVE ObservationKept'
  <2>1. DropRows(rows, {i}) \in Seq(Row)
    BY RowsFacts, DropRowsFacts
  <2> QED BY <1>8, <1>S, <2>1, UpdateRowsFacts, RenderedKeeps DEF RemoveRow
<1>9. ASSUME NEW i \in DOMAIN rows, NEW j \in DOMAIN rows, Reorder(i, j) PROVE ObservationKept'
  <2>1. i \in 1..Len(rows) /\ j \in 1..Len(rows) /\ rows \in Seq(Row) /\ rows # << >>
    BY RowsFacts, ListFacts
  <2>2. arrayMove(rows, i, j) \in Seq(Row)
    BY <2>1, arrayMoveFacts
  <2>3. profile'.sources = profile.sources
    BY <1>9, <1>S, <2>2, WithRowsFacts DEF Reorder
  <2> QED BY <1>9, <2>1, <2>3 DEF Reorder, ObservationKept, profileHasObservation
<1>10. ASSUME BulkRemove PROVE ObservationKept'
  <2>1. DropRows(rows, ticks) \in Seq(Row)
    BY RowsFacts, DropRowsFacts
  <2> QED BY <1>10, <1>S, <2>1, UpdateRowsFacts, RenderedKeeps DEF BulkRemove
<1>11. ASSUME commitObservationDraft PROVE ObservationKept'
  <2> DEFINE q == [profile EXCEPT !.sources = obsDraft]
  <2>1. q \in Profile
    BY <1>11, <1>S, WithSourcesFacts DEF commitObservationDraft, Typed, ScreenOK
  <2>2. profile' = Rendered(q, section) /\ section' = section
    BY <1>11 DEF commitObservationDraft
  <2> HIDE DEF q
  <2> QED BY <1>S, <2>1, <2>2, RenderedKeeps
<1>12. CASE \/ \E i \in DOMAIN rows : RowClick(i) \/ Tick(i)
            \/ \E t \in Tags \cup {NoTag} : BeginAdd(t)
            \/ ClearTicks \/ Cancel \/ Discard \/ KeepEditing
            \/ OpenObservationDialog \/ CloseObservationDialog
            \/ \E k \in Sources : ToggleSource(k) \/ \E c \in Picks : PickSubjects(k, c)
            \/ UNCHANGED vars
  BY <1>12, <1>U DEF RowClick, Tick, BeginAdd, ClearTicks, Cancel, Discard, KeepEditing,
     OpenObservationDialog, CloseObservationDialog, ToggleSource, PickSubjects, vars, ui
<1> QED
  BY <1>1, <1>2, <1>3, <1>4, <1>5, <1>6, <1>7, <1>8, <1>9, <1>10, <1>11, <1>12 DEF Next

\* While there is a balancer on the screen, a source observes the outbounds.
THEOREM BalancersAreObserved == Spec => []ObservationKept
<1>1. Init => Typed /\ ObservationKept
  <2> SUFFICES ASSUME Init PROVE ObservationKept
    BY TypedInit
  <2>1. PICK p \in Profiles : profile = Rendered(p, section)
    BY DEF Init
  <2>2. section \in Sections /\ p \in Profile
    BY ServerFacts DEF Init
  <2> QED BY <2>1, <2>2, RenderedFacts DEF ObservationKept, rows
<1>2. Typed /\ ObservationKept /\ [Next]_vars => (Typed /\ ObservationKept)'
  BY TypedStep, ObservationStep
<1> QED BY <1>1, <1>2, PTL DEF Spec

-----------------------------------------------------------------------------
(* Tags *)

\* Checked rows of p have different tags, by section and number.
Uniq(p) ==
    \A s, r \in Sections : \A i \in 1..Len(p.rows[s]), j \in 1..Len(p.rows[r]) :
        (s # r \/ i # j) /\ p.rows[s][i].checked /\ p.rows[r][j].checked
        /\ p.rows[s][i].tag # NoTag => p.rows[s][i].tag # p.rows[r][j].tag

\* No row but the i-th of section s has the tag.
FreeFor(p, t, s, i) ==
    \A r \in Sections : \A j \in 1..Len(p.rows[r]) :
        r # s \/ j # i => p.rows[r][j].tag # t

LEMMA PlacesFacts ==
    ASSUME NEW p, NEW x
    PROVE  x \in Places(p) <=> \E s \in Sections : \E i \in 1..Len(p.rows[s]) : x = <<s, i>>
BY DEF Places

LEMMA PlaceFacts ==
    ASSUME NEW p, NEW s \in Sections, NEW i \in 1..Len(p.rows[s])
    PROVE  <<s, i>> \in Places(p) /\ At(p, <<s, i>>) = p.rows[s][i]
BY DEF Places, At

LEMMA UniqFacts == TagsUnique <=> Uniq(profile)
<1>1. ASSUME TagsUnique PROVE Uniq(profile)
  <2> SUFFICES ASSUME NEW s \in Sections, NEW r \in Sections,
                      NEW i \in 1..Len(profile.rows[s]), NEW j \in 1..Len(profile.rows[r]),
                      s # r \/ i # j, profile.rows[s][i].tag # NoTag,
                      profile.rows[s][i].tag = profile.rows[r][j].tag
               PROVE  ~(profile.rows[s][i].checked /\ profile.rows[r][j].checked)
    BY DEF Uniq
  <2>1. <<s, i>> # <<r, j>>
    OBVIOUS
  <2>2. /\ <<s, i>> \in Places(profile) /\ At(profile, <<s, i>>) = profile.rows[s][i]
        /\ <<r, j>> \in Places(profile) /\ At(profile, <<r, j>>) = profile.rows[r][j]
    BY PlaceFacts
  <2>3. Collide(profile, <<s, i>>, <<r, j>>)
    BY <2>1, <2>2 DEF Collide
  <2>4. ~(At(profile, <<s, i>>).checked /\ At(profile, <<r, j>>).checked)
    BY <1>1, <2>2, <2>3 DEF TagsUnique
  <2> QED BY <2>2, <2>4
<1>2. ASSUME Uniq(profile) PROVE TagsUnique
  <2> SUFFICES ASSUME NEW x \in Places(profile), NEW y \in Places(profile), Collide(profile, x, y)
               PROVE  ~(At(profile, x).checked /\ At(profile, y).checked)
    BY DEF TagsUnique
  <2>1. PICK s \in Sections : \E i \in 1..Len(profile.rows[s]) : x = <<s, i>>
    BY PlacesFacts
  <2>1a. PICK i \in 1..Len(profile.rows[s]) : x = <<s, i>>
    BY <2>1
  <2>2. PICK r \in Sections : \E j \in 1..Len(profile.rows[r]) : y = <<r, j>>
    BY PlacesFacts
  <2>2a. PICK j \in 1..Len(profile.rows[r]) : y = <<r, j>>
    BY <2>2
  <2>3. At(profile, x) = profile.rows[s][i] /\ At(profile, y) = profile.rows[r][j]
    BY <2>1a, <2>2a, PlaceFacts
  <2>4. s # r \/ i # j
    BY <2>1a, <2>2a DEF Collide
  <2> QED BY <1>2, <2>3, <2>4 DEF Uniq, Collide
<1> QED BY <1>1, <1>2

\* A tag that is not refused is free, for an edit and for a new row.
LEMMA NotTakenIsFree ==
    ASSUME NEW p, NEW t, t # NoTag
    PROVE  /\ \A s, i : ~profileTagHasDuplicateUsage(p, t, <<s, i>>) => FreeFor(p, t, s, i)
           /\ Fits(p) /\ ~profileTagHasDuplicateUsage(p, t, None)
                 => \A r \in Sections : \A j \in 1..Len(p.rows[r]) : p.rows[r][j].tag # t
<1>1. ASSUME NEW s, NEW i, ~profileTagHasDuplicateUsage(p, t, <<s, i>>),
             NEW r \in Sections, NEW j \in 1..Len(p.rows[r]), r # s \/ j # i
      PROVE  p.rows[r][j].tag # t
  <2>1. <<r, j>> # <<s, i>>
    BY <1>1
  <2> QED BY <1>1, <2>1, PlaceFacts DEF profileTagHasDuplicateUsage
<1>2. ASSUME Fits(p), ~profileTagHasDuplicateUsage(p, t, None),
             NEW r \in Sections, NEW j \in 1..Len(p.rows[r])
      PROVE  p.rows[r][j].tag # t
  <2>1. j \in 1..MaxRows[r]
    BY <1>2, SettingsAssumption DEF Fits, MinRowCount
  <2>2. <<r, j>> # None
    BY <2>1, SettingsAssumption
  <2> QED BY <1>2, <2>2, PlaceFacts DEF profileTagHasDuplicateUsage
<1> QED BY <1>1, <1>2 DEF FreeFor

\* Whether a tag is refused depends on the tags of the lists only.
LEMMA TakenDepends ==
    ASSUME NEW p, NEW q, NEW t,
           \A s \in Sections : /\ Len(p.rows[s]) = Len(q.rows[s])
                               /\ \A i \in 1..Len(p.rows[s]) : p.rows[s][i].tag = q.rows[s][i].tag,
           profileTagHasDuplicateUsage(p, t, None)
    PROVE  profileTagHasDuplicateUsage(q, t, None)
<1>1. PICK x \in Places(p) : x # None /\ At(p, x).tag = t
  BY DEF profileTagHasDuplicateUsage
<1>2. PICK s \in Sections : \E i \in 1..Len(p.rows[s]) : x = <<s, i>>
  BY PlacesFacts
<1>2a. PICK i \in 1..Len(p.rows[s]) : x = <<s, i>>
  BY <1>2
<1>3. i \in 1..Len(q.rows[s]) /\ q.rows[s][i].tag = p.rows[s][i].tag
  OBVIOUS
<1>4. x \in Places(q) /\ At(q, x) = q.rows[s][i] /\ At(p, x) = p.rows[s][i]
  BY <1>2a, <1>3, PlaceFacts
<1> QED BY <1>1, <1>3, <1>4 DEF profileTagHasDuplicateUsage

\* A row is overwritten by one that keeps a checked tag or has a free one.
LEMMA UniqSet ==
    ASSUME NEW p \in Profile, NEW q, Uniq(p), NEW s \in Sections,
           NEW i \in 1..Len(p.rows[s]), NEW row \in Row,
           q.rows = [p.rows EXCEPT ![s] = SetRow(p.rows[s], i, row)],
           row.checked /\ row.tag # NoTag =>
              \/ p.rows[s][i].checked /\ p.rows[s][i].tag = row.tag
              \/ FreeFor(p, row.tag, s, i)
    PROVE  Uniq(q)
<1> DEFINE old == p.rows[s]
           list == SetRow(old, i, row)
<1>0. p.rows \in [Sections -> Seq(Row)] /\ old \in Seq(Row) /\ i \in 1..Len(old)
  BY ProfileFacts
<1>1. /\ Len(list) = Len(old)
      /\ \A j \in 1..Len(old) : list[j] = IF j = i THEN row ELSE old[j]
  <2> HIDE DEF old
  <2>1. Overwritten(SetRow(old, i, row), old, i, row)
    BY <1>0, SetRowOverwrites
  <2> HIDE DEF list
  <2>2. Overwritten(list, old, i, row)
    BY <2>1 DEF list
  <2> QED BY <2>2 DEF Overwritten
<1>2. \A r \in Sections : q.rows[r] = IF r = s THEN list ELSE p.rows[r]
  BY <1>0
<1> HIDE DEF list
<1>3. \A r \in Sections :
         /\ Len(q.rows[r]) = Len(p.rows[r])
         /\ \A j \in 1..Len(p.rows[r]) :
               q.rows[r][j] = IF r = s /\ j = i THEN row ELSE p.rows[r][j]
  BY <1>1, <1>2
<1>4. SUFFICES ASSUME NEW a \in Sections, NEW r \in Sections,
                      NEW k \in 1..Len(q.rows[a]), NEW j \in 1..Len(q.rows[r]),
                      a # r \/ k # j, q.rows[a][k].checked, q.rows[r][j].checked,
                      q.rows[a][k].tag # NoTag
               PROVE  q.rows[a][k].tag # q.rows[r][j].tag
  BY DEF Uniq
<1>5. k \in 1..Len(p.rows[a]) /\ j \in 1..Len(p.rows[r])
  BY <1>3
<1>6. CASE a = s /\ k = i
  <2>1. q.rows[a][k] = row /\ q.rows[r][j] = p.rows[r][j] /\ (r # s \/ j # i)
    BY <1>3, <1>4, <1>5, <1>6
  <2> QED BY <1>4, <1>5, <1>6, <2>1, SMTT(40) DEF Uniq, FreeFor
<1>7. CASE r = s /\ j = i /\ ~(a = s /\ k = i)
  <2>1. q.rows[r][j] = row /\ q.rows[a][k] = p.rows[a][k]
    BY <1>3, <1>5, <1>7
  <2> QED BY <1>4, <1>5, <1>7, <2>1 DEF Uniq, FreeFor
<1>8. CASE ~(a = s /\ k = i) /\ ~(r = s /\ j = i)
  <2>1. q.rows[r][j] = p.rows[r][j] /\ q.rows[a][k] = p.rows[a][k]
    BY <1>3, <1>5, <1>8
  <2> QED BY <1>4, <1>5, <2>1, SMTT(40) DEF Uniq
<1> QED BY <1>6, <1>7, <1>8

\* A row with a free tag is added.
LEMMA UniqAppend ==
    ASSUME NEW p \in Profile, NEW q, Uniq(p), NEW s \in Sections, NEW row \in Row,
           q.rows = [p.rows EXCEPT ![s] = Append(p.rows[s], row)],
           row.tag # NoTag =>
              \A r \in Sections : \A j \in 1..Len(p.rows[r]) : p.rows[r][j].tag # row.tag
    PROVE  Uniq(q)
<1> DEFINE list == Append(p.rows[s], row)
           n == Len(p.rows[s])
<1>0. p.rows \in [Sections -> Seq(Row)] /\ p.rows[s] \in Seq(Row)
  BY ProfileFacts
<1>1. /\ Len(list) = n + 1 /\ list[n + 1] = row /\ n \in Nat
      /\ \A j \in 1..n : list[j] = p.rows[s][j]
  BY <1>0, ListFacts, AppendProperties
<1>2. \A r \in Sections : q.rows[r] = IF r = s THEN list ELSE p.rows[r]
  BY <1>0
<1> HIDE DEF list
<1>3. \A r \in Sections : \A j \in 1..Len(q.rows[r]) :
         \/ j \in 1..Len(p.rows[r]) /\ q.rows[r][j] = p.rows[r][j]
         \/ r = s /\ j = n + 1 /\ q.rows[r][j] = row
  BY <1>1, <1>2
<1> QED BY <1>3, SMTT(40) DEF Uniq

\* Rows are dropped or moved.
LEMMA UniqInject ==
    ASSUME NEW p \in Profile, NEW q, Uniq(p), NEW s \in Sections, NEW list,
           q.rows = [p.rows EXCEPT ![s] = list], Drawn(list, p.rows[s])
    PROVE  Uniq(q)
<1>f. PICK f \in [1..Len(list) -> 1..Len(p.rows[s])] :
         /\ \A k \in 1..Len(list) : list[k] = p.rows[s][f[k]]
         /\ \A k, m \in 1..Len(list) : f[k] = f[m] => k = m
  BY DEF Drawn
<1>0. p.rows \in [Sections -> Seq(Row)]
  BY ProfileFacts
<1>1. \A r \in Sections : q.rows[r] = IF r = s THEN list ELSE p.rows[r]
  BY <1>0
<1> DEFINE Was(r, j) == IF r = s THEN f[j] ELSE j
<1>2. \A r \in Sections : \A j \in 1..Len(q.rows[r]) :
         Was(r, j) \in 1..Len(p.rows[r]) /\ q.rows[r][j] = p.rows[r][Was(r, j)]
  BY <1>1, <1>f
<1>3. \A r \in Sections : \A j, k \in 1..Len(q.rows[r]) : j # k => Was(r, j) # Was(r, k)
  BY <1>1, <1>f
<1> HIDE DEF Was
<1>4. SUFFICES ASSUME NEW a \in Sections, NEW r \in Sections,
                      NEW k \in 1..Len(q.rows[a]), NEW j \in 1..Len(q.rows[r]),
                      a # r \/ k # j, q.rows[a][k].checked, q.rows[r][j].checked,
                      q.rows[a][k].tag # NoTag
               PROVE  q.rows[a][k].tag # q.rows[r][j].tag
  BY DEF Uniq
<1>5. /\ Was(a, k) \in 1..Len(p.rows[a]) /\ q.rows[a][k] = p.rows[a][Was(a, k)]
      /\ Was(r, j) \in 1..Len(p.rows[r]) /\ q.rows[r][j] = p.rows[r][Was(r, j)]
  BY <1>2
<1>6. a # r \/ Was(a, k) # Was(r, j)
  BY <1>3, <1>4
<1> DEFINE x == Was(a, k)
           y == Was(r, j)
<1> HIDE DEF x, y
<1>7. /\ x \in 1..Len(p.rows[a]) /\ q.rows[a][k] = p.rows[a][x]
      /\ y \in 1..Len(p.rows[r]) /\ q.rows[r][j] = p.rows[r][y]
      /\ a # r \/ x # y
  BY <1>5, <1>6 DEF x, y
<1>8. p.rows[a][x].checked /\ p.rows[r][y].checked /\ p.rows[a][x].tag # NoTag
         => p.rows[a][x].tag # p.rows[r][y].tag
  BY <1>7 DEF Uniq
<1> QED BY <1>4, <1>7, <1>8

\* Every inbound has been checked.
AllChecked(p) ==
    "inbounds" \in Sections => \A i \in 1..Len(p.rows["inbounds"]) : p.rows["inbounds"][i].checked

\* The form of a balancer shows the tag that was written without a check.
FormShown ==
    section = "balancers" /\ Editing /\ RowShown /\ ~Shown.checked => Shown.tag = dialog.form

Tagged == Uniq(profile) /\ AllChecked(profile) /\ FormShown /\ AddedIsForm

LEMMA CheckedStep ==
    ASSUME NEW p \in Profile, NEW q, NEW s \in Sections, NEW list,
           q.rows = [p.rows EXCEPT ![s] = list], AllChecked(p),
           s = "inbounds" => \A i \in 1..Len(list) : list[i].checked
    PROVE  AllChecked(q)
<1>0. p.rows \in [Sections -> Seq(Row)]
  BY ProfileFacts
<1>1. \A r \in Sections : q.rows[r] = IF r = s THEN list ELSE p.rows[r]
  BY <1>0
<1> QED BY <1>1 DEF AllChecked

\* A tag is known to be good before a checked row is written with it.
Vetted(tag, checked, i) ==
    checked /\ tag # NoTag =>
        \/ rows[i].checked /\ rows[i].tag = tag
        \/ FreeFor(profile, tag, section, i)

\* The lists after row i of the section on the screen is overwritten.
LEMMA TagsSet ==
    ASSUME Typed, Tagged, NEW i \in 1..Len(rows), NEW row \in Row,
           profile'.rows = [profile.rows EXCEPT ![section] = SetRow(rows, i, row)],
           Vetted(row.tag, row.checked, i), section = "inbounds" => row.checked
    PROVE  Uniq(profile)' /\ AllChecked(profile)'
<1>1. profile \in Profile /\ section \in Sections /\ rows = profile.rows[section]
  BY DEF Typed, ListsOK, ScreenOK, rows
<1>2. Uniq(profile')
  BY <1>1, UniqSet DEF Tagged, Vetted
<1>3. SetRow(rows, i, row) \in Seq(Row) /\ Len(SetRow(rows, i, row)) = Len(rows)
      /\ \A j \in 1..Len(rows) : SetRow(rows, i, row)[j] = IF j = i THEN row ELSE rows[j]
  <2>1. rows \in Seq(Row)
    BY RowsFacts
  <2>2. Overwritten(SetRow(rows, i, row), rows, i, row)
    BY <2>1, SetRowOverwrites
  <2> QED BY <2>2 DEF Overwritten
<1>4. section = "inbounds" => \A j \in 1..Len(rows) : rows[j].checked
  BY <1>1 DEF Tagged, AllChecked
<1>5. section = "inbounds" => \A j \in 1..Len(SetRow(rows, i, row)) : SetRow(rows, i, row)[j].checked
  BY <1>3, <1>4
<1>6. AllChecked(profile')
  BY <1>1, <1>5, CheckedStep DEF Tagged
<1> QED BY <1>2, <1>6 DEF Uniq, AllChecked

\* The lists after rows are dropped or moved.
LEMMA TagsInject ==
    ASSUME Typed, Tagged, NEW list, Drawn(list, rows),
           profile'.rows = [profile.rows EXCEPT ![section] = list]
    PROVE  Uniq(profile)' /\ AllChecked(profile)'
<1>1. profile \in Profile /\ section \in Sections /\ rows = profile.rows[section]
  BY DEF Typed, ListsOK, ScreenOK, rows
<1>2. Uniq(profile')
  BY <1>1, UniqInject DEF Tagged
<1>3. section = "inbounds" => \A j \in 1..Len(rows) : rows[j].checked
  BY <1>1 DEF Tagged, AllChecked
<1>4. section = "inbounds" => \A k \in 1..Len(list) : list[k].checked
  BY <1>3 DEF Drawn
<1>5. AllChecked(profile')
  BY <1>1, <1>4, CheckedStep DEF Tagged
<1> QED BY <1>2, <1>5 DEF Uniq, AllChecked

\* A change of the dialog's row.
LEMMA TagsPatch ==
    ASSUME Typed, Tagged, RowShown,
           NEW tag \in Tags \cup {NoTag}, NEW trait \in BOOLEAN, NEW checked \in BOOLEAN,
           NEW form \in Tags \cup {NoTag}, Patch(tag, trait, checked, form), section' = section,
           ~Adding => Vetted(tag, checked, dialog.selected),
           ~Adding /\ section = "inbounds" => checked,
           ~Adding /\ section = "balancers" /\ ~checked => tag = form,
           Adding /\ section = "inbounds" => tag = form
    PROVE  Tagged'
<1> DEFINE row == [tag |-> tag, trait |-> trait, checked |-> checked]
<1>1. /\ dialog # None /\ dialog \in Dialog
      /\ ~Adding => Editing /\ dialog.selected \in 1..Len(rows)
  BY ShownFacts
<1>2. CASE Adding
  <2> DEFINE draft == [dialog.draft EXCEPT !.tag = tag, !.trait = trait]
  <2>1. dialog' = [dialog EXCEPT !.draft = draft, !.form = form] /\ profile' = profile
    BY <1>2 DEF Patch
  <2>2. dialog.draft \in Row /\ dialog.mode = "add"
    BY <1>1, <1>2 DEF Typed, DialogOK, Adding
  <2>3. draft.tag = tag
    BY <2>2 DEF Row
  <2> HIDE DEF draft
  <2>4. dialog'.mode = "add" /\ dialog'.draft = draft /\ dialog'.form = form
    BY <1>1, <2>1, <2>2 DEF Dialog
  <2>5. FormShown' /\ AddedIsForm'
    BY <1>2, <2>3, <2>4 DEF FormShown, AddedIsForm, Editing, Adding
  <2>6. Uniq(profile)' /\ AllChecked(profile)'
    BY <2>1 DEF Tagged, Uniq, AllChecked
  <2> QED BY <2>5, <2>6 DEF Tagged
<1>3. CASE ~Adding
  <2> DEFINE list == SetRow(rows, dialog.selected, row)
  <2>0. row \in Row /\ row.tag = tag /\ row.checked = checked
    BY DEF Row
  <2>1. dialog' = [dialog EXCEPT !.form = form] /\ profile' = Rendered(UpdateRows(profile, section, list), section)
    BY <1>3 DEF Patch
  <2> HIDE DEF row
  <2>2. /\ list \in Seq(Row) /\ Len(list) = Len(rows)
        /\ \A j \in 1..Len(rows) : list[j] = IF j = dialog.selected THEN row ELSE rows[j]
    <3> DEFINE i == dialog.selected
    <3>1. rows \in Seq(Row) /\ i \in 1..Len(rows)
      BY <1>1, <1>3, RowsFacts
    <3> HIDE DEF i
    <3>2. /\ SetRow(rows, i, row) \in Seq(Row) /\ Len(SetRow(rows, i, row)) = Len(rows)
          /\ \A j \in 1..Len(rows) : SetRow(rows, i, row)[j] = IF j = i THEN row ELSE rows[j]
      <4>1. Overwritten(SetRow(rows, i, row), rows, i, row)
        BY <2>0, <3>1, SetRowOverwrites
      <4> QED BY <4>1 DEF Overwritten
    <3> QED BY <3>2 DEF i
  <2>3. /\ profile \in Profile /\ section \in Sections
    BY DEF Typed, ListsOK, ScreenOK
  <2>4. profile'.rows = [profile.rows EXCEPT ![section] = list]
    <3> HIDE DEF list
    <3> QED BY <2>1, <2>2, <2>3, RenderedUpdateFacts
  <2>5. Uniq(profile)' /\ AllChecked(profile)'
    BY <1>1, <1>3, <2>0, <2>4, TagsSet
  <2> HIDE DEF list
  <2>6. rows' = list
    BY <2>3, <2>4, ProfileFacts DEF rows
  <2>7. /\ dialog'.mode = "edit" /\ dialog'.selected = dialog.selected /\ dialog'.form = form
    BY <1>1, <1>3, <2>1 DEF Dialog, Editing
  <2>8. ~Adding' /\ Shown' = row
    BY <1>1, <1>3, <2>2, <2>6, <2>7 DEF Adding, Shown
  <2>9. FormShown' /\ AddedIsForm'
    BY <1>3, <2>0, <2>7, <2>8 DEF FormShown, AddedIsForm
  <2> QED BY <2>5, <2>9 DEF Tagged
<1> QED BY <1>2, <1>3

\* The profiles of the server have been checked.
LEMMA ServerTags ==
    ASSUME NEW p \in Profiles
    PROVE  /\ Uniq(p)
           /\ \A s \in Sections : \A i \in 1..Len(p.rows[s]) : p.rows[s][i].checked
<1>1. ASSUME NEW s \in Sections, NEW i \in 1..Len(p.rows[s]) PROVE p.rows[s][i].checked
  BY PlaceFacts, ProfilesAssumption
<1>2. ASSUME NEW s \in Sections, NEW r \in Sections,
             NEW i \in 1..Len(p.rows[s]), NEW j \in 1..Len(p.rows[r]),
             s # r \/ i # j, p.rows[s][i].tag # NoTag
      PROVE  p.rows[s][i].tag # p.rows[r][j].tag
  <2>1. <<s, i>> # <<r, j>>
    BY <1>2
  <2>2. /\ <<s, i>> \in Places(p) /\ At(p, <<s, i>>) = p.rows[s][i]
        /\ <<r, j>> \in Places(p) /\ At(p, <<r, j>>) = p.rows[r][j]
    BY PlaceFacts
  <2>3. ~Collide(p, <<s, i>>, <<r, j>>)
    BY <2>2, ProfilesAssumption
  <2> QED BY <1>2, <2>1, <2>2, <2>3 DEF Collide
<1> QED BY <1>1, <1>2 DEF Uniq

\* Core data that others have not changed brings the same tags.
LEMMA RefetchSameTags ==
    ASSUME NobodyElse, "inbounds" \in Sections, Typed, Refetch
    PROVE  \A s \in Sections :
              /\ Len(profile.rows[s]) = Len(profile'.rows[s])
              /\ \A i \in 1..Len(profile.rows[s]) : profile.rows[s][i].tag = profile'.rows[s][i].tag
<1>1. PICK q \in Profiles : SameProfile(profile, q)
  BY DEF Refetch
<1>2. PICK p \in Profiles : profile' = Rendered(p, section)
  BY DEF Refetch
<1>3. SameProfile(q, p) /\ profile'.rows = p.rows
  BY <1>2, ServerFacts DEF NobodyElse, Typed, ScreenOK
<1> SUFFICES ASSUME NEW s \in Sections
             PROVE  /\ Len(profile.rows[s]) = Len(p.rows[s])
                    /\ \A i \in 1..Len(profile.rows[s]) : profile.rows[s][i].tag = p.rows[s][i].tag
  BY <1>3
<1>4. /\ DOMAIN profile.rows[s] = 1..Len(profile.rows[s])
      /\ DOMAIN q.rows[s] = 1..Len(q.rows[s])
  <2>1. profile \in Profile /\ q \in Profile
    BY ServerFacts, ProfilesAssumption DEF Typed, ListsOK
  <2>2. profile.rows[s] \in Seq(Row) /\ q.rows[s] \in Seq(Row)
    BY <2>1, ProfileFacts
  <2> QED BY <2>2, ListFacts
<1> QED BY <1>1, <1>3, <1>4 DEF SameProfile, Same

\* Every step keeps the tags of checked rows apart.
LEMMA TaggedStep ==
    ASSUME NobodyElse, Typed, Tagged, [Next]_vars
    PROVE  Tagged'
<1>S. section \in Sections /\ profile \in Profile /\ Fits(profile) /\ rows = profile.rows[section]
  BY DEF Typed, ListsOK, ScreenOK, rows
<1>C. dialog' = None => FormShown' /\ AddedIsForm'
  BY DEF FormShown, AddedIsForm, Editing, Adding
<1>R. profile'.rows = profile.rows => Uniq(profile)' /\ AllChecked(profile)'
  BY DEF Tagged, Uniq, AllChecked
<1>U. UNCHANGED <<profile, section, dialog>> => Tagged'
  BY DEF Tagged, Uniq, AllChecked, FormShown, AddedIsForm, Editing, Adding, RowShown, Shown, rows
<1>F. ASSUME RowShown, ~Adding
      PROVE  /\ Edited = <<section, dialog.selected>> /\ Shown = rows[dialog.selected]
             /\ dialog.selected \in 1..Len(rows)
             /\ section = "inbounds" => Shown.checked
  <2>1. Editing /\ dialog.selected \in 1..Len(rows)
    BY <1>F, ShownFacts
  <2>2. Edited = <<section, dialog.selected>> /\ Shown = rows[dialog.selected]
    BY <1>F, <2>1 DEF Edited, Shown
  <2> QED BY <1>S, <2>1, <2>2 DEF Tagged, AllChecked
<1>1. ASSUME NEW s \in Sections, ChangeSection(s) PROVE Tagged'
  <2>1. profile'.rows = profile.rows /\ dialog' = None
    BY <1>1, <1>S, RenderedFacts DEF ChangeSection
  <2> QED BY <1>C, <1>R, <2>1 DEF Tagged
<1>2. ASSUME Refetch PROVE Tagged'
  <2>1. PICK p \in Profiles : profile' = Rendered(p, section)
    BY <1>2 DEF Refetch
  <2>2. profile'.rows = p.rows /\ UNCHANGED <<dialog, section>> /\ p \in Profile
    BY <1>2, <1>S, <2>1, ServerFacts DEF Refetch, ui
  <2>3. Uniq(profile)' /\ AllChecked(profile)'
    BY <2>2, ServerTags DEF Uniq, AllChecked
  <2>4. FormShown'
    <3>1. \A i \in 1..Len(rows') : rows'[i].checked
      BY <1>S, <2>2, ServerTags DEF rows
    <3>2. Typed'
      BY TypedStep
    <3>3. RowShown' /\ ~Adding' => Shown' = rows'[dialog'.selected] /\ dialog'.selected \in 1..Len(rows')
      <4>1. RowShown' /\ ~Adding' => Editing' /\ dialog' # None
        BY DEF RowShown, Editing
      <4>2. Len(rows') \in Nat
        BY <1>S, <2>2, ProfileFacts, ListFacts DEF rows
      <4>3. dialog' # None => dialog'.selected \in Nat /\ (dialog'.mode = "edit" => dialog'.selected # 0)
        BY <3>2 DEF Typed, DialogOK, Dialog
      <4> QED BY <4>1, <4>2, <4>3 DEF RowShown, Editing, Shown
    <3>4. Editing' => ~Adding'
      BY DEF Editing, Adding
    <3> QED BY <3>1, <3>3, <3>4 DEF FormShown
  <2>5. AddedIsForm'
    <3> SUFFICES ASSUME section = "inbounds", Adding, dialog.draft.tag # dialog.form
                 PROVE  profileTagHasDuplicateUsage(profile', dialog.form, None)
      BY <2>2 DEF AddedIsForm, Adding
    <3>1. profileTagHasDuplicateUsage(profile, dialog.form, None)
      BY DEF Tagged, AddedIsForm
    <3> QED BY <1>2, <1>S, <3>1, RefetchSameTags, TakenDepends
  <2> QED BY <2>3, <2>4, <2>5 DEF Tagged
<1>3. ASSUME NEW t \in Tags \cup {NoTag}, TypeTag(t) PROVE Tagged'
  <2> DEFINE taken == profileTagHasDuplicateUsage(profile, t, Edited)
             checked == Shown.checked /\ ~taken
  <2>0. /\ RowShown /\ section' = section
        /\ IF section \in {"inbounds", "outbounds"} /\ taken
           THEN dialog' = [dialog EXCEPT !.form = t] /\ UNCHANGED profile
           ELSE Patch(t, Shown.trait, checked, t)
    BY <1>3 DEF TypeTag
  <2>1. Shown.trait \in BOOLEAN /\ checked \in BOOLEAN /\ dialog # None /\ dialog \in Dialog
    BY <2>0, ShownFacts
  <2>2. CASE section \in {"inbounds", "outbounds"} /\ taken
    <3>1. dialog'.mode = dialog.mode /\ dialog'.form = t
      BY <2>0, <2>1, <2>2 DEF Dialog
    <3>2. Adding => profileTagHasDuplicateUsage(profile, t, None)
      BY <2>2 DEF Edited, Adding, Editing
    <3>3. AddedIsForm' /\ FormShown'
      BY <2>0, <2>1, <2>2, <3>1, <3>2 DEF AddedIsForm, FormShown, Adding
    <3> QED BY <1>R, <2>0, <2>2, <3>3 DEF Tagged
  <2>3. CASE ~(section \in {"inbounds", "outbounds"} /\ taken)
    <3>1. Patch(t, Shown.trait, checked, t)
      BY <2>0, <2>3
    <3>2. ~Adding => Vetted(t, checked, dialog.selected)
      BY <1>F, <2>0, NotTakenIsFree DEF Vetted
    <3>3. ~Adding /\ section = "inbounds" => checked
      BY <1>F, <2>0, <2>3
    <3> HIDE DEF checked
    <3> QED BY <2>0, <2>1, <3>1, <3>2, <3>3, TagsPatch
  <2> QED BY <2>2, <2>3
<1>4. ASSUME ChangeTrait PROVE Tagged'
  <2> DEFINE form == IF section = "outbounds" \/ Adding THEN Shown.tag ELSE dialog.form
  <2>0. RowShown /\ section' = section /\ Patch(Shown.tag, ~Shown.trait, Shown.checked, form)
    BY <1>4 DEF ChangeTrait
  <2>1. /\ Shown.tag \in Tags \cup {NoTag} /\ (~Shown.trait) \in BOOLEAN
        /\ Shown.checked \in BOOLEAN /\ form \in Tags \cup {NoTag}
    BY <2>0, ShownFacts
  <2>2. ~Adding => Vetted(Shown.tag, Shown.checked, dialog.selected)
    BY <1>F, <2>0 DEF Vetted
  <2>3. ~Adding /\ section = "inbounds" => Shown.checked
    BY <1>F, <2>0
  <2>4. ~Adding /\ section = "balancers" /\ ~Shown.checked => Shown.tag = form
    BY <2>0, ShownFacts DEF Tagged, FormShown
  <2>5. Adding => Shown.tag = form
    OBVIOUS
  <2> HIDE DEF form
  <2> QED BY <2>0, <2>1, <2>2, <2>3, <2>4, <2>5, TagsPatch
<1>5. ASSUME NEW t \in Tags \cup {NoTag}, NEW uri \in BOOLEAN, ImportRow(t, uri) PROVE Tagged'
  <2> DEFINE form == IF uri \/ Adding THEN t ELSE dialog.form
             checked == Shown.checked /\ ~profileTagHasDuplicateUsage(profile, t, Edited)
  <2>0. RowShown /\ section' = section /\ section = "outbounds" /\ Patch(t, Shown.trait, checked, form)
    BY <1>5 DEF ImportRow
  <2>1. Shown.trait \in BOOLEAN /\ checked \in BOOLEAN /\ form \in Tags \cup {NoTag}
    BY <2>0, ShownFacts
  <2>2. ~Adding => Vetted(t, checked, dialog.selected)
    BY <1>F, <2>0, NotTakenIsFree DEF Vetted
  <2> HIDE DEF form, checked
  <2> QED BY <2>0, <2>1, <2>2, TagsPatch
<1>6. ASSUME CommitAdd PROVE Tagged'
  <2> DEFINE tag == IF section \in {"outbounds", "balancers"} THEN dialog.form ELSE dialog.draft.tag
             row == [dialog.draft EXCEPT !.checked = TRUE, !.tag = tag]
             list == Append(rows, row)
             u == UpdateRows(profile, section, list)
  <2>1. /\ dialog # None /\ dialog.draft \in Row /\ dialog.form \in Tags \cup {NoTag}
        /\ dialog.draft.tag \in Tags \cup {NoTag} /\ tag \in Tags \cup {NoTag}
    BY <1>6 DEF CommitAdd, Adding, Typed, DialogOK, Dialog, Row
  <2>2. /\ profile' = IF section = "balancers" THEN ensureObservationForProfile(u) ELSE u
        /\ dialog' = None
    BY <1>6 DEF CommitAdd, finalizeDetailClose
  <2>3. ~profileTagHasDuplicateUsage(profile, tag, None)
    <3>1. Edited = None /\ Shown = dialog.draft
      BY <1>6 DEF CommitAdd, Adding, Edited, Editing, Shown
    <3>2. ~profileTagHasDuplicateUsage(profile, IF section = "routing" THEN dialog.draft.tag ELSE dialog.form, None)
      BY <1>6, <3>1 DEF CommitAdd, CommitAllowed, TagToCheck
    <3>3. section = "inbounds" => dialog.draft.tag = dialog.form
      BY <1>6, <3>2 DEF CommitAdd, Tagged, AddedIsForm
    <3> QED BY <1>S, <3>2, <3>3, SettingsAssumption
  <2> HIDE DEF tag
  <2>4. row \in Row /\ row.tag = tag /\ row.checked
    BY <2>1 DEF Row
  <2> HIDE DEF row
  <2>5. list \in Seq(Row)
    BY <2>4, RowsFacts, AppendProperties
  <2>6. u \in Profile /\ u.rows = [profile.rows EXCEPT ![section] = list]
    <3> HIDE DEF list
    <3> QED BY <1>S, <2>5, UpdateRowsFacts
  <2>7. profile'.rows = [profile.rows EXCEPT ![section] = Append(rows, row)]
    <3> HIDE DEF u
    <3> QED BY <2>2, <2>6, ensureFacts
  <2> HIDE DEF u
  <2>8. row.tag # NoTag =>
           \A r \in Sections : \A j \in 1..Len(profile.rows[r]) : profile.rows[r][j].tag # row.tag
    BY <1>S, <2>3, <2>4, NotTakenIsFree
  <2>9. Uniq(profile')
    BY <1>S, <2>4, <2>7, <2>8, UniqAppend DEF Tagged
  <2>10. section = "inbounds" => \A i \in 1..Len(list) : list[i].checked
    <3>1. /\ Len(list) = Len(rows) + 1 /\ list[Len(rows) + 1] = row
          /\ \A i \in 1..Len(rows) : list[i] = rows[i]
      BY <2>4, RowsFacts, AppendProperties
    <3>2. section = "inbounds" => \A i \in 1..Len(rows) : rows[i].checked
      BY <1>S DEF Tagged, AllChecked
    <3>3. Len(rows) \in Nat
      BY RowsFacts
    <3> HIDE DEF list
    <3> QED BY <2>4, <3>1, <3>2, <3>3
  <2>11. AllChecked(profile')
    BY <1>S, <2>7, <2>10, CheckedStep DEF Tagged
  <2> QED BY <1>C, <2>2, <2>9, <2>11 DEF Tagged, Uniq, AllChecked
<1>7. ASSUME CommitEdit PROVE Tagged'
  <2> DEFINE tag == IF section = "outbounds" THEN dialog.form ELSE Shown.tag
             row == [Shown EXCEPT !.checked = TRUE, !.tag = tag]
             list == SetRow(rows, dialog.selected, row)
  <2>1. RowShown /\ ~Adding /\ Editing
    BY <1>7 DEF CommitEdit, CommitAllowed, Editing, Adding
  <2>2. /\ Shown \in Row /\ dialog.form \in Tags \cup {NoTag} /\ dialog.selected \in 1..Len(rows)
        /\ Shown.tag \in Tags \cup {NoTag}
    BY <2>1, ShownFacts
  <2>3. /\ profile' = Rendered(UpdateRows(profile, section, list), section) /\ dialog' = None
    BY <1>7 DEF CommitEdit, finalizeDetailClose
  <2>4. Vetted(tag, TRUE, dialog.selected)
    <3>1. ~profileTagHasDuplicateUsage(profile, IF section = "routing" THEN Shown.tag ELSE dialog.form,
                                       <<section, dialog.selected>>)
      BY <1>7, <1>F, <2>1 DEF CommitEdit, CommitAllowed, TagToCheck
    <3>2. CASE section \in {"outbounds", "routing"}
      BY <3>1, <3>2, NotTakenIsFree DEF Vetted
    <3>3. CASE section \notin {"outbounds", "routing"} /\ Shown.checked
      BY <1>F, <2>1, <3>3 DEF Vetted
    <3>4. CASE section \notin {"outbounds", "routing"} /\ ~Shown.checked
      <4>1. section = "balancers"
        BY <1>F, <1>S, <2>1, <3>4, SettingsAssumption
      <4>2. Shown.tag = dialog.form
        BY <2>1, <3>4, <4>1 DEF Tagged, FormShown
      <4> QED BY <3>1, <4>1, <4>2, NotTakenIsFree DEF Vetted
    <3> QED BY <3>2, <3>3, <3>4
  <2>5. tag \in Tags \cup {NoTag}
    BY <2>2
  <2> HIDE DEF tag
  <2>6. row \in Row /\ row.tag = tag /\ row.checked
    BY <2>2, <2>5 DEF Row
  <2> HIDE DEF row
  <2>7. list \in Seq(Row)
    <3>1. rows \in Seq(Row)
      BY RowsFacts
    <3> DEFINE i == dialog.selected
    <3>2. i \in 1..Len(rows)
      BY <2>2
    <3> HIDE DEF i
    <3>3. SetRow(rows, i, row) \in Seq(Row)
      BY <2>6, <3>1, <3>2, SetRowFacts
    <3> QED BY <3>3 DEF i
  <2>8. profile'.rows = [profile.rows EXCEPT ![section] = list]
    <3> HIDE DEF list
    <3> QED BY <1>S, <2>3, <2>7, RenderedUpdateFacts
  <2>9. Vetted(row.tag, row.checked, dialog.selected)
    BY <2>4, <2>6 DEF Vetted
  <2>10. Uniq(profile)' /\ AllChecked(profile)'
    BY <2>2, <2>6, <2>8, <2>9, TagsSet
  <2> QED BY <1>C, <2>3, <2>10 DEF Tagged
<1>8. ASSUME NEW i \in DOMAIN rows, RemoveRow(i) PROVE Tagged'
  <2> DEFINE list == DropRows(rows, {i})
  <2>1. list \in Seq(Row) /\ Drawn(list, rows)
    BY RowsFacts, DropRowsFacts
  <2>2. profile' = Rendered(UpdateRows(profile, section, list), section) /\ dialog' = None
    BY <1>8 DEF RemoveRow, TableFree
  <2> HIDE DEF list
  <2>3. profile'.rows = [profile.rows EXCEPT ![section] = list]
    BY <1>S, <2>1, <2>2, RenderedUpdateFacts
  <2> QED BY <1>C, <2>1, <2>2, <2>3, TagsInject DEF Tagged
<1>9. ASSUME NEW i \in DOMAIN rows, NEW j \in DOMAIN rows, Reorder(i, j) PROVE Tagged'
  <2> DEFINE list == arrayMove(rows, i, j)
  <2>0. i \in 1..Len(rows) /\ j \in 1..Len(rows) /\ rows \in Seq(Row)
    BY RowsFacts
  <2>1. list \in Seq(Row) /\ Drawn(list, rows)
    BY <2>0, arrayMoveFacts
  <2>2. profile' = WithRows(profile, section, list) /\ dialog' = None
    BY <1>9 DEF Reorder, TableFree
  <2> HIDE DEF list
  <2>3. profile'.rows = [profile.rows EXCEPT ![section] = list]
    BY <1>S, <2>1, <2>2, WithRowsFacts
  <2> QED BY <1>C, <2>1, <2>2, <2>3, TagsInject DEF Tagged
<1>10. ASSUME BulkRemove PROVE Tagged'
  <2> DEFINE list == DropRows(rows, ticks)
  <2>1. list \in Seq(Row) /\ Drawn(list, rows)
    BY RowsFacts, DropRowsFacts
  <2>2. profile' = Rendered(UpdateRows(profile, section, list), section) /\ dialog' = None
    BY <1>10 DEF BulkRemove, TableFree
  <2> HIDE DEF list
  <2>3. profile'.rows = [profile.rows EXCEPT ![section] = list]
    BY <1>S, <2>1, <2>2, RenderedUpdateFacts
  <2> QED BY <1>C, <2>1, <2>2, <2>3, TagsInject DEF Tagged
<1>11. ASSUME commitObservationDraft PROVE Tagged'
  <2> DEFINE q == [profile EXCEPT !.sources = obsDraft]
  <2>1. q \in Profile /\ q.rows = profile.rows
    BY <1>11, <1>S, WithSourcesFacts DEF commitObservationDraft, Typed, ScreenOK
  <2>2. profile' = Rendered(q, section) /\ UNCHANGED <<dialog, section>>
    BY <1>11 DEF commitObservationDraft
  <2> HIDE DEF q
  <2>3. profile'.rows = profile.rows
    BY <1>S, <2>1, <2>2, RenderedFacts
  <2>4. rows' = rows
    BY <2>2, <2>3 DEF rows
  <2>5. FormShown'
    BY <2>2, <2>4 DEF Tagged, FormShown, Editing, Adding, RowShown, Shown
  <2>6. AddedIsForm'
    <3> SUFFICES ASSUME section = "inbounds", Adding, dialog.draft.tag # dialog.form
                 PROVE  profileTagHasDuplicateUsage(profile', dialog.form, None)
      BY <2>2 DEF AddedIsForm, Adding
    <3>1. profileTagHasDuplicateUsage(profile, dialog.form, None)
      BY DEF Tagged, AddedIsForm
    <3> QED BY <2>3, <3>1, TakenDepends
  <2> QED BY <1>R, <2>3, <2>5, <2>6 DEF Tagged
<1>12. ASSUME NEW i \in DOMAIN rows, RowClick(i) PROVE Tagged'
  <2>1. UNCHANGED <<profile, section>>
    BY <1>12 DEF RowClick
  <2>2. dialog'.mode = "edit" /\ dialog'.selected = i /\ dialog'.form = rows[i].tag
    BY <1>12 DEF RowClick, OpenDialog
  <2>3. rows' = rows
    BY <2>1 DEF rows
  <2>4. FormShown' /\ AddedIsForm'
    BY <2>2, <2>3 DEF FormShown, AddedIsForm, Adding, Shown
  <2> QED BY <1>R, <2>1, <2>4 DEF Tagged
<1>13. ASSUME NEW t \in Tags \cup {NoTag}, BeginAdd(t) PROVE Tagged'
  <2>1. UNCHANGED <<profile, section>>
    BY <1>13 DEF BeginAdd
  <2>2. dialog'.mode = "add" /\ dialog'.draft.tag = t /\ dialog'.form = t
    BY <1>13 DEF BeginAdd, OpenDialog
  <2>3. FormShown' /\ AddedIsForm'
    BY <2>2 DEF FormShown, AddedIsForm, Editing
  <2> QED BY <1>R, <2>1, <2>3 DEF Tagged
<1>14. ASSUME NEW b \in BOOLEAN, dialog # None, dialog' = [dialog EXCEPT !.asking = b],
              UNCHANGED <<profile, section>>
       PROVE  Tagged'
  <2>1. /\ dialog'.mode = dialog.mode /\ dialog'.selected = dialog.selected
        /\ dialog'.draft = dialog.draft /\ dialog'.form = dialog.form
    BY <1>14 DEF Typed, DialogOK, Dialog
  <2>2. rows' = rows
    BY <1>14 DEF rows
  <2>3. FormShown' /\ AddedIsForm'
    BY <1>14, <2>1, <2>2 DEF Tagged, FormShown, AddedIsForm, Editing, Adding, RowShown, Shown
  <2> QED BY <1>R, <1>14, <2>3 DEF Tagged
<1>15. ASSUME Cancel PROVE Tagged'
  BY <1>15, <1>14, <1>C, <1>R DEF Cancel, finalizeDetailClose, Tagged
<1>16. ASSUME Discard \/ KeepEditing PROVE Tagged'
  BY <1>16, <1>14, <1>C, <1>R DEF Discard, KeepEditing, Answering, finalizeDetailClose, Tagged
<1>17. CASE \/ \E i \in DOMAIN rows : Tick(i)
            \/ ClearTicks \/ OpenObservationDialog \/ CloseObservationDialog
            \/ \E k \in Sources : ToggleSource(k) \/ \E c \in Picks : PickSubjects(k, c)
            \/ UNCHANGED vars
  BY <1>17, <1>U DEF Tick, ClearTicks,
     OpenObservationDialog, CloseObservationDialog, ToggleSource, PickSubjects, vars, ui
<1> QED
  BY <1>1, <1>2, <1>3, <1>4, <1>5, <1>6, <1>7, <1>8, <1>9, <1>10, <1>11, <1>12, <1>13, <1>15,
     <1>16, <1>17 DEF Next

LEMMA TaggedInit == Init => Tagged
<1> SUFFICES ASSUME Init PROVE Tagged
  OBVIOUS
<1>1. PICK p \in Profiles : profile = Rendered(p, section)
  BY DEF Init
<1>2. profile.rows = p.rows
  BY <1>1, ServerFacts DEF Init
<1>3. Uniq(profile) /\ AllChecked(profile)
  BY <1>2, ServerTags DEF Uniq, AllChecked
<1> QED BY <1>3 DEF Init, Tagged, FormShown, AddedIsForm, Editing, Adding

LEMMA TaggedInvariant ==
    ASSUME NobodyElse
    PROVE  Spec => [](Typed /\ Tagged)
<1>1. Init => Typed /\ Tagged
  BY TypedInit, TaggedInit
<1>2. Typed /\ Tagged /\ [Next]_vars => (Typed /\ Tagged)'
  BY TypedStep, TaggedStep
<1> QED BY <1>1, <1>2, PTL DEF Spec

\* What is known of an open dialog and of the rows written before their tag was
\* checked, in every state of the editor.
THEOREM DialogsKeepProtocol ==
    ASSUME NobodyElse
    PROVE  Spec => []DialogProtocol
<1>1. Typed /\ Tagged => DialogProtocol
  <2> SUFFICES ASSUME Typed, Tagged PROVE DialogProtocol
    OBVIOUS
  <2>1. "inbounds" \in Sections =>
           DOMAIN profile.rows["inbounds"] = 1..Len(profile.rows["inbounds"])
    BY ProfileFacts, ListFacts DEF Typed, ListsOK
  <2>2. UncheckedIsShown
    BY <2>1 DEF Tagged, AllChecked, FormShown, UncheckedIsShown
  <2> QED BY <2>2, TypedGives DEF DialogProtocol, Tagged
<1> QED BY <1>1, TaggedInvariant, PTL

\* No two confirmed rows of the profile have one tag, whatever is added, edited
\* in place, imported, moved, removed and refetched.
THEOREM ConfirmedTagsDiffer ==
    ASSUME NobodyElse
    PROVE  Spec => []TagsUnique
<1>1. Typed /\ Tagged => TagsUnique
  BY UniqFacts DEF Tagged
<1> QED BY <1>1, TaggedInvariant, PTL

-----------------------------------------------------------------------------
(* Selectors *)

\* What SelectorsFollow says of a step.
Followed ==
    \A k \in Sources :
        ObservesAll(k) /\ RowsOf(profile, "outbounds") # RowsOf(profile, "outbounds")'
        => ObservesAll(k)'

\* Moving a row changes the order of the rows and not which there are.
LEMMA arrayMoveSet ==
    ASSUME NEW list \in Seq(Row), NEW from \in 1..Len(list), NEW to \in 1..Len(list)
    PROVE  ToSet(arrayMove(list, from, to)) = ToSet(list)
<1> DEFINE new == arrayMove(list, from, to)
           n == Len(list)
<1>1. /\ n \in Nat /\ DOMAIN list = 1..n /\ DOMAIN new = 1..n
      /\ \A k \in 1..n : new[k] = list[Source(from, to, k)]
  BY arrayMoveFacts, ListFacts
<1> HIDE DEF new
<1>2. \A k \in 1..n : /\ Source(from, to, k) \in 1..n /\ Source(to, from, k) \in 1..n
                      /\ Source(from, to, Source(to, from, k)) = k
  BY <1>1 DEF Source
<1> HIDE DEF n
<1>3. \A k \in 1..n : new[Source(to, from, k)] = list[k]
  BY <1>1, <1>2
<1>4. \A k \in DOMAIN new : \E m \in DOMAIN list : new[k] = list[m]
  BY <1>1, <1>2
<1>5. \A m \in DOMAIN list : \E k \in DOMAIN new : new[k] = list[m]
  BY <1>1, <1>2, <1>3
<1>6. ToSet(new) = ToSet(list)
  BY <1>4, <1>5 DEF ToSet
<1> QED BY <1>6 DEF new

\* A list that is replaced takes the selectors along, if it is the outbounds'.
LEMMA FollowedUpdate ==
    ASSUME Typed, NEW list \in Seq(Row),
           \/ profile' = UpdateRows(profile, section, list)
           \/ profile' = Rendered(UpdateRows(profile, section, list), section)
           \/ section # "outbounds" /\ profile'.rows = [profile.rows EXCEPT ![section] = list]
    PROVE  Followed
<1>1. section \in Sections /\ profile \in Profile /\ profile.rows \in [Sections -> Seq(Row)]
  BY ProfileFacts DEF Typed, ListsOK, ScreenOK
<1>2. CASE section = "outbounds"
  <2> DEFINE q == UpdateRows(profile, section, list)
  <2>0. /\ q \in Profile
        /\ \A k \in Sources : q.sources[k] =
              IF profile.sources[k] # None /\ profile.sources[k] = ObservableTags(profile)
              THEN ObservableTags(q) ELSE profile.sources[k]
    BY <1>1, <1>2, UpdateRowsFacts, ZenonT(40)
  <2>q. profile' = q \/ profile' = Rendered(q, section)
    BY <1>2
  <2> HIDE DEF q
  <2>1. profile' = q /\ profile' \in Profile
    BY <1>1, <1>2, <2>0, <2>q, RenderedFacts
  <2>2. \A k \in Sources : ObservesAll(k) => profile'.sources[k] = ObservableTags(profile')
    BY <2>0, <2>1 DEF ObservesAll
  <2>3. ObservableTags(profile') # None
    BY <2>1, ObservableFacts
  <2> QED BY <2>2, <2>3 DEF Followed, ObservesAll
<1>3. CASE section # "outbounds"
  <2>1. profile'.rows = [profile.rows EXCEPT ![section] = list]
    BY <1>1, UpdateRowsFacts, RenderedUpdateFacts
  <2>2. RowsOf(profile', "outbounds") = RowsOf(profile, "outbounds")
    BY <1>1, <1>3, <2>1 DEF RowsOf
  <2> QED BY <2>2 DEF Followed
<1> QED BY <1>2, <1>3

\* Every step but the refetch of a core.
LEMMA FollowedStep ==
    ASSUME Typed, [Next]_vars, ~Refetch
    PROVE  Followed
<1>S. section \in Sections /\ profile \in Profile
  BY DEF Typed, ListsOK, ScreenOK
<1>U. profile'.rows = profile.rows => Followed
  BY DEF Followed, RowsOf
<1>P. ASSUME RowShown, NEW tag \in Tags \cup {NoTag}, NEW trait \in BOOLEAN,
             NEW checked \in BOOLEAN, NEW form \in Tags \cup {NoTag},
             Patch(tag, trait, checked, form), section' = section
      PROVE  Followed
  <2> DEFINE list == SetRow(rows, dialog.selected, [tag |-> tag, trait |-> trait, checked |-> checked])
  <2>1. \/ profile' = profile
        \/ list \in Seq(Row) /\ profile' = Rendered(UpdateRows(profile, section, list), section)
    <3>1. CASE Adding
      BY <1>P, <3>1 DEF Patch
    <3>2. CASE ~Adding
      <4>1. profile' = Rendered(UpdateRows(profile, section, list), section)
        BY <1>P, <3>2 DEF Patch
      <4>2. dialog.selected \in 1..Len(rows) /\ rows \in Seq(Row)
        BY <1>P, <3>2, ShownFacts, RowsFacts
      <4>3. [tag |-> tag, trait |-> trait, checked |-> checked] \in Row
        BY DEF Row
      <4> QED BY <4>1, <4>2, <4>3, SetRowFacts
    <3> QED BY <3>1, <3>2
  <2> HIDE DEF list
  <2> QED BY <1>U, <2>1, FollowedUpdate
<1>1. ASSUME NEW s \in Sections, ChangeSection(s) PROVE Followed
  BY <1>1, <1>S, <1>U, RenderedFacts DEF ChangeSection
<1>2. ASSUME NEW t \in Tags \cup {NoTag}, TypeTag(t) PROVE Followed
  <2> DEFINE checked == Shown.checked /\ ~profileTagHasDuplicateUsage(profile, t, Edited)
  <2>0. RowShown /\ section' = section /\ (profile' = profile \/ Patch(t, Shown.trait, checked, t))
    BY <1>2 DEF TypeTag
  <2>1. Shown.trait \in BOOLEAN /\ checked \in BOOLEAN
    BY <2>0, ShownFacts
  <2> HIDE DEF checked
  <2> QED BY <1>P, <1>U, <2>0, <2>1
<1>3. ASSUME ChangeTrait PROVE Followed
  <2> DEFINE form == IF section = "outbounds" \/ Adding THEN Shown.tag ELSE dialog.form
  <2>0. RowShown /\ section' = section /\ Patch(Shown.tag, ~Shown.trait, Shown.checked, form)
    BY <1>3 DEF ChangeTrait
  <2>1. /\ Shown.tag \in Tags \cup {NoTag} /\ (~Shown.trait) \in BOOLEAN
        /\ Shown.checked \in BOOLEAN /\ form \in Tags \cup {NoTag}
    BY <2>0, ShownFacts
  <2> HIDE DEF form
  <2> QED BY <1>P, <2>0, <2>1
<1>4. ASSUME NEW t \in Tags \cup {NoTag}, NEW uri \in BOOLEAN, ImportRow(t, uri) PROVE Followed
  <2> DEFINE form == IF uri \/ Adding THEN t ELSE dialog.form
             checked == Shown.checked /\ ~profileTagHasDuplicateUsage(profile, t, Edited)
  <2>0. RowShown /\ section' = section /\ Patch(t, Shown.trait, checked, form)
    BY <1>4 DEF ImportRow
  <2>1. Shown.trait \in BOOLEAN /\ checked \in BOOLEAN /\ form \in Tags \cup {NoTag}
    BY <2>0, ShownFacts
  <2> HIDE DEF form, checked
  <2> QED BY <1>P, <2>0, <2>1
<1>5. ASSUME CommitAdd PROVE Followed
  <2> DEFINE row == [dialog.draft EXCEPT !.checked = TRUE, !.tag =
                       IF section \in {"outbounds", "balancers"} THEN dialog.form ELSE @]
             list == Append(rows, row)
  <2>1. dialog.draft \in Row /\ dialog.form \in Tags \cup {NoTag}
    BY <1>5 DEF CommitAdd, Adding, Typed, DialogOK, Dialog
  <2>2. row \in Row
    BY <2>1 DEF Row
  <2>3. profile' = IF section = "balancers"
                   THEN ensureObservationForProfile(UpdateRows(profile, section, list))
                   ELSE UpdateRows(profile, section, list)
    BY <1>5 DEF CommitAdd
  <2> HIDE DEF row
  <2>4. list \in Seq(Row)
    BY <2>2, RowsFacts, AppendProperties
  <2> HIDE DEF list
  <2>5. CASE section = "balancers"
    <3>1. profile'.rows = [profile.rows EXCEPT ![section] = list]
      BY <1>S, <2>3, <2>4, <2>5, UpdateRowsFacts, ensureFacts
    <3> QED BY <2>4, <2>5, <3>1, FollowedUpdate
  <2>6. CASE section # "balancers"
    BY <2>3, <2>4, <2>6, FollowedUpdate
  <2> QED BY <2>5, <2>6
<1>6. ASSUME CommitEdit PROVE Followed
  <2> DEFINE row == [Shown EXCEPT !.checked = TRUE,
                                  !.tag = IF section = "outbounds" THEN dialog.form ELSE @]
             list == SetRow(rows, dialog.selected, row)
  <2>1. RowShown /\ ~Adding
    BY <1>6 DEF CommitEdit, CommitAllowed, Editing, Adding
  <2>2. Shown \in Row /\ dialog.form \in Tags \cup {NoTag} /\ dialog.selected \in 1..Len(rows)
    BY <2>1, ShownFacts
  <2>3. row \in Row
    BY <2>2 DEF Row
  <2>4. profile' = Rendered(UpdateRows(profile, section, list), section)
    BY <1>6 DEF CommitEdit
  <2> HIDE DEF row
  <2>5. list \in Seq(Row)
    BY <2>2, <2>3, RowsFacts, SetRowFacts
  <2> HIDE DEF list
  <2> QED BY <2>4, <2>5, FollowedUpdate
<1>7. ASSUME NEW i \in DOMAIN rows, RemoveRow(i) PROVE Followed
  <2>1. DropRows(rows, {i}) \in Seq(Row)
    BY RowsFacts, DropRowsFacts
  <2> QED BY <1>7, <2>1, FollowedUpdate DEF RemoveRow
<1>8. ASSUME BulkRemove PROVE Followed
  <2>1. DropRows(rows, ticks) \in Seq(Row)
    BY RowsFacts, DropRowsFacts
  <2> QED BY <1>8, <2>1, FollowedUpdate DEF BulkRemove
<1>9. ASSUME NEW i \in DOMAIN rows, NEW j \in DOMAIN rows, Reorder(i, j) PROVE Followed
  <2> DEFINE list == arrayMove(rows, i, j)
  <2>1. i \in 1..Len(rows) /\ j \in 1..Len(rows) /\ rows \in Seq(Row)
    BY RowsFacts
  <2>2. list \in Seq(Row) /\ ToSet(list) = ToSet(rows)
    BY <2>1, arrayMoveFacts, arrayMoveSet
  <2>3. profile' = WithRows(profile, section, list)
    BY <1>9 DEF Reorder
  <2> HIDE DEF list
  <2>4. profile'.rows = [profile.rows EXCEPT ![section] = list] /\ profile'.sources = profile.sources
    BY <1>S, <2>2, <2>3, WithRowsFacts
  <2>5. CASE section # "outbounds"
    BY <2>2, <2>4, <2>5, FollowedUpdate
  <2>6. CASE section = "outbounds"
    <3>1. RowsOf(profile, "outbounds") = rows /\ RowsOf(profile', "outbounds") = list
      BY <1>S, <2>4, <2>6, ProfileFacts DEF RowsOf, rows
    <3>2. ObservableTags(profile') = ObservableTags(profile)
      BY <2>2, <3>1 DEF ObservableTags
    <3> QED BY <2>4, <3>2 DEF Followed, ObservesAll
  <2> QED BY <2>5, <2>6
<1>10. ASSUME commitObservationDraft PROVE Followed
  <2> DEFINE q == [profile EXCEPT !.sources = obsDraft]
  <2>1. q \in Profile /\ q.rows = profile.rows
    BY <1>10, <1>S, WithSourcesFacts DEF commitObservationDraft, Typed, ScreenOK
  <2>2. profile' = Rendered(q, section)
    BY <1>10 DEF commitObservationDraft
  <2> HIDE DEF q
  <2> QED BY <1>S, <1>U, <2>1, <2>2, RenderedFacts
<1>11. CASE \/ \E i \in DOMAIN rows : RowClick(i) \/ Tick(i)
            \/ \E t \in Tags \cup {NoTag} : BeginAdd(t)
            \/ ClearTicks \/ Cancel \/ Discard \/ KeepEditing
            \/ OpenObservationDialog \/ CloseObservationDialog
            \/ \E k \in Sources : ToggleSource(k) \/ \E c \in Picks : PickSubjects(k, c)
            \/ UNCHANGED vars
  BY <1>11, <1>U DEF RowClick, Tick, BeginAdd, ClearTicks, Cancel, Discard, KeepEditing,
     OpenObservationDialog, CloseObservationDialog, ToggleSource, PickSubjects, vars, ui
<1> QED
  BY <1>1, <1>2, <1>3, <1>4, <1>5, <1>6, <1>7, <1>8, <1>9, <1>10, <1>11 DEF Next

\* A source that observes every outbound goes on doing so whatever the user
\* does with the outbounds, and in whatever section a row is changed.
THEOREM SelectorsAreKept == Spec => SelectorsFollow
<1>1. Typed /\ [Next]_vars =>
        [\A k \in Sources :
           ObservesAll(k) /\ RowsOf(profile, "outbounds") # RowsOf(profile, "outbounds")'
           /\ ~Refetch
           => ObservesAll(k)']_vars
  BY FollowedStep DEF Followed
<1> QED BY <1>1, TypedInvariant, PTL DEF Spec, SelectorsFollow
=============================================================================

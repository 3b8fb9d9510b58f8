------------------------------ MODULE NotesProofs ------------------------------
(***************************************************************************)
(* What Notes promises, for every set of pages, every size of a load and   *)
(* every bound: loads add up to the notebook, the page is told the truth,  *)
(* and a request made from an outdated list never hits another note.       *)
(***************************************************************************)
EXTENDS Notes, SequenceTheorems, FiniteSetTheorems, TLAPS

----------------------------------------------------------------------------
(* The inductive invariant. *)

\* The store: ids are given out once, in order, and never more of them than
\* texts were committed.
StoreInv ==
  /\ table \subseteq Note /\ IsFiniteSet(table)
  /\ lastId \in Nat /\ lastId <= Cardinality(committed)
  /\ now \in 0..MaxTime
  /\ writes \in 0..MaxWrites
  /\ committed \subseteq 1..writes
  /\ gone \subseteq Texts
  /\ told \subseteq committed
  /\ \A n \in table : n.id <= lastId
  /\ \A m, n \in table : m.id = n.id => m = n

\* What a page may have been shown: its id was given out, and belongs to the
\* same note still, or to none because that note was deleted.
KnownNotes ==
  {n \in Note : /\ n.id <= lastId
                /\ \A m \in table : m.id = n.id => m.born = n.born
                /\ With(n.id) = {} => n.born \in gone}

PageOf(K) == [shown : Seq(K), offset : 0..MaxWrites, more : BOOLEAN, clean : BOOLEAN,
              editing : K \cup {None}]
LoadOf(K) == [phase : {"sent", "answered"}, offset : 0..MaxWrites,
              notes : Seq(K), more : BOOLEAN]
SaveOf(K) == [phase : {"sent", "wrote", "answered", "reload"}, target : K \cup {None},
              text : Texts, reply : {"none", "ok", "missing", "error"}]
DeleteOf(K) == [phase : {"sent", "answered"}, target : K, text : {None},
                reply : {"none", "ok", "missing"}]

\* Pages and requests hold known notes only.
FormsInv ==
  /\ page \in [Pages -> PageOf(KnownNotes)]
  /\ load \in [Pages -> LoadOf(KnownNotes) \cup {None}]
  /\ save \in [Pages -> SaveOf(KnownNotes) \cup {None}]
  /\ del \in [Pages -> DeleteOf(KnownNotes) \cup {None}]

\* What a save (of w saves, with the texts c committed and the notes g gone)
\* knows of its text.
SaveIs(r, w, c, g) ==
  /\ r.phase = "sent" => r.text \in (1..w) \ c
  /\ r.phase = "wrote" => r.text \in c /\ r.target # None
  /\ r.phase = "answered" /\ r.reply = "ok" => r.text \in c
  /\ r.phase = "answered" /\ r.reply = "missing" => r.target.born \in g

DeleteIs(r, g) == r.phase = "answered" => r.target.born \in g

RequestsInv ==
  /\ \A p \in Pages : save[p] # None => SaveIs(save[p], writes, committed, gone)
  /\ \A p, q \in Pages : Under(save[p], "sent") /\ Under(save[q], "sent")
                           /\ save[p].text = save[q].text => p = q
  /\ \A p \in Pages : del[p] # None => DeleteIs(del[p], gone)

\* What a page with its load has of the listing L.
PageIs(pg, ld, L) ==
  /\ Len(pg.shown) = pg.offset
  /\ ld # None => /\ ld.offset = pg.offset
                  /\ ld.offset > 0 => pg.more
                  /\ ld.phase = "answered" => pg.offset + Len(ld.notes) <= MaxWrites
  /\ pg.clean =>
       /\ pg.offset <= Len(L) /\ pg.shown = SubSeq(L, 1, pg.offset)
       /\ ld = None /\ ~pg.more => pg.offset = Len(L)
       /\ ld # None /\ ld.phase = "answered" =>
            /\ pg.offset + Len(ld.notes) <= Len(L)
            /\ ld.notes = SubSeq(L, pg.offset + 1, pg.offset + Len(ld.notes))
            /\ ~ld.more => pg.offset + Len(ld.notes) = Len(L)

PagesInv == \A p \in Pages : PageIs(page[p], load[p], Listing)

IInv == StoreInv /\ FormsInv /\ RequestsInv /\ PagesInv

----------------------------------------------------------------------------
(* Order: a finite set has a listing in any strict total order. *)

\* Number the elements by how many come before them.
LEMMA SortedListing ==
  ASSUME NEW S, IsFiniteSet(S), NEW R \in SUBSET (S \X S),
         \A x \in S : <<x, x>> \notin R,
         \A x, y, z \in S : <<x, y>> \in R /\ <<y, z>> \in R => <<x, z>> \in R,
         \A x, y \in S : x # y => <<x, y>> \in R \/ <<y, x>> \in R
  PROVE  /\ Cardinality(S) \in Nat
         /\ \E s \in [1..Cardinality(S) -> S] :
              \A i, j \in 1..Cardinality(S) : i < j => <<s[i], s[j]>> \in R
<1> DEFINE below(x) == {y \in S : <<y, x>> \in R}
           n == Cardinality(S)
           rank == [x \in S |-> Cardinality(below(x)) + 1]
<1>1. n \in Nat
  BY FS_CardinalityType
<1>2. ASSUME NEW x \in S
      PROVE  IsFiniteSet(below(x)) /\ Cardinality(below(x)) \in Nat /\ Cardinality(below(x)) < n
  <2>1. below(x) \in SUBSET S /\ below(x) # S
    OBVIOUS
  <2> HIDE DEF below
  <2>2. IsFiniteSet(below(x)) /\ Cardinality(below(x)) <= n /\ Cardinality(below(x)) # n
    BY <2>1, FS_Subset
  <2>3. Cardinality(below(x)) \in Nat
    BY <2>2, FS_CardinalityType
  <2> QED
    BY <1>1, <2>2, <2>3
<1>3. ASSUME NEW x \in S, NEW y \in S, <<x, y>> \in R
      PROVE  rank[x] < rank[y]
  <2>1. below(x) \in SUBSET below(y) /\ below(x) # below(y)
    BY <1>3
  <2>2. /\ IsFiniteSet(below(y)) /\ Cardinality(below(y)) \in Nat
        /\ Cardinality(below(x)) \in Nat
    BY <1>2
  <2>3. rank[x] = Cardinality(below(x)) + 1 /\ rank[y] = Cardinality(below(y)) + 1
    OBVIOUS
  <2> HIDE DEF below, rank
  <2>4. Cardinality(below(x)) <= Cardinality(below(y)) /\ Cardinality(below(y)) # Cardinality(below(x))
    BY <2>1, <2>2, FS_Subset
  <2> QED
    BY <2>2, <2>3, <2>4
<1>4. rank \in [S -> 1..n]
  <2> SUFFICES ASSUME NEW x \in S PROVE Cardinality(below(x)) + 1 \in 1..n
    OBVIOUS
  <2> HIDE DEF below
  <2> QED
    BY <1>1, <1>2
<1>5. \A x, y \in S : rank[x] = rank[y] => x = y
  <2> SUFFICES ASSUME NEW x \in S, NEW y \in S, x # y PROVE rank[x] # rank[y]
    OBVIOUS
  <2>1. rank[x] \in 1..n /\ rank[y] \in 1..n
    BY <1>4
  <2>2. rank[x] < rank[y] \/ rank[y] < rank[x]
    <3>1. CASE <<x, y>> \in R
      BY <1>3, <3>1
    <3>2. CASE <<y, x>> \in R
      BY <1>3, <3>2
    <3> QED
      BY <3>1, <3>2
  <2> HIDE DEF rank
  <2> QED
    BY <1>1, <2>1, <2>2
<1> HIDE DEF rank
<1>6. rank \in Surjection(S, 1..n)
  <2>1. IsFiniteSet(1..n) /\ Cardinality(1..n) = n
    BY <1>1, FS_Interval
  <2>2. rank \in Injection(S, 1..n)
    BY <1>4, <1>5 DEF Injection, IsInjective
  <2> QED
    BY <2>1, <2>2, FS_Injection
<1>7. \A i \in 1..n : \E x \in S : rank[x] = i
  BY <1>6 DEF Surjection
<1> DEFINE s == [i \in 1..n |-> CHOOSE x \in S : rank[x] = i]
<1>8. \A i \in 1..n : s[i] \in S /\ rank[s[i]] = i
  BY <1>7
<1>9. s \in [1..n -> S]
  BY <1>8
<1> HIDE DEF s
<1>10. ASSUME NEW i \in 1..n, NEW j \in 1..n, i < j
       PROVE  <<s[i], s[j]>> \in R
  <2>1. s[i] \in S /\ s[j] \in S /\ rank[s[i]] = i /\ rank[s[j]] = j
    BY <1>8
  <2>2. s[i] # s[j]
    BY <1>1, <1>10, <2>1
  <2>3. CASE <<s[j], s[i]>> \in R
    BY <1>1, <1>3, <1>10, <2>1, <2>3
  <2> QED
    BY <2>1, <2>2, <2>3
<1> QED
  BY <1>1, <1>9, <1>10

----------------------------------------------------------------------------
(* The order of the listing. *)

\* Places in the order of text are integers.
LEMMA TextOrderIsInt ==
  ASSUME NEW t \in Nat
  PROVE  TextOrder(t) \in Int
<1> DEFINE d1 == (t \div Base) % Base
           d2 == t % Base
           c1 == IF d1 = 0 /\ d2 = 0 THEN Base ELSE d1
           c2 == IF d2 = 0 THEN Base ELSE d2
           k == Base * Base
           a == t \div k
           b == a * (Base + 1)
           c == (b + c1) * (Base + 1)
<1>1. Base \in Nat /\ Base > 0
  BY NumbersAssumption
<1>2. t \div Base \in Int /\ d2 \in Int
  BY <1>1
<1>3. d1 \in Int
  BY <1>1, <1>2
<1>4. c1 \in Int /\ c2 \in Int
  BY <1>1, <1>2, <1>3
<1>5. k \in Int /\ k > 0
  BY <1>1
<1>6. TextOrder(t) = c + c2
  BY DEF TextOrder
<1> HIDE DEF d1, d2, c1, c2, k
<1>7. a \in Int
  BY <1>5
<1> HIDE DEF a
<1>8. b \in Int
  BY <1>1, <1>7
<1> HIDE DEF b
<1>9. c \in Int
  BY <1>1, <1>4, <1>8
<1> HIDE DEF c
<1> QED
  BY <1>4, <1>6, <1>9

\* The listing is one: a sequence of all the rows.
LEMMA ListingIsOne ==
  ASSUME StoreInv
  PROVE  /\ Cardinality(table) \in Nat
         /\ Listing \in Seq(table)
         /\ Len(Listing) = Cardinality(table)
<1> DEFINE R == {e \in table \X table : Before(e[1], e[2])}
           n == Cardinality(table)
<1>1. /\ table \subseteq Note /\ IsFiniteSet(table)
      /\ \A x, y \in table : x.id = y.id => x = y
  BY DEF StoreInv
<1>2. \A x \in table : x.id \in Nat /\ x.at \in Nat
  BY <1>1, NumbersAssumption DEF Note, Texts
<1>3. \A x \in table : x.id \in Int /\ TextOrder(x.at) \in Int
  BY <1>2, TextOrderIsInt
<1>4. \A x, y \in table : <<x, y>> \in R <=> Before(x, y)
  OBVIOUS
<1>5. R \in SUBSET (table \X table)
  OBVIOUS
<1> HIDE DEF R
<1>6. \A x \in table : <<x, x>> \notin R
  BY <1>3, <1>4 DEF Before
<1>7. \A x, y, z \in table : <<x, y>> \in R /\ <<y, z>> \in R => <<x, z>> \in R
  BY <1>3, <1>4 DEF Before
<1>8. \A x, y \in table : x # y => <<x, y>> \in R \/ <<y, x>> \in R
  BY <1>1, <1>3, <1>4 DEF Before
<1>9. /\ n \in Nat
      /\ \E s \in [1..n -> table] : \A i, j \in 1..n : i < j => <<s[i], s[j]>> \in R
  BY <1>1, <1>5, <1>6, <1>7, <1>8, SortedListing
<1>10. \E s \in [1..n -> table] : \A i, j \in DOMAIN s : i < j => Before(s[i], s[j])
  <2>1. PICK s \in [1..n -> table] : \A i, j \in 1..n : i < j => <<s[i], s[j]>> \in R
    BY <1>9
  <2>2. DOMAIN s = 1..n /\ \A i \in 1..n : s[i] \in table
    OBVIOUS
  <2>3. \A i, j \in DOMAIN s : i < j => Before(s[i], s[j])
    BY <1>4, <2>1, <2>2
  <2> QED
    BY <2>3
<1>11. Listing \in [1..n -> table]
  BY <1>10 DEF Listing
<1> QED
  BY <1>9, <1>11

\* No more rows than ids were given out, and no more of those than saves.
LEMMA RowsAreFew ==
  ASSUME StoreInv
  PROVE  /\ Cardinality(committed) \in Nat /\ IsFiniteSet(committed)
         /\ Cardinality(committed) <= writes
         /\ lastId <= MaxWrites
         /\ Len(Listing) <= MaxWrites
<1>1. /\ table \subseteq Note /\ IsFiniteSet(table)
      /\ lastId \in Nat /\ lastId <= Cardinality(committed)
      /\ writes \in 0..MaxWrites /\ MaxWrites \in Nat
      /\ committed \subseteq 1..writes
      /\ \A n \in table : n.id <= lastId
      /\ \A m, n \in table : m.id = n.id => m = n
  BY NumbersAssumption DEF StoreInv
<1>2. IsFiniteSet(1..writes) /\ Cardinality(1..writes) = writes
  BY <1>1, FS_Interval
<1>3. IsFiniteSet(committed) /\ Cardinality(committed) <= writes
  <2>1. committed \in SUBSET (1..writes)
    BY <1>1
  <2> QED
    BY <1>2, <2>1, FS_Subset
<1>4. Cardinality(committed) \in Nat
  BY <1>3, FS_CardinalityType
<1> DEFINE f == [x \in table |-> x.id]
<1>5. f \in Injection(table, 1..lastId)
  <2>1. \A x \in table : x.id \in 1..lastId
    BY <1>1 DEF Note
  <2> QED
    BY <1>1, <2>1 DEF Injection, IsInjective
<1>6. IsFiniteSet(1..lastId) /\ Cardinality(1..lastId) = lastId
  BY <1>1, FS_Interval
<1> HIDE DEF f
<1>7. Cardinality(table) <= lastId
  BY <1>5, <1>6, FS_Injection
<1>8. Cardinality(table) \in Nat /\ Len(Listing) = Cardinality(table)
  BY ListingIsOne
<1> QED
  BY <1>1, <1>3, <1>4, <1>7, <1>8

----------------------------------------------------------------------------
(* Loads. *)

\* What is served of a listing L from the offset o: the rows of the SELECT, which
\* asks for one note more than is returned, and how many are returned.
LastAsked(L, o) == IF o + (Limit + 1) < Len(L) THEN o + (Limit + 1) ELSE Len(L)
Asked(L, o) == SubSeq(L, o + 1, LastAsked(L, o))
Returned(L, o) == IF Len(Asked(L, o)) > Limit THEN Limit ELSE Len(Asked(L, o))
Served(L, o) == SubSeq(Asked(L, o), 1, Returned(L, o))

\* There is no more exactly when no more was got than is returned.
LEMMA ServedPage ==
  ASSUME NEW S, NEW L \in Seq(S), NEW o \in Nat
  PROVE  /\ Served(L, o) \in Seq(S) /\ Len(Served(L, o)) = Returned(L, o)
         /\ Returned(L, o) \in Nat
         /\ Returned(L, o) = 0 \/ o + Returned(L, o) <= Len(L)
         /\ o <= Len(L) =>
              /\ o + Returned(L, o) <= Len(L)
              /\ Served(L, o) = SubSeq(L, o + 1, o + Returned(L, o))
              /\ ~(Len(Asked(L, o)) > Limit) => o + Returned(L, o) = Len(L)
<1> DEFINE last == LastAsked(L, o)
           found == Asked(L, o)
           k == Returned(L, o)
           notes == Served(L, o)
<1>0. /\ last = IF o + (Limit + 1) < Len(L) THEN o + (Limit + 1) ELSE Len(L)
      /\ found = SubSeq(L, o + 1, last)
      /\ k = IF Len(found) > Limit THEN Limit ELSE Len(found)
      /\ notes = SubSeq(found, 1, k)
  BY DEF LastAsked, Asked, Returned, Served
<1> HIDE DEF last, found, k, notes
<1>1. Limit \in Nat /\ Limit > 0 /\ Len(L) \in Nat /\ \A i \in 1..Len(L) : L[i] \in S
  BY NumbersAssumption, LenProperties, ElementOfSeq
<1>2. /\ last \in Nat /\ last <= Len(L) /\ last <= o + Limit + 1
      /\ o <= Len(L) => o <= last
      /\ last < o + Limit + 1 => last = Len(L)
  BY <1>0, <1>1
<1>3. /\ found \in Seq(S)
      /\ Len(found) = IF o + 1 <= last THEN last - o ELSE 0
      /\ \A i \in 1..(last - o) : found[i] = L[o + i]
  <2>1. \A i \in (o + 1)..last : L[i] \in S
    BY <1>1, <1>2
  <2>2. /\ found \in Seq(S)
        /\ Len(found) = IF o + 1 <= last THEN last - (o + 1) + 1 ELSE 0
        /\ \A i \in 1..(last - (o + 1) + 1) : found[i] = L[(o + 1) + i - 1]
    BY <1>0, <1>2, <2>1, SubSeqProperties
  <2>3. last - (o + 1) + 1 = last - o /\ \A i \in 1..(last - o) : (o + 1) + i - 1 = o + i
    BY <1>2
  <2> QED
    BY <2>2, <2>3
<1>4. k \in Nat /\ k <= Len(found) /\ k <= Limit
      /\ (~(Len(found) > Limit) => k = Len(found))
  BY <1>0, <1>1, <1>2, <1>3
<1>5. /\ notes \in Seq(S) /\ Len(notes) = k
      /\ \A i \in 1..k : notes[i] = found[i]
  <2>1. \A i \in 1..k : found[i] \in S
    BY <1>3, <1>4
  <2>2. /\ notes \in Seq(S)
        /\ Len(notes) = IF 1 <= k THEN k - 1 + 1 ELSE 0
        /\ \A i \in 1..(k - 1 + 1) : notes[i] = found[1 + i - 1]
    BY <1>0, <1>4, <2>1, SubSeqProperties
  <2> QED
    BY <1>4, <2>2
<1>6. k = 0 \/ o + k <= Len(L)
  BY <1>1, <1>2, <1>3, <1>4
<1>7. ASSUME o <= Len(L)
      PROVE  /\ o + k <= Len(L)
             /\ notes = SubSeq(L, o + 1, o + k)
             /\ ~(Len(found) > Limit) => o + k = Len(L)
  <2>1. o + k <= Len(L) /\ k <= last - o
    BY <1>1, <1>2, <1>3, <1>4, <1>7
  <2>2. ~(Len(found) > Limit) => o + k = Len(L)
    BY <1>1, <1>2, <1>3, <1>4, <1>7
  <2>3. \A i \in (o + 1)..(o + k) : L[i] \in S
    BY <1>1, <1>4, <2>1
  <2>4. /\ SubSeq(L, o + 1, o + k) \in Seq(S)
        /\ Len(SubSeq(L, o + 1, o + k)) = IF o + 1 <= o + k THEN (o + k) - (o + 1) + 1 ELSE 0
        /\ \A i \in 1..((o + k) - (o + 1) + 1) : SubSeq(L, o + 1, o + k)[i] = L[(o + 1) + i - 1]
    BY <1>4, <2>3, SubSeqProperties
  <2> DEFINE part == SubSeq(L, o + 1, o + k)
  <2>5. part \in Seq(S) /\ Len(part) = k /\ \A i \in 1..k : part[i] = L[o + i]
    <3>1. (o + k) - (o + 1) + 1 = k /\ \A i \in 1..k : (o + 1) + i - 1 = o + i
      BY <1>4
    <3>2. (IF o + 1 <= o + k THEN k ELSE 0) = k
      BY <1>4
    <3> QED
      BY <2>4, <3>1, <3>2
  <2> HIDE DEF part
  <2>6. \A i \in 1..k : notes[i] = part[i]
    BY <1>2, <1>3, <1>4, <1>5, <2>1, <2>5
  <2>7. notes = part
    BY <1>4, <1>5, <2>5, <2>6, SeqEqual
  <2> QED
    BY <2>1, <2>2, <2>7 DEF part
<1> QED
  BY <1>4, <1>5, <1>6, <1>7 DEF found, k, notes

\* Pages one after the other.
LEMMA PagesJoin ==
  ASSUME NEW S, NEW L \in Seq(S), NEW o \in Nat, NEW k \in Nat, o + k <= Len(L)
  PROVE  SubSeq(L, 1, o) \o SubSeq(L, o + 1, o + k) = SubSeq(L, 1, o + k)
<1>1. 1 \in 1..(Len(L) + 1) /\ o \in (1 - 1)..Len(L) /\ o + k \in o..Len(L)
  OBVIOUS
<1> QED
  BY <1>1, ConcatAdjacentSubSeq

----------------------------------------------------------------------------
(* Known notes. *)

\* What a step may do to the store: new rows get new ids, rows keep the id and
\* the note they belong to, and a row that disappears is gone.
StoreStep ==
  /\ lastId' \in Nat /\ lastId <= lastId' /\ gone \subseteq gone'
  /\ \A m \in table' : m.id > lastId \/ \E n \in table : n.id = m.id /\ n.born = m.born
  /\ \A n \in table : n.born \in gone' \/ \E m \in table' : m.id = n.id

LEMMA KnownNotesStay ==
  ASSUME StoreInv, StoreStep
  PROVE  KnownNotes \subseteq KnownNotes'
<1> SUFFICES ASSUME NEW n \in KnownNotes
             PROVE  /\ n \in Note /\ n.id <= lastId'
                    /\ \A m \in table' : m.id = n.id => m.born = n.born
                    /\ With(n.id)' = {} => n.born \in gone'
  BY DEF KnownNotes
<1>1. /\ n \in Note /\ n.id <= lastId
      /\ \A m \in table : m.id = n.id => m.born = n.born
      /\ With(n.id) = {} => n.born \in gone
  BY DEF KnownNotes
<1>2. n.id \in Nat /\ lastId \in Nat /\ lastId' \in Nat
  BY <1>1 DEF Note, StoreInv, StoreStep
<1>3. n.id <= lastId'
  BY <1>1, <1>2 DEF StoreStep
<1>4. ASSUME NEW m \in table', m.id = n.id
      PROVE  m.born = n.born
  BY <1>1, <1>2, <1>4 DEF StoreStep
<1>5. ASSUME \A m \in table' : m.id # n.id
      PROVE  n.born \in gone'
  BY <1>1, <1>5 DEF StoreStep, With
<1> QED
  BY <1>1, <1>3, <1>4, <1>5 DEF With

\* The rows are known.
LEMMA RowsAreKnown ==
  ASSUME StoreInv
  PROVE  table \subseteq KnownNotes
BY DEF StoreInv, KnownNotes, With

LEMMA SeqOfMore ==
  ASSUME NEW S, NEW T, S \subseteq T
  PROVE  Seq(S) \subseteq Seq(T)
OBVIOUS

\* Pages and requests of known notes are pages and requests of more.
LEMMA FormsOfMore ==
  ASSUME NEW K, NEW M, K \subseteq M
  PROVE  /\ [Pages -> PageOf(K)] \subseteq [Pages -> PageOf(M)]
         /\ [Pages -> LoadOf(K) \cup {None}] \subseteq [Pages -> LoadOf(M) \cup {None}]
         /\ [Pages -> SaveOf(K) \cup {None}] \subseteq [Pages -> SaveOf(M) \cup {None}]
         /\ [Pages -> DeleteOf(K) \cup {None}] \subseteq [Pages -> DeleteOf(M) \cup {None}]
<1>1. Seq(K) \subseteq Seq(M)
  BY SeqOfMore
<1>2. PageOf(K) \subseteq PageOf(M)
  BY <1>1 DEF PageOf
<1>3. LoadOf(K) \subseteq LoadOf(M)
  BY <1>1 DEF LoadOf
<1>4. SaveOf(K) \subseteq SaveOf(M)
  BY DEF SaveOf
<1>5. DeleteOf(K) \subseteq DeleteOf(M)
  BY DEF DeleteOf
<1> QED
  BY <1>2, <1>3, <1>4, <1>5

\* The fields of a page and of its requests.
LEMMA Fields ==
  ASSUME IInv, NEW p \in Pages
  PROVE  /\ page[p] \in PageOf(KnownNotes)
         /\ page[p].shown \in Seq(KnownNotes) /\ page[p].offset \in 0..MaxWrites
         /\ page[p].more \in BOOLEAN /\ page[p].clean \in BOOLEAN
         /\ page[p].editing \in KnownNotes \cup {None}
         /\ load[p] # None => /\ load[p] \in LoadOf(KnownNotes)
                              /\ load[p].phase \in {"sent", "answered"}
                              /\ load[p].offset \in 0..MaxWrites
                              /\ load[p].notes \in Seq(KnownNotes) /\ load[p].more \in BOOLEAN
         /\ save[p] # None => save[p] \in SaveOf(KnownNotes)
         /\ del[p] # None => del[p] \in DeleteOf(KnownNotes)
<1>1. /\ page[p] \in PageOf(KnownNotes)
      /\ load[p] # None => load[p] \in LoadOf(KnownNotes)
      /\ save[p] # None => save[p] \in SaveOf(KnownNotes)
      /\ del[p] # None => del[p] \in DeleteOf(KnownNotes)
  BY DEF IInv, FormsInv
<1> QED
  BY <1>1 DEF PageOf, LoadOf

\* None is no request.
LEMMA RequestsAreSomething ==
  ASSUME StoreInv
  PROVE  /\ KnownNotes \subseteq Note /\ None \notin KnownNotes
         /\ None \notin LoadOf(KnownNotes)
         /\ None \notin SaveOf(KnownNotes) /\ None \notin DeleteOf(KnownNotes)
<1>1. KnownNotes \subseteq Note
  BY DEF KnownNotes
<1>2. Seq(KnownNotes) \subseteq Seq(Note)
  BY <1>1, SeqOfMore
<1>3. LoadOf(KnownNotes) \subseteq Load
  BY <1>2 DEF LoadOf, Load
<1>4. SaveOf(KnownNotes) \subseteq Change /\ DeleteOf(KnownNotes) \subseteq Change
  BY <1>1 DEF SaveOf, DeleteOf, Change
<1> QED
  BY <1>1, <1>3, <1>4, NothingAssumption

\* What a step that leaves the notebook alone keeps.
LEMMA StoreKept ==
  ASSUME IInv, UNCHANGED <<table, lastId, now, writes, committed, gone>>,
         told' = told \/ told' \subseteq committed
  PROVE  /\ KnownNotes' = KnownNotes /\ Listing' = Listing /\ StoreInv'
<1>1. KnownNotes' = KnownNotes
  BY DEF KnownNotes, With
<1>2. Listing' = Listing
  BY DEF Listing, Before
<1>3. StoreInv'
  BY DEF IInv, StoreInv
<1> QED
  BY <1>1, <1>2, <1>3

\* The requests are kept when their fields and what they know are.
LEMMA RequestsKept ==
  ASSUME IInv, UNCHANGED <<writes, committed, gone>>, UNCHANGED <<save, del>>
  PROVE  RequestsInv'
BY DEF IInv, RequestsInv, SaveIs, DeleteIs, Under

\* The save that waited for a load may end.
LEMMA ReloadedKept ==
  ASSUME IInv, NEW p \in Pages, save' = Reloaded(p), del' = del,
         UNCHANGED <<table, lastId, writes, committed, gone>>, KnownNotes' = KnownNotes
  PROVE  /\ RequestsInv'
         /\ save' \in [Pages -> SaveOf(KnownNotes') \cup {None}]
         /\ del' \in [Pages -> DeleteOf(KnownNotes') \cup {None}]
<1>1. save \in [Pages -> SaveOf(KnownNotes) \cup {None}]
      /\ del \in [Pages -> DeleteOf(KnownNotes) \cup {None}]
  BY DEF IInv, FormsInv
<1>2. \A q \in Pages : save'[q] = None \/ save'[q] = save[q]
  BY <1>1 DEF Reloaded
<1>3. save' \in [Pages -> SaveOf(KnownNotes) \cup {None}]
  BY <1>1 DEF Reloaded
<1>4. RequestsInv'
  BY <1>2 DEF IInv, RequestsInv, SaveIs, DeleteIs, Under
<1> QED
  BY <1>1, <1>3, <1>4

\* A new load of p, from the start or from where the page is.
LEMMA LoadStarts ==
  ASSUME IInv, NEW p \in Pages, NEW pg, NEW offset,
         pg \in PageOf(KnownNotes), pg.offset = offset, Len(pg.shown) = offset,
         offset > 0 => pg.more,
         pg.clean => pg.offset <= Len(Listing) /\ pg.shown = SubSeq(Listing, 1, pg.offset),
         page' = [page EXCEPT ![p] = pg],
         load' = [load EXCEPT ![p] = [phase |-> "sent", offset |-> offset,
                                      notes |-> <<>>, more |-> FALSE]],
         KnownNotes' = KnownNotes, Listing' = Listing
  PROVE  /\ page' \in [Pages -> PageOf(KnownNotes')]
         /\ load' \in [Pages -> LoadOf(KnownNotes') \cup {None}]
         /\ PagesInv'
<1> DEFINE l == [phase |-> "sent", offset |-> offset, notes |-> <<>>, more |-> FALSE]
<1>1. page \in [Pages -> PageOf(KnownNotes)] /\ load \in [Pages -> LoadOf(KnownNotes) \cup {None}]
  BY DEF IInv, FormsInv
<1>2. <<>> \in Seq(KnownNotes)
  OBVIOUS
<1>3. l \in LoadOf(KnownNotes) /\ l # None
  <2>1. offset \in 0..MaxWrites
    BY DEF PageOf
  <2>2. l \in LoadOf(KnownNotes)
    BY <1>2, <2>1 DEF LoadOf
  <2> QED
    BY <2>2, RequestsAreSomething DEF IInv
<1>4. l.phase = "sent" /\ l.offset = offset
  OBVIOUS
<1> HIDE DEF l
<1>5. load' = [load EXCEPT ![p] = l]
  BY DEF l
<1>6. ASSUME NEW q \in Pages
      PROVE  PageIs(page'[q], load'[q], Listing)
  <2>1. CASE q = p
    <3>1. page'[q] = pg /\ load'[q] = l
      BY <1>1, <1>5, <2>1
    <3>2. PageIs(pg, l, Listing)
      BY <1>3, <1>4 DEF PageIs
    <3> QED
      BY <3>1, <3>2
  <2>2. CASE q # p
    <3>1. page'[q] = page[q] /\ load'[q] = load[q]
      BY <1>1, <1>5, <2>2
    <3>2. PageIs(page[q], load[q], Listing)
      BY DEF IInv, PagesInv
    <3> QED
      BY <3>1, <3>2
  <2> QED
    BY <2>1, <2>2
<1> QED
  BY <1>1, <1>3, <1>5, <1>6 DEF PagesInv

\* A reset, or a load of the next notes.
LEMMA RequestKeeps ==
  ASSUME IInv, NEW p \in Pages, NEW reset \in BOOLEAN, Request(p, reset),
         reset \/ page[p].more, KnownNotes' = KnownNotes, Listing' = Listing
  PROVE  /\ page' \in [Pages -> PageOf(KnownNotes')]
         /\ load' \in [Pages -> LoadOf(KnownNotes') \cup {None}]
         /\ PagesInv'
<1>1. page \in [Pages -> PageOf(KnownNotes)]
  BY DEF IInv, FormsInv
<1>2. /\ page[p] \in PageOf(KnownNotes) /\ page[p].shown \in Seq(KnownNotes)
      /\ page[p].offset \in 0..MaxWrites
      /\ page[p].more \in BOOLEAN /\ page[p].clean \in BOOLEAN
      /\ page[p].editing \in KnownNotes \cup {None}
  BY Fields
<1>3. CASE reset
  <2> DEFINE pg == [page[p] EXCEPT !.shown = <<>>, !.offset = 0, !.clean = FALSE]
  <2>1. pg \in PageOf(KnownNotes) /\ pg.offset = 0 /\ pg.shown = <<>> /\ ~pg.clean
    <3>1. <<>> \in Seq(KnownNotes) /\ 0 \in 0..MaxWrites
      BY NumbersAssumption
    <3> QED
      BY <1>2, <3>1 DEF PageOf
  <2>2. page' = [page EXCEPT ![p] = pg]
    BY <1>1, <1>3 DEF Request
  <2>3. load' = [load EXCEPT ![p] = [phase |-> "sent", offset |-> 0,
                                     notes |-> <<>>, more |-> FALSE]]
    BY <1>3 DEF Request
  <2> HIDE DEF pg
  <2>4. /\ pg.offset = 0 /\ Len(pg.shown) = 0 /\ (0 > 0 => pg.more)
        /\ pg.clean => pg.offset <= Len(Listing) /\ pg.shown = SubSeq(Listing, 1, pg.offset)
    BY <2>1
  <2> QED
    BY <1>2, <2>1, <2>2, <2>3, <2>4, LoadStarts
<1>4. CASE ~reset
  <2>1. load[p] = None /\ page' = page
    BY <1>4 DEF Request
  <2>2. page' = [page EXCEPT ![p] = page[p]]
    BY <1>1, <2>1
  <2>3. load' = [load EXCEPT ![p] = [phase |-> "sent", offset |-> page[p].offset,
                                     notes |-> <<>>, more |-> FALSE]]
    BY <1>4 DEF Request
  <2>4. PageIs(page[p], load[p], Listing)
    BY DEF IInv, PagesInv
  <2>5. /\ Len(page[p].shown) = page[p].offset
        /\ page[p].clean => /\ page[p].offset <= Len(Listing)
                            /\ page[p].shown = SubSeq(Listing, 1, page[p].offset)
    BY <2>4 DEF PageIs
  <2>6. page[p].offset > 0 => page[p].more
    BY <1>4
  <2> QED
    BY <1>2, <2>2, <2>3, <2>5, <2>6, LoadStarts
<1> QED
  BY <1>3, <1>4

\* The sets of the actions that leave the notebook, the saves and the
\* deletions alone.
LEMMA OpenKeeps ==
  ASSUME IInv, NEW p \in Pages, Open(p) \/ LoadMore(p)
  PROVE  IInv'
<1>1. UNCHANGED <<table, lastId, now, writes, committed, gone, told>> /\ UNCHANGED <<save, del>>
  BY DEF Open, LoadMore, store, history
<1>2. KnownNotes' = KnownNotes /\ Listing' = Listing /\ StoreInv'
  BY <1>1, StoreKept
<1>3. \E reset \in BOOLEAN : Request(p, reset) /\ (reset \/ page[p].more)
  BY DEF Open, LoadMore
<1>4. /\ page' \in [Pages -> PageOf(KnownNotes')]
      /\ load' \in [Pages -> LoadOf(KnownNotes') \cup {None}]
      /\ PagesInv'
  BY <1>2, <1>3, RequestKeeps
<1>5. RequestsInv'
  BY <1>1, RequestsKept
<1>6. /\ save' \in [Pages -> SaveOf(KnownNotes') \cup {None}]
      /\ del' \in [Pages -> DeleteOf(KnownNotes') \cup {None}]
  BY <1>1, <1>2 DEF IInv, FormsInv
<1> QED
  BY <1>2, <1>4, <1>5, <1>6 DEF IInv, FormsInv

\* One page and its load change.
LEMMA OnePage ==
  ASSUME IInv, NEW p \in Pages, NEW pg \in PageOf(KnownNotes),
         NEW ld \in LoadOf(KnownNotes) \cup {None},
         page' = [page EXCEPT ![p] = pg], load' = [load EXCEPT ![p] = ld],
         PageIs(pg, ld, Listing), KnownNotes' = KnownNotes, Listing' = Listing
  PROVE  /\ page' \in [Pages -> PageOf(KnownNotes')]
         /\ load' \in [Pages -> LoadOf(KnownNotes') \cup {None}]
         /\ PagesInv'
<1>1. page \in [Pages -> PageOf(KnownNotes)] /\ load \in [Pages -> LoadOf(KnownNotes) \cup {None}]
  BY DEF IInv, FormsInv
<1>2. ASSUME NEW q \in Pages
      PROVE  PageIs(page'[q], load'[q], Listing)
  <2>1. CASE q = p
    <3>1. page'[q] = pg /\ load'[q] = ld
      BY <1>1, <2>1
    <3> QED
      BY <3>1
  <2>2. CASE q # p
    <3>1. page'[q] = page[q] /\ load'[q] = load[q]
      BY <1>1, <2>2
    <3>2. PageIs(page[q], load[q], Listing)
      BY DEF IInv, PagesInv
    <3> QED
      BY <3>1, <3>2
  <2> QED
    BY <2>1, <2>2
<1> QED
  BY <1>1, <1>2 DEF PagesInv

LEMMA ServeListKeeps ==
  ASSUME IInv, NEW p \in Pages, ServeList(p)
  PROVE  IInv'
<1>1. UNCHANGED <<table, lastId, now, writes, committed, gone, told>> /\ UNCHANGED <<save, del>>
  BY DEF ServeList, store, history
<1>2. KnownNotes' = KnownNotes /\ Listing' = Listing /\ StoreInv'
  BY <1>1, StoreKept
<1>3. /\ page \in [Pages -> PageOf(KnownNotes)]
      /\ load \in [Pages -> LoadOf(KnownNotes) \cup {None}]
  BY DEF IInv, FormsInv
<1>4. load[p] # None /\ load[p].phase = "sent"
  BY DEF ServeList
<1>5. /\ page[p] \in PageOf(KnownNotes) /\ page[p].shown \in Seq(KnownNotes)
      /\ page[p].offset \in 0..MaxWrites
      /\ page[p].more \in BOOLEAN /\ page[p].clean \in BOOLEAN
      /\ page[p].editing \in KnownNotes \cup {None}
      /\ load[p] \in LoadOf(KnownNotes) /\ load[p].offset \in 0..MaxWrites
  BY <1>4, Fields
<1>6. PageIs(page[p], load[p], Listing)
  BY DEF IInv, PagesInv
<1>7. /\ Listing \in Seq(KnownNotes) /\ Len(Listing) \in Nat /\ Len(Listing) <= MaxWrites
  <2>1. Listing \in Seq(table) /\ table \subseteq KnownNotes
    BY ListingIsOne, RowsAreKnown DEF IInv
  <2>2. Listing \in Seq(KnownNotes)
    BY <2>1, SeqOfMore
  <2> QED
    BY <2>2, LenProperties, RowsAreFew DEF IInv
<1> DEFINE o == load[p].offset
           k == Returned(Listing, o)
           notes == Served(Listing, o)
           more == Len(Asked(Listing, o)) > Limit
           ld == [load[p] EXCEPT !.phase = "answered", !.notes = notes, !.more = more]
           pg == IF o = 0 THEN [page[p] EXCEPT !.clean = TRUE] ELSE page[p]
<1>8. load' = [load EXCEPT ![p] = ld]
  BY <1>3 DEF ServeList, Slice, Served, Returned, Asked, LastAsked
<1>9. page' = [page EXCEPT ![p] = pg]
  BY <1>3 DEF ServeList
<1>10. /\ notes \in Seq(KnownNotes) /\ Len(notes) = k /\ k \in Nat
       /\ k = 0 \/ o + k <= Len(Listing)
       /\ o <= Len(Listing) =>
            /\ o + k <= Len(Listing)
            /\ notes = SubSeq(Listing, o + 1, o + k)
            /\ ~more => o + k = Len(Listing)
  <2>1. o \in Nat
    BY <1>5
  <2> HIDE DEF o
  <2> QED
    BY <1>7, <2>1, ServedPage
<1>0. more \in BOOLEAN
  OBVIOUS
<1> HIDE DEF k, notes, more
<1>11. /\ ld \in LoadOf(KnownNotes) /\ ld.phase = "answered" /\ ld.offset = o
       /\ ld.notes = notes /\ ld.more = more
  BY <1>0, <1>5, <1>10 DEF LoadOf
<1>12. ld # None
  BY <1>11, RequestsAreSomething DEF IInv
<1>13. /\ pg \in PageOf(KnownNotes) /\ pg.shown = page[p].shown /\ pg.offset = page[p].offset
       /\ pg.more = page[p].more /\ pg.clean = (page[p].clean \/ o = 0)
  BY <1>5 DEF PageOf
<1> HIDE DEF ld, pg
<1>14. /\ Len(page[p].shown) = page[p].offset /\ o = page[p].offset
       /\ o > 0 => page[p].more
       /\ page[p].clean => o <= Len(Listing) /\ page[p].shown = SubSeq(Listing, 1, o)
  BY <1>4, <1>6 DEF PageIs
<1>15. o \in Nat /\ (o = 0 => o <= Len(Listing) /\ page[p].shown = SubSeq(Listing, 1, o))
  <2>1. o \in Nat
    BY <1>5
  <2>2. ASSUME o = 0 PROVE page[p].shown = SubSeq(Listing, 1, o)
    <3>1. page[p].shown = <<>>
      BY <1>5, <1>14, <2>2, EmptySeq
    <3>2. SubSeq(Listing, 1, o) = <<>>
      BY <2>2, SubSeqEmpty
    <3> QED
      BY <3>1, <3>2
  <2> QED
    BY <1>7, <2>1, <2>2
<1> HIDE DEF o
<1>16. o + k <= MaxWrites
  BY <1>5, <1>7, <1>10, <1>14, <1>15, NumbersAssumption
<1>17. PageIs(pg, ld, Listing)
  BY <1>10, <1>11, <1>12, <1>13, <1>14, <1>15, <1>16 DEF PageIs
<1>18. /\ page' \in [Pages -> PageOf(KnownNotes')]
       /\ load' \in [Pages -> LoadOf(KnownNotes') \cup {None}]
       /\ PagesInv'
  BY <1>2, <1>8, <1>9, <1>11, <1>13, <1>17, OnePage
<1>19. RequestsInv'
  BY <1>1, RequestsKept
<1>20. /\ save' \in [Pages -> SaveOf(KnownNotes') \cup {None}]
       /\ del' \in [Pages -> DeleteOf(KnownNotes') \cup {None}]
  BY <1>1, <1>2 DEF IInv, FormsInv
<1> QED
  BY <1>2, <1>18, <1>19, <1>20 DEF IInv, FormsInv

LEMMA ListFailsKeeps ==
  ASSUME IInv, NEW p \in Pages, ListFails(p)
  PROVE  IInv'
<1>1. UNCHANGED <<table, lastId, now, writes, committed, gone, told>> /\ del' = del
  BY DEF ListFails, store, history
<1>2. KnownNotes' = KnownNotes /\ Listing' = Listing /\ StoreInv'
  BY <1>1, StoreKept
<1>3. /\ page \in [Pages -> PageOf(KnownNotes)] /\ load[p] # None
  BY DEF IInv, FormsInv, ListFails
<1>4. /\ page[p] \in PageOf(KnownNotes) /\ page[p].clean \in BOOLEAN
      /\ page[p].offset \in 0..MaxWrites /\ load[p].offset \in 0..MaxWrites
  BY <1>3, Fields
<1>5. PageIs(page[p], load[p], Listing)
  BY DEF IInv, PagesInv
<1> DEFINE pg == [page[p] EXCEPT !.clean = page[p].clean /\ load[p].offset > 0]
<1>6. page' = [page EXCEPT ![p] = pg] /\ load' = [load EXCEPT ![p] = None]
  BY <1>3 DEF ListFails
<1>7. /\ pg \in PageOf(KnownNotes) /\ pg.shown = page[p].shown /\ pg.offset = page[p].offset
      /\ pg.more = page[p].more
  BY <1>4 DEF PageOf
<1>8. pg.clean = (page[p].clean /\ load[p].offset > 0)
  BY <1>4 DEF PageOf
<1> HIDE DEF pg
<1>9. PageIs(pg, None, Listing)
  BY <1>3, <1>5, <1>7, <1>8 DEF PageIs
<1>10. /\ page' \in [Pages -> PageOf(KnownNotes')]
       /\ load' \in [Pages -> LoadOf(KnownNotes') \cup {None}]
       /\ PagesInv'
  BY <1>2, <1>6, <1>7, <1>9, OnePage
<1>11. save' = Reloaded(p)
  BY DEF ListFails
<1>12. /\ RequestsInv'
       /\ save' \in [Pages -> SaveOf(KnownNotes') \cup {None}]
       /\ del' \in [Pages -> DeleteOf(KnownNotes') \cup {None}]
  BY <1>1, <1>2, <1>11, ReloadedKept
<1> QED
  BY <1>2, <1>10, <1>12 DEF IInv, FormsInv

LEMMA EndLoadKeeps ==
  ASSUME IInv, NEW p \in Pages, EndLoad(p)
  PROVE  IInv'
<1>1. UNCHANGED <<table, lastId, now, writes, committed, gone, told>> /\ del' = del
  BY DEF EndLoad, store, history
<1>2. KnownNotes' = KnownNotes /\ Listing' = Listing /\ StoreInv'
  BY <1>1, StoreKept
<1>3. /\ page \in [Pages -> PageOf(KnownNotes)]
      /\ load[p] # None /\ load[p].phase = "answered"
  BY DEF IInv, FormsInv, EndLoad
<1>4. /\ page[p] \in PageOf(KnownNotes) /\ page[p].shown \in Seq(KnownNotes)
      /\ page[p].offset \in 0..MaxWrites /\ page[p].clean \in BOOLEAN
      /\ load[p].notes \in Seq(KnownNotes) /\ load[p].more \in BOOLEAN
      /\ MaxWrites \in Nat
  BY <1>3, Fields, NumbersAssumption
<1>5. PageIs(page[p], load[p], Listing)
  BY DEF IInv, PagesInv
<1> DEFINE shown == page[p].shown \o load[p].notes
           offset == load[p].offset + Len(load[p].notes)
           pg == [page[p] EXCEPT !.shown = shown, !.offset = offset, !.more = load[p].more]
<1>6. page' = [page EXCEPT ![p] = pg] /\ load' = [load EXCEPT ![p] = None]
  BY <1>3 DEF EndLoad, NextOffset
<1>7. /\ Len(load[p].notes) \in Nat /\ Len(page[p].shown) = page[p].offset
      /\ offset = page[p].offset + Len(load[p].notes) /\ offset <= MaxWrites
  BY <1>3, <1>4, <1>5, LenProperties DEF PageIs
<1>8. shown \in Seq(KnownNotes) /\ Len(shown) = offset /\ offset \in 0..MaxWrites
  <2>1. shown \in Seq(KnownNotes) /\ Len(shown) = Len(page[p].shown) + Len(load[p].notes)
    BY <1>4, ConcatProperties
  <2> HIDE DEF shown, offset
  <2> QED
    BY <1>4, <1>7, <2>1
<1>9. ASSUME page[p].clean
      PROVE  /\ offset <= Len(Listing) /\ shown = SubSeq(Listing, 1, offset)
             /\ ~load[p].more => offset = Len(Listing)
  <2>1. /\ page[p].shown = SubSeq(Listing, 1, page[p].offset)
        /\ load[p].notes = SubSeq(Listing, page[p].offset + 1, page[p].offset + Len(load[p].notes))
        /\ page[p].offset + Len(load[p].notes) <= Len(Listing)
        /\ ~load[p].more => page[p].offset + Len(load[p].notes) = Len(Listing)
    BY <1>3, <1>5, <1>9 DEF PageIs
  <2>2. Listing \in Seq(table)
    BY ListingIsOne DEF IInv
  <2> DEFINE o == page[p].offset
             k == Len(load[p].notes)
  <2>3. o \in Nat /\ k \in Nat /\ o + k <= Len(Listing)
    BY <1>4, <1>7, <2>1
  <2>4. shown = SubSeq(Listing, 1, o) \o SubSeq(Listing, o + 1, o + k)
    BY <2>1
  <2> HIDE DEF o, k, shown
  <2>5. shown = SubSeq(Listing, 1, o + k)
    BY <2>2, <2>3, <2>4, PagesJoin
  <2> QED
    BY <1>7, <2>1, <2>5 DEF o, k
<1> HIDE DEF shown, offset
<1>10. /\ pg \in PageOf(KnownNotes) /\ pg.shown = shown /\ pg.offset = offset
       /\ pg.more = load[p].more
  BY <1>4, <1>8 DEF PageOf
<1>11. pg.clean = page[p].clean
  BY <1>4 DEF PageOf
<1> HIDE DEF pg
<1>12. PageIs(pg, None, Listing)
  BY <1>8, <1>9, <1>10, <1>11 DEF PageIs
<1>13. /\ page' \in [Pages -> PageOf(KnownNotes')]
       /\ load' \in [Pages -> LoadOf(KnownNotes') \cup {None}]
       /\ PagesInv'
  BY <1>2, <1>6, <1>10, <1>12, OnePage
<1>14. save' = Reloaded(p)
  BY DEF EndLoad
<1>15. /\ RequestsInv'
       /\ save' \in [Pages -> SaveOf(KnownNotes') \cup {None}]
       /\ del' \in [Pages -> DeleteOf(KnownNotes') \cup {None}]
  BY <1>1, <1>2, <1>14, ReloadedKept
<1> QED
  BY <1>2, <1>13, <1>15 DEF IInv, FormsInv

\* What is shown may be edited.
LEMMA EditKeeps ==
  ASSUME IInv, NEW p \in Pages, NEW note \in KnownNotes \cup {None}, Edit(p, note)
  PROVE  IInv'
<1>1. UNCHANGED <<table, lastId, now, writes, committed, gone, told>> /\ UNCHANGED <<load, save, del>>
  BY DEF Edit, store, requests, history
<1>2. KnownNotes' = KnownNotes /\ Listing' = Listing /\ StoreInv'
  BY <1>1, StoreKept
<1>3. page \in [Pages -> PageOf(KnownNotes)] /\ load \in [Pages -> LoadOf(KnownNotes) \cup {None}]
  BY DEF IInv, FormsInv
<1>4. page[p] \in PageOf(KnownNotes) /\ load[p] \in LoadOf(KnownNotes) \cup {None}
  BY <1>3
<1> DEFINE pg == [page[p] EXCEPT !.editing = note]
<1>5. page' = [page EXCEPT ![p] = pg] /\ load' = [load EXCEPT ![p] = load[p]]
  BY <1>1, <1>3 DEF Edit
<1>6. /\ pg \in PageOf(KnownNotes) /\ pg.shown = page[p].shown /\ pg.offset = page[p].offset
      /\ pg.more = page[p].more /\ pg.clean = page[p].clean
  BY <1>4 DEF PageOf
<1> HIDE DEF pg
<1>7. PageIs(pg, load[p], Listing)
  BY <1>6 DEF IInv, PagesInv, PageIs
<1>8. /\ page' \in [Pages -> PageOf(KnownNotes')]
      /\ load' \in [Pages -> LoadOf(KnownNotes') \cup {None}]
      /\ PagesInv'
  BY <1>2, <1>4, <1>5, <1>6, <1>7, OnePage
<1>9. RequestsInv'
  BY <1>1, RequestsKept
<1>10. /\ save' \in [Pages -> SaveOf(KnownNotes') \cup {None}]
       /\ del' \in [Pages -> DeleteOf(KnownNotes') \cup {None}]
  BY <1>1, <1>2 DEF IInv, FormsInv
<1> QED
  BY <1>2, <1>8, <1>9, <1>10 DEF IInv, FormsInv

----------------------------------------------------------------------------
(* Requests. *)

\* The save of one page goes on.
LEMMA OneSave ==
  ASSUME IInv, NEW p \in Pages, NEW r \in SaveOf(KnownNotes) \cup {None},
         save' = [save EXCEPT ![p] = r], del' = del,
         r # None => r.phase # "sent" /\ SaveIs(r, writes, committed, gone),
         UNCHANGED <<writes, committed, gone>>, KnownNotes' = KnownNotes
  PROVE  /\ RequestsInv'
         /\ save' \in [Pages -> SaveOf(KnownNotes') \cup {None}]
         /\ del' \in [Pages -> DeleteOf(KnownNotes') \cup {None}]
<1>1. /\ save \in [Pages -> SaveOf(KnownNotes) \cup {None}]
      /\ del \in [Pages -> DeleteOf(KnownNotes) \cup {None}]
  BY DEF IInv, FormsInv
<1>2. \A q \in Pages : save'[q] = IF q = p THEN r ELSE save[q]
  BY <1>1
<1>3. \A q \in Pages : save'[q] # None => SaveIs(save'[q], writes, committed, gone)
  BY <1>2 DEF IInv, RequestsInv
<1>4. \A q \in Pages : Under(save'[q], "sent") => save'[q] = save[q]
  BY <1>2 DEF Under
<1>5. \A q, o \in Pages : Under(save'[q], "sent") /\ Under(save'[o], "sent")
                             /\ save'[q].text = save'[o].text => q = o
  BY <1>4 DEF IInv, RequestsInv
<1>6. RequestsInv'
  BY <1>3, <1>5 DEF IInv, RequestsInv, Under
<1> QED
  BY <1>1, <1>6

\* The deletion of one page goes on.
LEMMA OneDelete ==
  ASSUME IInv, NEW p \in Pages, NEW r \in DeleteOf(KnownNotes) \cup {None},
         del' = [del EXCEPT ![p] = r], save' = save,
         r # None => DeleteIs(r, gone),
         UNCHANGED <<writes, committed, gone>>, KnownNotes' = KnownNotes
  PROVE  /\ RequestsInv'
         /\ save' \in [Pages -> SaveOf(KnownNotes') \cup {None}]
         /\ del' \in [Pages -> DeleteOf(KnownNotes') \cup {None}]
<1>1. /\ save \in [Pages -> SaveOf(KnownNotes) \cup {None}]
      /\ del \in [Pages -> DeleteOf(KnownNotes) \cup {None}]
  BY DEF IInv, FormsInv
<1>2. \A q \in Pages : del'[q] = IF q = p THEN r ELSE del[q]
  BY <1>1
<1>3. \A q \in Pages : del'[q] # None => DeleteIs(del'[q], gone)
  BY <1>2 DEF IInv, RequestsInv
<1>4. RequestsInv'
  BY <1>3 DEF IInv, RequestsInv, Under
<1> QED
  BY <1>1, <1>4

LEMMA SaveKeeps ==
  ASSUME IInv, NEW p \in Pages, Save(p)
  PROVE  IInv'
<1>1. /\ UNCHANGED <<table, lastId, now, committed, gone, told>> /\ UNCHANGED <<page, load, del>>
      /\ writes < MaxWrites /\ writes' = writes + 1
  BY DEF Save, store
<1>2. /\ writes \in 0..MaxWrites /\ MaxWrites \in Nat /\ committed \subseteq 1..writes
  BY NumbersAssumption DEF IInv, StoreInv
<1>3. KnownNotes' = KnownNotes
  BY <1>1 DEF KnownNotes, With
<1>4. Listing' = Listing
  BY <1>1 DEF Listing, Before
<1>5. StoreInv'
  <2>1. writes' \in 0..MaxWrites /\ committed' \subseteq 1..writes'
    BY <1>1, <1>2
  <2> QED
    BY <1>1, <2>1 DEF IInv, StoreInv
<1> DEFINE r == Sent(page[p].editing, writes + 1)
<1>6. r \in SaveOf(KnownNotes) /\ r.phase = "sent" /\ r.text = writes + 1
  <2>1. page[p].editing \in KnownNotes \cup {None}
    BY Fields
  <2>2. writes + 1 \in Texts
    BY <1>1, <1>2 DEF Texts
  <2> QED
    BY <2>1, <2>2 DEF SaveOf, Sent
<1> HIDE DEF r
<1>7. save \in [Pages -> SaveOf(KnownNotes) \cup {None}] /\ save' = [save EXCEPT ![p] = r]
  BY DEF IInv, FormsInv, Save, r
<1>8. \A q \in Pages : save'[q] = IF q = p THEN r ELSE save[q]
  BY <1>7
<1>9. \A q \in Pages : save[q] # None => SaveIs(save[q], writes + 1, committed, gone)
  BY <1>2 DEF IInv, RequestsInv, SaveIs
<1>10. SaveIs(r, writes + 1, committed, gone)
  BY <1>2, <1>6 DEF SaveIs
<1>11. \A q \in Pages : save'[q] # None => SaveIs(save'[q], writes + 1, committed, gone)
  BY <1>8, <1>9, <1>10
<1>12. \A q \in Pages : Under(save[q], "sent") => save[q].text \in 1..writes
  BY DEF IInv, RequestsInv, SaveIs, Under
<1>13. \A q, o \in Pages : Under(save'[q], "sent") /\ Under(save'[o], "sent")
                             /\ save'[q].text = save'[o].text => q = o
  <2> SUFFICES ASSUME NEW q \in Pages, NEW o \in Pages, Under(save'[q], "sent"),
                      Under(save'[o], "sent"), save'[q].text = save'[o].text, q # o
               PROVE  FALSE
    OBVIOUS
  <2>1. CASE q = p
    <3>1. save[o].text = writes + 1 /\ Under(save[o], "sent")
      BY <1>6, <1>8, <2>1
    <3> QED
      BY <1>2, <1>12, <3>1
  <2>2. CASE o = p
    <3>1. save[q].text = writes + 1 /\ Under(save[q], "sent")
      BY <1>6, <1>8, <2>2
    <3> QED
      BY <1>2, <1>12, <3>1
  <2>3. CASE q # p /\ o # p
    BY <1>8, <2>3 DEF IInv, RequestsInv
  <2> QED
    BY <2>1, <2>2, <2>3
<1>14. RequestsInv'
  <2>1. \A q \in Pages : del[q] # None => DeleteIs(del[q], gone)
    BY DEF IInv, RequestsInv
  <2> QED
    BY <1>1, <1>11, <1>13, <2>1 DEF RequestsInv, Under
<1>15. save' \in [Pages -> SaveOf(KnownNotes) \cup {None}]
  BY <1>6, <1>7
<1>16. FormsInv'
  BY <1>1, <1>3, <1>15 DEF IInv, FormsInv
<1>17. PagesInv'
  BY <1>1, <1>4 DEF IInv, PagesInv
<1> QED
  BY <1>5, <1>14, <1>16, <1>17 DEF IInv

\* An answer to a save that does not touch the notebook.
LEMMA SaveAnsweredKeeps ==
  ASSUME IInv, NEW p \in Pages, UpdateMissing(p) \/ ReadBack(p) \/ SaveFails(p)
  PROVE  IInv'
<1>1. UNCHANGED <<table, lastId, now, writes, committed, gone, told>> /\ UNCHANGED <<page, load, del>>
  BY DEF UpdateMissing, ReadBack, SaveFails, store, history
<1>2. KnownNotes' = KnownNotes /\ Listing' = Listing /\ StoreInv'
  BY <1>1, StoreKept
<1>3. save \in [Pages -> SaveOf(KnownNotes) \cup {None}]
  BY DEF IInv, FormsInv
<1>4. save[p] # None /\ save[p] \in SaveOf(KnownNotes) /\ SaveIs(save[p], writes, committed, gone)
  BY <1>3 DEF UpdateMissing, ReadBack, SaveFails, Under, IInv, RequestsInv
<1>5. \E r \in SaveOf(KnownNotes) \cup {None} :
        /\ save' = [save EXCEPT ![p] = r]
        /\ r # None => r.phase # "sent" /\ SaveIs(r, writes, committed, gone)
  <2>1. CASE UpdateMissing(p)
    <3> DEFINE r == [save[p] EXCEPT !.phase = "answered", !.reply = "missing"]
    <3>1. save' = [save EXCEPT ![p] = r]
      BY <1>3, <2>1 DEF UpdateMissing
    <3>2. /\ r \in SaveOf(KnownNotes) /\ r.phase = "answered" /\ r.reply = "missing"
          /\ r.target = save[p].target
      BY <1>4 DEF SaveOf
    <3>3. save[p].target.born \in gone
      <4>1. save[p].target \in KnownNotes /\ With(save[p].target.id) = {}
        BY <1>4, <2>1 DEF SaveOf, UpdateMissing
      <4> QED
        BY <4>1 DEF KnownNotes
    <3> HIDE DEF r
    <3>4. SaveIs(r, writes, committed, gone)
      BY <3>2, <3>3 DEF SaveIs
    <3> QED
      BY <3>1, <3>2, <3>4
  <2>2. CASE ReadBack(p)
    <3> DEFINE answer == IF With(save[p].target.id) = {} THEN "error" ELSE "ok"
               r == [save[p] EXCEPT !.phase = "answered", !.reply = answer]
    <3>1. save' = [save EXCEPT ![p] = r]
      BY <1>3, <2>2 DEF ReadBack
    <3>2. /\ r \in SaveOf(KnownNotes) /\ r.phase = "answered" /\ r.reply \in {"error", "ok"}
          /\ r.text = save[p].text
      BY <1>4 DEF SaveOf
    <3>3. save[p].text \in committed
      BY <1>4, <2>2 DEF SaveIs, ReadBack, Under
    <3> HIDE DEF r
    <3>4. SaveIs(r, writes, committed, gone)
      BY <3>2, <3>3 DEF SaveIs
    <3> QED
      BY <3>1, <3>2, <3>4
  <2>3. CASE SaveFails(p)
    BY <2>3 DEF SaveFails
  <2> QED
    BY <2>1, <2>2, <2>3
<1>6. /\ RequestsInv'
      /\ save' \in [Pages -> SaveOf(KnownNotes') \cup {None}]
      /\ del' \in [Pages -> DeleteOf(KnownNotes') \cup {None}]
  BY <1>1, <1>2, <1>5, OneSave
<1>7. FormsInv'
  BY <1>1, <1>2, <1>6 DEF IInv, FormsInv
<1>8. PagesInv'
  BY <1>1, <1>2 DEF IInv, PagesInv
<1> QED
  BY <1>2, <1>6, <1>7, <1>8 DEF IInv

\* The page takes the answer to a save.
LEMMA EndSaveKeeps ==
  ASSUME IInv, NEW p \in Pages, EndSave(p)
  PROVE  IInv'
<1>1. UNCHANGED <<table, lastId, now, writes, committed, gone>> /\ del' = del
  BY DEF EndSave, store
<1>2. save \in [Pages -> SaveOf(KnownNotes) \cup {None}] /\ page \in [Pages -> PageOf(KnownNotes)]
      /\ load \in [Pages -> LoadOf(KnownNotes) \cup {None}]
  BY DEF IInv, FormsInv
<1>3. /\ save[p] # None /\ save[p].phase = "answered" /\ save[p] \in SaveOf(KnownNotes)
      /\ SaveIs(save[p], writes, committed, gone)
  BY <1>2 DEF EndSave, Under, IInv, RequestsInv
<1>4. told' = told \/ told' \subseteq committed
  BY <1>3 DEF EndSave, SaveIs, IInv, StoreInv
<1>5. KnownNotes' = KnownNotes /\ Listing' = Listing /\ StoreInv'
  BY <1>1, <1>4, StoreKept
<1>6. /\ page[p] \in PageOf(KnownNotes) /\ load[p] \in LoadOf(KnownNotes) \cup {None}
      /\ PageIs(page[p], load[p], Listing)
  BY <1>2 DEF IInv, PagesInv
<1>7. CASE save[p].reply # "ok" \/ load[p] # None
  <2>1. /\ save' = [save EXCEPT ![p] = None] /\ load' = load
        /\ page' = IF save[p].reply = "ok" THEN [page EXCEPT ![p].editing = None] ELSE page
    BY <1>7 DEF EndSave
  <2> DEFINE pg == IF save[p].reply = "ok" THEN [page[p] EXCEPT !.editing = None] ELSE page[p]
  <2>2. page' = [page EXCEPT ![p] = pg] /\ load' = [load EXCEPT ![p] = load[p]]
    BY <1>2, <2>1
  <2>3. /\ pg \in PageOf(KnownNotes) /\ pg.shown = page[p].shown /\ pg.offset = page[p].offset
        /\ pg.more = page[p].more /\ pg.clean = page[p].clean
    BY <1>6 DEF PageOf
  <2> HIDE DEF pg
  <2>4. PageIs(pg, load[p], Listing)
    BY <1>6, <2>3 DEF PageIs
  <2>5. /\ page' \in [Pages -> PageOf(KnownNotes')]
        /\ load' \in [Pages -> LoadOf(KnownNotes') \cup {None}]
        /\ PagesInv'
    BY <1>5, <1>6, <2>2, <2>3, <2>4, OnePage
  <2>6. /\ RequestsInv'
        /\ save' \in [Pages -> SaveOf(KnownNotes') \cup {None}]
        /\ del' \in [Pages -> DeleteOf(KnownNotes') \cup {None}]
    BY <1>1, <1>5, <2>1, OneSave
  <2> QED
    BY <1>5, <2>5, <2>6 DEF IInv, FormsInv
<1>8. CASE ~(save[p].reply # "ok" \/ load[p] # None)
  <2> DEFINE pg == [page[p] EXCEPT !.editing = None, !.shown = <<>>, !.offset = 0, !.clean = FALSE]
             r == [save[p] EXCEPT !.phase = "reload"]
  <2>1. save' = [save EXCEPT ![p] = r]
    BY <1>2, <1>8 DEF EndSave
  <2>2. load' = [load EXCEPT ![p] = [phase |-> "sent", offset |-> 0,
                                     notes |-> <<>>, more |-> FALSE]]
    BY <1>8 DEF EndSave
  <2>3. page' = [page EXCEPT ![p].editing = None, ![p].shown = <<>>, ![p].offset = 0,
                             ![p].clean = FALSE]
    BY <1>8 DEF EndSave
  <2>4. page' = [page EXCEPT ![p] = pg]
    BY <1>2, <2>3
  <2>5. /\ pg \in PageOf(KnownNotes) /\ pg.shown = <<>> /\ pg.offset = 0 /\ ~pg.clean
    <3>1. <<>> \in Seq(KnownNotes) /\ 0 \in 0..MaxWrites
      BY NumbersAssumption
    <3> QED
      BY <1>6, <3>1 DEF PageOf
  <2>6. r \in SaveOf(KnownNotes) /\ r.phase = "reload"
    BY <1>3 DEF SaveOf
  <2> HIDE DEF pg, r
  <2>7. /\ pg.offset = 0 /\ Len(pg.shown) = 0 /\ (0 > 0 => pg.more)
        /\ pg.clean => pg.offset <= Len(Listing) /\ pg.shown = SubSeq(Listing, 1, pg.offset)
    BY <2>5
  <2>8. /\ page' \in [Pages -> PageOf(KnownNotes')]
        /\ load' \in [Pages -> LoadOf(KnownNotes') \cup {None}]
        /\ PagesInv'
    BY <1>5, <2>2, <2>4, <2>5, <2>7, LoadStarts
  <2>9. SaveIs(r, writes, committed, gone)
    BY <2>6 DEF SaveIs
  <2>10. /\ RequestsInv'
         /\ save' \in [Pages -> SaveOf(KnownNotes') \cup {None}]
         /\ del' \in [Pages -> DeleteOf(KnownNotes') \cup {None}]
    BY <1>1, <1>5, <2>1, <2>6, <2>9, OneSave
  <2> QED
    BY <1>5, <2>8, <2>10 DEF IInv, FormsInv
<1> QED
  BY <1>7, <1>8

\* A deletion is asked for, fails, or is answered.
LEMMA DeletionsKeep ==
  ASSUME IInv, NEW p \in Pages,
         \/ \E note \in KnownNotes : Delete(p, note)
         \/ DeleteFails(p) \/ EndDelete(p)
  PROVE  IInv'
<1>1. UNCHANGED <<table, lastId, now, writes, committed, gone, told>> /\ save' = save
  BY DEF Delete, DeleteFails, EndDelete, store, history
<1>2. KnownNotes' = KnownNotes /\ Listing' = Listing /\ StoreInv'
  BY <1>1, StoreKept
<1>3. \E r \in DeleteOf(KnownNotes) \cup {None} :
        del' = [del EXCEPT ![p] = r] /\ (r # None => DeleteIs(r, gone))
  <2>1. ASSUME NEW note \in KnownNotes, Delete(p, note)
        PROVE  \E r \in DeleteOf(KnownNotes) \cup {None} :
                 del' = [del EXCEPT ![p] = r] /\ (r # None => DeleteIs(r, gone))
    <3> DEFINE r == Sent(note, None)
    <3>1. r \in DeleteOf(KnownNotes) /\ r.phase = "sent"
      BY DEF Sent, DeleteOf
    <3>2. DeleteIs(r, gone)
      BY <3>1 DEF DeleteIs
    <3> QED
      BY <2>1, <3>1, <3>2 DEF Delete
  <2>2. CASE DeleteFails(p) \/ EndDelete(p)
    BY <2>2 DEF DeleteFails, EndDelete
  <2> QED
    BY <2>1, <2>2
<1>4. /\ RequestsInv'
      /\ save' \in [Pages -> SaveOf(KnownNotes') \cup {None}]
      /\ del' \in [Pages -> DeleteOf(KnownNotes') \cup {None}]
  BY <1>1, <1>2, <1>3, OneDelete
<1>5. /\ page' \in [Pages -> PageOf(KnownNotes')]
      /\ load' \in [Pages -> LoadOf(KnownNotes') \cup {None}]
      /\ PagesInv'
  <2>1. CASE Request(p, TRUE)
    BY <1>2, <2>1, RequestKeeps
  <2>2. CASE UNCHANGED <<page, load>>
    BY <1>2, <2>2 DEF IInv, FormsInv, PagesInv
  <2>3. Request(p, TRUE) \/ UNCHANGED <<page, load>>
    BY DEF Delete, DeleteFails, EndDelete
  <2> QED
    BY <2>1, <2>2, <2>3
<1> QED
  BY <1>2, <1>4, <1>5 DEF IInv, FormsInv

LEMMA TickKeeps ==
  ASSUME IInv, Tick
  PROVE  IInv'
<1>1. /\ UNCHANGED <<table, lastId, writes, committed, gone, told>>
      /\ UNCHANGED <<page, load, save, del>> /\ now < MaxTime /\ now' = now + 1
  BY DEF Tick, store, requests, history
<1>2. KnownNotes' = KnownNotes
  BY <1>1 DEF KnownNotes, With
<1>3. Listing' = Listing
  BY <1>1 DEF Listing, Before
<1>4. StoreInv'
  <2>1. now' \in 0..MaxTime
    BY <1>1, NumbersAssumption DEF IInv, StoreInv
  <2> QED
    BY <1>1, <2>1 DEF IInv, StoreInv
<1>5. RequestsInv'
  BY <1>1, RequestsKept
<1> QED
  BY <1>1, <1>2, <1>3, <1>4, <1>5 DEF IInv, FormsInv, PagesInv

----------------------------------------------------------------------------
(* Writes. *)

\* A write makes every page unclean, and the listing another.
LEMMA WrittenKeeps ==
  ASSUME IInv, Written, load' = load, KnownNotes \subseteq KnownNotes'
  PROVE  /\ page' \in [Pages -> PageOf(KnownNotes')]
         /\ load' \in [Pages -> LoadOf(KnownNotes') \cup {None}]
         /\ PagesInv'
<1>1. page \in [Pages -> PageOf(KnownNotes)] /\ load \in [Pages -> LoadOf(KnownNotes) \cup {None}]
  BY DEF IInv, FormsInv
<1>2. ASSUME NEW q \in Pages
      PROVE  /\ page'[q] \in PageOf(KnownNotes)
             /\ page'[q].shown = page[q].shown /\ page'[q].offset = page[q].offset
             /\ page'[q].more = page[q].more /\ ~page'[q].clean
  <2>1. page'[q] = [page[q] EXCEPT !.clean = FALSE] /\ page[q] \in PageOf(KnownNotes)
    BY <1>1 DEF Written
  <2> QED
    BY <2>1 DEF PageOf
<1>3. page' \in [Pages -> PageOf(KnownNotes)]
  BY <1>2 DEF Written
<1>4. \A q \in Pages : PageIs(page'[q], load'[q], Listing')
  BY <1>2 DEF IInv, PagesInv, PageIs
<1>5. PagesInv'
  BY <1>4 DEF PagesInv
<1> QED
  BY <1>1, <1>3, <1>5, FormsOfMore

\* Saves and deletions in the face of a text committed elsewhere, or notes gone.
LEMMA OthersSee ==
  ASSUME IInv, UNCHANGED <<save, del>>, writes' \in Nat, writes <= writes',
         committed' \subseteq committed \cup ((writes + 1)..writes'),
         committed \subseteq committed', gone \subseteq gone'
  PROVE  RequestsInv'
<1>1. writes \in Nat
  BY DEF IInv, StoreInv
<1>2. (1..writes) \ committed \subseteq (1..writes') \ committed'
  BY <1>1
<1>3. ASSUME NEW q \in Pages, save[q] # None
      PROVE  SaveIs(save[q], writes', committed', gone')
  <2>1. SaveIs(save[q], writes, committed, gone)
    BY <1>3 DEF IInv, RequestsInv
  <2> QED
    BY <1>2, <2>1 DEF SaveIs
<1>4. \A q \in Pages : del[q] # None => DeleteIs(del[q], gone')
  BY DEF IInv, RequestsInv, DeleteIs
<1> QED
  BY <1>3, <1>4 DEF IInv, RequestsInv, Under

\* One text more is committed.
LEMMA TextCommitted ==
  ASSUME StoreInv, NEW text \in Texts, writes' \in 0..MaxWrites, writes <= writes',
         text \in 1..writes', committed' = committed \cup {text}
  PROVE  /\ committed' \subseteq 1..writes' /\ told \subseteq committed'
         /\ Cardinality(committed') \in Nat /\ Cardinality(committed') <= MaxWrites
         /\ lastId <= Cardinality(committed')
         /\ text \notin committed => lastId + 1 <= Cardinality(committed')
<1>1. /\ committed \subseteq 1..writes /\ writes \in Nat /\ writes' \in Nat /\ MaxWrites \in Nat
      /\ writes' <= MaxWrites /\ lastId \in Nat /\ lastId <= Cardinality(committed)
      /\ told \subseteq committed
  BY NumbersAssumption DEF StoreInv
<1>2. committed' \subseteq 1..writes'
  BY <1>1
<1>3. IsFiniteSet(committed) /\ Cardinality(committed) \in Nat
  BY RowsAreFew
<1>4. Cardinality(committed') = IF text \in committed THEN Cardinality(committed)
                                ELSE Cardinality(committed) + 1
  BY <1>3, FS_AddElement
<1>5. Cardinality(committed') <= writes'
  <2>1. committed' \in SUBSET (1..writes')
    BY <1>2
  <2>2. IsFiniteSet(1..writes') /\ Cardinality(1..writes') = writes'
    BY <1>1, FS_Interval
  <2> QED
    BY <2>1, <2>2, FS_Subset
<1>6. Cardinality(committed') \in Nat
  BY <1>3, <1>4
<1> QED
  BY <1>1, <1>2, <1>3, <1>4, <1>5, <1>6

LEMMA RowAdded ==
  ASSUME StoreInv, NEW text \in Texts, writes' \in 0..MaxWrites, writes <= writes',
         text \in (1..writes') \ committed, committed' = committed \cup {text},
         table' = table \cup {[id |-> NewId, born |-> text, text |-> text, at |-> now]},
         lastId' = NewId, UNCHANGED <<now, gone, told>>
  PROVE  StoreInv' /\ StoreStep
<1>1. /\ table \subseteq Note /\ IsFiniteSet(table) /\ lastId \in Nat /\ now \in 0..MaxTime
      /\ \A n \in table : n.id <= lastId
      /\ \A m, n \in table : m.id = n.id => m = n
  BY DEF StoreInv
<1>2. /\ committed' \subseteq 1..writes' /\ told \subseteq committed'
      /\ Cardinality(committed') \in Nat /\ Cardinality(committed') <= MaxWrites
      /\ lastId + 1 <= Cardinality(committed')
  BY TextCommitted
<1> DEFINE row == [id |-> NewId, born |-> text, text |-> text, at |-> now]
<1>3. row \in Note /\ row.id = lastId + 1 /\ lastId' = lastId + 1
  <2>1. lastId + 1 \in 1..MaxWrites
    BY <1>1, <1>2, NumbersAssumption
  <2> QED
    BY <1>1, <2>1 DEF Note, NewId
<1> HIDE DEF row
<1>4. table' = table \cup {row}
  BY DEF row
<1>5. table' \subseteq Note /\ IsFiniteSet(table')
  BY <1>1, <1>3, <1>4, FS_AddElement
<1>6. \A n \in table : n.id \in Nat
  BY <1>1 DEF Note
<1>7. \A n \in table' : n.id <= lastId'
  BY <1>1, <1>3, <1>4, <1>6
<1>8. \A m, n \in table' : m.id = n.id => m = n
  BY <1>1, <1>3, <1>4, <1>6
<1>9. StoreInv'
  BY <1>1, <1>2, <1>3, <1>5, <1>7, <1>8 DEF StoreInv
<1>10. StoreStep
  BY <1>1, <1>3, <1>4 DEF StoreStep
<1> QED
  BY <1>9, <1>10

LEMMA RowChanged ==
  ASSUME StoreInv, NEW text \in Texts, NEW note \in table,
         writes' \in 0..MaxWrites, writes <= writes',
         text \in 1..writes', committed' = committed \cup {text},
         table' = (table \ {note}) \cup {[note EXCEPT !.text = text, !.at = now]},
         UNCHANGED <<lastId, now, gone, told>>
  PROVE  StoreInv' /\ StoreStep
<1>1. /\ table \subseteq Note /\ IsFiniteSet(table) /\ lastId \in Nat /\ now \in 0..MaxTime
      /\ \A n \in table : n.id <= lastId
      /\ \A m, n \in table : m.id = n.id => m = n
  BY DEF StoreInv
<1>2. /\ committed' \subseteq 1..writes' /\ told \subseteq committed'
      /\ lastId <= Cardinality(committed')
  BY TextCommitted
<1> DEFINE row == [note EXCEPT !.text = text, !.at = now]
<1>3. row \in Note /\ row.id = note.id /\ row.born = note.born
  BY <1>1 DEF Note
<1> HIDE DEF row
<1>4. table' = (table \ {note}) \cup {row}
  BY DEF row
<1>5. table' \subseteq Note /\ IsFiniteSet(table')
  <2>1. IsFiniteSet(table \ {note})
    BY <1>1, FS_RemoveElement
  <2>2. IsFiniteSet((table \ {note}) \cup {row})
    BY <2>1, FS_AddElement
  <2> QED
    BY <1>1, <1>3, <1>4, <2>2
<1>6. \A n \in table' : n.id <= lastId'
  BY <1>1, <1>3, <1>4
<1>7. \A m, n \in table' : m.id = n.id => m = n
  BY <1>1, <1>3, <1>4
<1>8. StoreInv'
  BY <1>1, <1>2, <1>5, <1>6, <1>7 DEF StoreInv
<1>9. StoreStep
  BY <1>1, <1>3, <1>4 DEF StoreStep
<1> QED
  BY <1>8, <1>9

LEMMA RowsRemoved ==
  ASSUME StoreInv, NEW found \in SUBSET table, table' = table \ found,
         gone' = gone \cup {n.born : n \in found},
         UNCHANGED <<lastId, now, writes, committed, told>>
  PROVE  StoreInv' /\ StoreStep
<1>1. /\ table \subseteq Note /\ IsFiniteSet(table) /\ lastId \in Nat /\ gone \subseteq Texts
  BY DEF StoreInv
<1>2. gone' \subseteq Texts
  BY <1>1 DEF Note
<1>3. IsFiniteSet(table')
  <2>1. table' \in SUBSET table
    OBVIOUS
  <2> QED
    BY <1>1, <2>1, FS_Subset
<1>4. StoreInv'
  BY <1>2, <1>3 DEF StoreInv
<1>5. StoreStep
  BY <1>1 DEF StoreStep
<1> QED
  BY <1>4, <1>5

LEMMA CreateElsewhereKeeps ==
  ASSUME IInv, CreateElsewhere
  PROVE  IInv'
<1>1. /\ writes < MaxWrites /\ writes' = writes + 1
      /\ table' = table \cup {[id |-> NewId, born |-> writes', text |-> writes', at |-> now]}
      /\ lastId' = NewId /\ committed' = committed \cup {writes'} /\ Written
      /\ UNCHANGED <<now, gone, told>> /\ UNCHANGED <<load, save, del>>
  BY DEF CreateElsewhere, requests
<1>2. /\ writes \in 0..MaxWrites /\ MaxWrites \in Nat /\ committed \subseteq 1..writes /\ StoreInv
  BY NumbersAssumption DEF IInv, StoreInv
<1>3. /\ writes' \in Texts /\ writes' \in 0..MaxWrites /\ writes <= writes'
      /\ writes' \in (1..writes') \ committed
  BY <1>1, <1>2 DEF Texts
<1>4. StoreInv' /\ StoreStep
  BY <1>1, <1>2, <1>3, RowAdded
<1>5. KnownNotes \subseteq KnownNotes'
  BY <1>2, <1>4, KnownNotesStay
<1>6. /\ page' \in [Pages -> PageOf(KnownNotes')]
      /\ load' \in [Pages -> LoadOf(KnownNotes') \cup {None}]
      /\ PagesInv'
  BY <1>1, <1>5, WrittenKeeps
<1>7. RequestsInv'
  <2>1. writes' \in Nat /\ committed' \subseteq committed \cup ((writes + 1)..writes')
    BY <1>1, <1>2
  <2> QED
    BY <1>1, <1>3, <2>1, OthersSee
<1>8. FormsInv'
  BY <1>1, <1>5, <1>6, FormsOfMore DEF IInv, FormsInv
<1> QED
  BY <1>4, <1>6, <1>7, <1>8 DEF IInv

LEMMA UpdateElsewhereKeeps ==
  ASSUME IInv, NEW note \in table, UpdateElsewhere(note)
  PROVE  IInv'
<1>1. /\ writes < MaxWrites /\ writes' = writes + 1
      /\ table' = (table \ {note}) \cup {[note EXCEPT !.text = writes', !.at = now]}
      /\ committed' = committed \cup {writes'} /\ Written
      /\ UNCHANGED <<lastId, now, gone, told>> /\ UNCHANGED <<load, save, del>>
  BY DEF UpdateElsewhere, requests
<1>2. /\ writes \in 0..MaxWrites /\ MaxWrites \in Nat /\ StoreInv
  BY NumbersAssumption DEF IInv, StoreInv
<1>3. /\ writes' \in Texts /\ writes' \in 0..MaxWrites /\ writes <= writes'
      /\ writes' \in 1..writes'
  BY <1>1, <1>2 DEF Texts
<1>4. StoreInv' /\ StoreStep
  BY <1>1, <1>2, <1>3, RowChanged
<1>5. KnownNotes \subseteq KnownNotes'
  BY <1>2, <1>4, KnownNotesStay
<1>6. /\ page' \in [Pages -> PageOf(KnownNotes')]
      /\ load' \in [Pages -> LoadOf(KnownNotes') \cup {None}]
      /\ PagesInv'
  BY <1>1, <1>5, WrittenKeeps
<1>7. RequestsInv'
  <2>1. writes' \in Nat /\ committed' \subseteq committed \cup ((writes + 1)..writes')
    BY <1>1, <1>2
  <2> QED
    BY <1>1, <1>3, <2>1, OthersSee
<1>8. FormsInv'
  BY <1>1, <1>5, <1>6, FormsOfMore DEF IInv, FormsInv
<1> QED
  BY <1>4, <1>6, <1>7, <1>8 DEF IInv

LEMMA DeleteElsewhereKeeps ==
  ASSUME IInv, NEW note \in table, DeleteElsewhere(note)
  PROVE  IInv'
<1>1. /\ table' = table \ {note} /\ gone' = gone \cup {note.born} /\ Written
      /\ UNCHANGED <<lastId, now, writes, committed, told>> /\ UNCHANGED <<load, save, del>>
  BY DEF DeleteElsewhere, requests
<1>2. {n.born : n \in {note}} = {note.born}
  OBVIOUS
<1>3. StoreInv /\ writes \in Nat
  BY DEF IInv, StoreInv
<1>4. StoreInv' /\ StoreStep
  <2>1. {note} \in SUBSET table /\ gone' = gone \cup {n.born : n \in {note}}
    BY <1>1, <1>2
  <2> QED
    BY <1>1, <1>3, <2>1, RowsRemoved
<1>5. KnownNotes \subseteq KnownNotes'
  BY <1>3, <1>4, KnownNotesStay
<1>6. /\ page' \in [Pages -> PageOf(KnownNotes')]
      /\ load' \in [Pages -> LoadOf(KnownNotes') \cup {None}]
      /\ PagesInv'
  BY <1>1, <1>5, WrittenKeeps
<1>7. RequestsInv'
  <2>1. /\ writes' \in Nat /\ writes <= writes' /\ committed \subseteq committed'
        /\ committed' \subseteq committed \cup ((writes + 1)..writes') /\ gone \subseteq gone'
    BY <1>1, <1>3
  <2> QED
    BY <1>1, <2>1, OthersSee
<1>8. FormsInv'
  BY <1>1, <1>5, <1>6, FormsOfMore DEF IInv, FormsInv
<1> QED
  BY <1>4, <1>6, <1>7, <1>8 DEF IInv

\* A save of a page commits its text, which no other save has.
LEMMA SaveCommits ==
  ASSUME IInv, NEW p \in Pages, Under(save[p], "sent"), NEW r,
         save' = [save EXCEPT ![p] = r],
         r.phase \in {"wrote", "answered"}, r.text = save[p].text,
         r.phase = "wrote" => r.target # None, r.phase = "answered" => r.reply = "ok",
         committed' = committed \cup {save[p].text}, UNCHANGED <<writes, gone, del>>
  PROVE  RequestsInv'
<1>1. save \in [Pages -> SaveOf(KnownNotes) \cup {None}]
  BY DEF IInv, FormsInv
<1>2. \A q \in Pages : save'[q] = IF q = p THEN r ELSE save[q]
  BY <1>1
<1>3. SaveIs(r, writes, committed', gone)
  BY DEF SaveIs
<1>4. ASSUME NEW q \in Pages, q # p, save[q] # None
      PROVE  SaveIs(save[q], writes, committed', gone)
  <2>1. SaveIs(save[q], writes, committed, gone)
    BY <1>4 DEF IInv, RequestsInv
  <2>2. save[q].phase = "sent" => save[q].text # save[p].text
    BY <1>4 DEF IInv, RequestsInv, Under
  <2> QED
    BY <2>1, <2>2 DEF SaveIs
<1>5. \A q \in Pages : save'[q] # None => SaveIs(save'[q], writes, committed', gone)
  BY <1>2, <1>3, <1>4
<1>6. \A q \in Pages : Under(save'[q], "sent") => save'[q] = save[q]
  BY <1>2 DEF Under
<1>7. \A q, o \in Pages : Under(save'[q], "sent") /\ Under(save'[o], "sent")
                             /\ save'[q].text = save'[o].text => q = o
  BY <1>6 DEF IInv, RequestsInv
<1>8. \A q \in Pages : del[q] # None => DeleteIs(del[q], gone)
  BY DEF IInv, RequestsInv
<1> QED
  BY <1>5, <1>7, <1>8 DEF RequestsInv, Under

LEMMA ServeCreateKeeps ==
  ASSUME IInv, NEW p \in Pages, ServeCreate(p)
  PROVE  IInv'
<1> DEFINE text == save[p].text
           r == [save[p] EXCEPT !.phase = "answered", !.reply = "ok"]
<1>1. /\ Under(save[p], "sent") /\ Written /\ committed' = committed \cup {text}
      /\ table' = table \cup {[id |-> NewId, born |-> text, text |-> text, at |-> now]}
      /\ lastId' = NewId
      /\ UNCHANGED <<now, load, del, writes, gone, told>>
  BY DEF ServeCreate
<1>2. save \in [Pages -> SaveOf(KnownNotes) \cup {None}] /\ StoreInv
  BY DEF IInv, FormsInv
<1>3. /\ save[p] \in SaveOf(KnownNotes) /\ text \in (1..writes) \ committed
      /\ text \in Texts /\ writes \in 0..MaxWrites
  BY <1>1, <1>2 DEF IInv, RequestsInv, SaveIs, Under, SaveOf, StoreInv
<1>4. save' = [save EXCEPT ![p] = r]
  BY <1>2 DEF ServeCreate
<1>5. r \in SaveOf(KnownNotes) /\ r.phase = "answered" /\ r.reply = "ok" /\ r.text = text
  BY <1>3 DEF SaveOf
<1> HIDE DEF r, text
<1>6. StoreInv' /\ StoreStep
  BY <1>1, <1>2, <1>3, RowAdded
<1>7. KnownNotes \subseteq KnownNotes'
  BY <1>2, <1>6, KnownNotesStay
<1>8. /\ page' \in [Pages -> PageOf(KnownNotes')]
      /\ load' \in [Pages -> LoadOf(KnownNotes') \cup {None}]
      /\ PagesInv'
  BY <1>1, <1>7, WrittenKeeps
<1>9. RequestsInv'
  BY <1>1, <1>4, <1>5, SaveCommits DEF text
<1>10. FormsInv'
  <2>1. save' \in [Pages -> SaveOf(KnownNotes) \cup {None}]
    BY <1>2, <1>4, <1>5
  <2> QED
    BY <1>1, <1>7, <1>8, <2>1, FormsOfMore DEF IInv, FormsInv
<1> QED
  BY <1>6, <1>8, <1>9, <1>10 DEF IInv

LEMMA UpdateRowKeeps ==
  ASSUME IInv, NEW p \in Pages, UpdateRow(p)
  PROVE  IInv'
<1> DEFINE text == save[p].text
           r == [save[p] EXCEPT !.phase = "wrote"]
<1>1. /\ Under(save[p], "sent") /\ save[p].target # None /\ Written
      /\ committed' = committed \cup {text}
      /\ UNCHANGED <<lastId, now, load, del, writes, gone, told>>
  BY DEF UpdateRow
<1>2. PICK note \in table :
        table' = (table \ {note}) \cup {[note EXCEPT !.text = text, !.at = now]}
  BY DEF UpdateRow, With
<1>3. save \in [Pages -> SaveOf(KnownNotes) \cup {None}] /\ StoreInv
  BY DEF IInv, FormsInv
<1>4. /\ save[p] \in SaveOf(KnownNotes) /\ text \in 1..writes
      /\ text \in Texts /\ writes \in 0..MaxWrites
  BY <1>1, <1>3 DEF IInv, RequestsInv, SaveIs, Under, SaveOf, StoreInv
<1>5. save' = [save EXCEPT ![p] = r]
  BY <1>3 DEF UpdateRow
<1>6. /\ r \in SaveOf(KnownNotes) /\ r.phase = "wrote" /\ r.text = text
      /\ r.target = save[p].target
  BY <1>4 DEF SaveOf
<1> HIDE DEF r, text
<1>7. StoreInv' /\ StoreStep
  <2>1. writes' \in 0..MaxWrites /\ writes <= writes' /\ text \in 1..writes'
    BY <1>1, <1>4
  <2> QED
    BY <1>1, <1>2, <1>3, <1>4, <2>1, RowChanged
<1>8. KnownNotes \subseteq KnownNotes'
  BY <1>3, <1>7, KnownNotesStay
<1>9. /\ page' \in [Pages -> PageOf(KnownNotes')]
      /\ load' \in [Pages -> LoadOf(KnownNotes') \cup {None}]
      /\ PagesInv'
  BY <1>1, <1>8, WrittenKeeps
<1>10. RequestsInv'
  BY <1>1, <1>5, <1>6, SaveCommits DEF text
<1>11. FormsInv'
  <2>1. save' \in [Pages -> SaveOf(KnownNotes) \cup {None}]
    BY <1>3, <1>5, <1>6
  <2> QED
    BY <1>1, <1>8, <1>9, <2>1, FormsOfMore DEF IInv, FormsInv
<1> QED
  BY <1>7, <1>9, <1>10, <1>11 DEF IInv

LEMMA ServeDeleteKeeps ==
  ASSUME IInv, NEW p \in Pages, ServeDelete(p)
  PROVE  IInv'
<1> DEFINE found == With(del[p].target.id)
           answer == IF found = {} THEN "missing" ELSE "ok"
           r == [del[p] EXCEPT !.phase = "answered", !.reply = answer]
<1>1. /\ Under(del[p], "sent") /\ table' = table \ found
      /\ gone' = gone \cup {n.born : n \in found}
      /\ IF found = {} THEN UNCHANGED page ELSE Written
      /\ UNCHANGED <<lastId, now, load, save, writes, committed, told>>
  BY DEF ServeDelete
<1>2. del \in [Pages -> DeleteOf(KnownNotes) \cup {None}] /\ StoreInv
  BY DEF IInv, FormsInv
<1>3. del[p] \in DeleteOf(KnownNotes) /\ del[p].target \in KnownNotes
  BY <1>1, <1>2 DEF Under, DeleteOf
<1>4. del' = [del EXCEPT ![p] = r]
  BY <1>2 DEF ServeDelete
<1>5. r \in DeleteOf(KnownNotes) /\ r.target = del[p].target
  BY <1>3 DEF DeleteOf
<1>6. del[p].target.born \in gone'
  <2>1. CASE found = {}
    BY <1>1, <1>3, <2>1 DEF KnownNotes
  <2>2. CASE found # {}
    <3>1. PICK n \in found : TRUE
      BY <2>2
    <3>2. n \in table /\ n.id = del[p].target.id
      BY <3>1 DEF With
    <3>3. n.born = del[p].target.born
      BY <1>3, <3>2 DEF KnownNotes
    <3> QED
      BY <1>1, <3>1, <3>3
  <2> QED
    BY <2>1, <2>2
<1>7. found \in SUBSET table
  BY DEF With
<1> HIDE DEF found, r
<1>8. StoreInv' /\ StoreStep
  BY <1>1, <1>2, <1>7, RowsRemoved
<1>9. KnownNotes \subseteq KnownNotes'
  BY <1>2, <1>8, KnownNotesStay
<1>10. /\ page' \in [Pages -> PageOf(KnownNotes')]
       /\ load' \in [Pages -> LoadOf(KnownNotes') \cup {None}]
       /\ PagesInv'
  <2>1. CASE found = {}
    <3>1. table' = table /\ page' = page
      BY <1>1, <2>1
    <3>2. Listing' = Listing
      BY <3>1 DEF Listing, Before
    <3> QED
      BY <1>1, <1>9, <3>1, <3>2, FormsOfMore DEF IInv, FormsInv, PagesInv
  <2>2. CASE found # {}
    BY <1>1, <1>9, <2>2, WrittenKeeps
  <2> QED
    BY <2>1, <2>2
<1>11. RequestsInv'
  <2>1. \A q \in Pages : del'[q] = IF q = p THEN r ELSE del[q]
    BY <1>2, <1>4
  <2>2. \A q \in Pages : del'[q] # None => DeleteIs(del'[q], gone')
    BY <1>1, <1>5, <1>6, <2>1 DEF IInv, RequestsInv, DeleteIs
  <2>3. \A q \in Pages : save[q] # None => SaveIs(save[q], writes, committed, gone')
    BY <1>1 DEF IInv, RequestsInv, SaveIs
  <2> QED
    BY <1>1, <2>2, <2>3 DEF IInv, RequestsInv, Under
<1>12. FormsInv'
  <2>1. del' \in [Pages -> DeleteOf(KnownNotes) \cup {None}]
    BY <1>2, <1>4, <1>5
  <2> QED
    BY <1>1, <1>9, <1>10, <2>1, FormsOfMore DEF IInv, FormsInv
<1> QED
  BY <1>8, <1>10, <1>11, <1>12 DEF IInv

----------------------------------------------------------------------------
(* The invariant holds, and what follows from it. *)

LEMMA InitIInv == Init => IInv
<1> SUFFICES ASSUME Init PROVE IInv
  OBVIOUS
<1>1. /\ table = {} /\ lastId = 0 /\ now = 0 /\ writes = 0
      /\ committed = {} /\ gone = {} /\ told = {}
  BY DEF Init
<1>2. StoreInv
  BY <1>1, FS_EmptySet, NumbersAssumption DEF StoreInv
<1> DEFINE pg == [shown |-> <<>>, offset |-> 0, more |-> FALSE, clean |-> FALSE, editing |-> None]
<1>3. /\ page = [p \in Pages |-> pg] /\ load = [p \in Pages |-> None]
      /\ save = [p \in Pages |-> None] /\ del = [p \in Pages |-> None]
  BY DEF Init
<1>4. pg \in PageOf(KnownNotes) /\ pg.shown = <<>> /\ pg.offset = 0 /\ ~pg.clean
  <2>1. <<>> \in Seq(KnownNotes) /\ 0 \in 0..MaxWrites
    BY NumbersAssumption
  <2> QED
    BY <2>1 DEF PageOf
<1> HIDE DEF pg
<1>5. FormsInv
  BY <1>3, <1>4 DEF FormsInv
<1>6. RequestsInv
  BY <1>3 DEF RequestsInv, Under
<1>7. PageIs(pg, None, Listing)
  BY <1>4 DEF PageIs
<1>8. PagesInv
  BY <1>3, <1>7 DEF PagesInv
<1> QED
  BY <1>2, <1>5, <1>6, <1>8 DEF IInv

\* What a page shows is known.
LEMMA ShownIsKnown ==
  ASSUME IInv, NEW p \in Pages, NEW i \in DOMAIN page[p].shown
  PROVE  page[p].shown[i] \in KnownNotes
<1>1. page[p].shown \in Seq(KnownNotes)
  BY Fields
<1> QED
  BY <1>1, LenProperties, ElementOfSeq

LEMMA NextIInv == IInv /\ [Next]_vars => IInv'
<1> SUFFICES ASSUME IInv, [Next]_vars PROVE IInv'
  OBVIOUS
<1>1. ASSUME NEW p \in Pages, Use(p) PROVE IInv'
  <2>1. CASE Open(p) \/ LoadMore(p)
    BY <2>1, OpenKeeps
  <2>2. CASE Save(p)
    BY <2>2, SaveKeeps
  <2>3. CASE Edit(p, None)
    BY <2>3, EditKeeps
  <2>4. ASSUME NEW i \in DOMAIN page[p].shown, Edit(p, page[p].shown[i])
        PROVE  IInv'
    BY <2>4, ShownIsKnown, EditKeeps
  <2>5. ASSUME NEW i \in DOMAIN page[p].shown, Delete(p, page[p].shown[i])
        PROVE  IInv'
    <3>1. \E note \in KnownNotes : Delete(p, note)
      BY <2>5, ShownIsKnown
    <3> QED
      BY <3>1, DeletionsKeep
  <2> QED
    BY <1>1, <2>1, <2>2, <2>3, <2>4, <2>5 DEF Use
<1>2. ASSUME NEW p \in Pages, ListStep(p) PROVE IInv'
  BY <1>2, ServeListKeeps, ListFailsKeeps, EndLoadKeeps DEF ListStep
<1>3. ASSUME NEW p \in Pages, SaveStep(p) PROVE IInv'
  BY <1>3, ServeCreateKeeps, UpdateRowKeeps, SaveAnsweredKeeps, EndSaveKeeps DEF SaveStep
<1>4. ASSUME NEW p \in Pages, DeleteStep(p) PROVE IInv'
  BY <1>4, ServeDeleteKeeps, DeletionsKeep DEF DeleteStep
<1>5. CASE CreateElsewhere
  BY <1>5, CreateElsewhereKeeps
<1>6. ASSUME NEW note \in table, UpdateElsewhere(note) \/ DeleteElsewhere(note) PROVE IInv'
  BY <1>6, UpdateElsewhereKeeps, DeleteElsewhereKeeps
<1>7. CASE Tick
  BY <1>7, TickKeeps
<1>8. CASE UNCHANGED vars
  <2>1. UNCHANGED <<table, lastId, now, writes, committed, gone, told>>
        /\ UNCHANGED <<page, load, save, del>>
    BY <1>8 DEF vars, store, requests, history
  <2>2. KnownNotes' = KnownNotes /\ Listing' = Listing /\ StoreInv'
    BY <2>1, StoreKept
  <2>3. RequestsInv'
    BY <2>1, RequestsKept
  <2> QED
    BY <2>1, <2>2, <2>3 DEF IInv, FormsInv, PagesInv
<1> QED
  BY <1>1, <1>2, <1>3, <1>4, <1>5, <1>6, <1>7, <1>8 DEF Next

\* The inductive invariant of the notes, the loads and the requests.
THEOREM Invariance == Spec => []IInv
<1> QED
  BY InitIInv, NextIInv, PTL DEF Spec

LEMMA TypesFollow == IInv => TypeOK
<1> SUFFICES ASSUME IInv PROVE TypeOK
  OBVIOUS
<1>1. StoreInv /\ FormsInv
  BY DEF IInv
<1>2. lastId \in 0..MaxWrites
  BY <1>1, RowsAreFew, NumbersAssumption DEF StoreInv
<1>3. committed \subseteq Texts /\ told \subseteq Texts
  BY <1>1, NumbersAssumption DEF StoreInv, Texts
<1>4. KnownNotes \subseteq Note
  BY DEF KnownNotes
<1>5. PageOf(Note) = Page /\ LoadOf(Note) = Load
  BY DEF PageOf, Page, LoadOf, Load
<1>6. SaveOf(Note) \subseteq Change /\ DeleteOf(Note) \subseteq Change
  BY DEF SaveOf, DeleteOf, Change
<1>7. /\ page \in [Pages -> PageOf(Note)] /\ load \in [Pages -> LoadOf(Note) \cup {None}]
      /\ save \in [Pages -> SaveOf(Note) \cup {None}]
      /\ del \in [Pages -> DeleteOf(Note) \cup {None}]
  BY <1>1, <1>4, FormsOfMore DEF FormsInv
<1>8. /\ save \in [Pages -> Change \cup {None}] /\ del \in [Pages -> Change \cup {None}]
  BY <1>6, <1>7
<1> QED
  BY <1>1, <1>2, <1>3, <1>5, <1>7, <1>8 DEF TypeOK, StoreInv

\* The types of the notebook, the pages and their requests: among them, that no
\* more ids are given out than notes were saved.
THEOREM TypeCorrect == Spec => []TypeOK
<1> QED
  BY Invariance, TypesFollow, PTL

LEMMA PagesFollow == IInv => PagesAddUp
<1> SUFFICES ASSUME IInv, NEW p \in Pages, page[p].clean, load[p] = None, ~page[p].more
             PROVE  page[p].shown = Listing
  BY DEF PagesAddUp
<1>1. PageIs(page[p], load[p], Listing)
  BY DEF IInv, PagesInv
<1>2. page[p].offset = Len(Listing) /\ page[p].shown = SubSeq(Listing, 1, page[p].offset)
  BY <1>1 DEF PageIs
<1>3. Listing \in Seq(table)
  BY ListingIsOne DEF IInv
<1>4. SubSeq(Listing, 1, Len(Listing)) = Listing
  BY <1>3, SubSeqFull
<1> QED
  BY <1>2, <1>4

\* loadNotes and handleListNotes: page after page, whatever loads failed on the
\* way, a list that nobody has written to shows every note once, in order.
THEOREM WholeListing == Spec => []PagesAddUp
<1> QED
  BY Invariance, PagesFollow, PTL

LEMMA AnswersFollow == IInv => AnswersAreTrue
BY DEF IInv, RequestsInv, SaveIs, DeleteIs, Under, AnswersAreTrue

\* handleUpdateNote, handleCreateNote and handleDeleteNote: "saved" means
\* committed, "deleted" and "not found" mean gone.
THEOREM TrueAnswers == Spec => []AnswersAreTrue
<1> QED
  BY Invariance, AnswersFollow, PTL

\* Only three steps of a page touch a row, and each finds it by the id of a
\* known note.
LEMMA StepsHit == IInv /\ [Next]_vars => [HitsItsNote]_vars
<1> SUFFICES ASSUME IInv, Next, NEW p \in Pages, NEW n \in table \ table'
             PROVE  /\ save'[p] # save[p] => save[p].target.born = n.born
                    /\ del'[p] # del[p] => del[p].target.born = n.born
  BY DEF HitsItsNote
<1>1. /\ save \in [Pages -> SaveOf(KnownNotes) \cup {None}]
      /\ del \in [Pages -> DeleteOf(KnownNotes) \cup {None}]
  BY DEF IInv, FormsInv
<1>2. ASSUME NEW q \in Pages, UpdateRow(q)
      PROVE  /\ save'[p] # save[p] => save[p].target.born = n.born
             /\ del'[p] # del[p] => del[p].target.born = n.born
  <2>1. PICK note \in With(save[q].target.id) :
          table' = (table \ {note}) \cup {[note EXCEPT !.text = save[q].text, !.at = now]}
    BY <1>2 DEF UpdateRow
  <2>2. n = note /\ n.id = save[q].target.id
    BY <2>1 DEF With
  <2>3. save[q].target \in KnownNotes
    BY <1>1, <1>2 DEF UpdateRow, Under, SaveOf
  <2>4. save[q].target.born = n.born
    BY <2>2, <2>3 DEF KnownNotes
  <2>5. (save'[p] # save[p] => p = q) /\ del' = del
    BY <1>1, <1>2 DEF UpdateRow
  <2> QED
    BY <2>4, <2>5
<1>3. ASSUME NEW q \in Pages, ServeDelete(q)
      PROVE  /\ save'[p] # save[p] => save[p].target.born = n.born
             /\ del'[p] # del[p] => del[p].target.born = n.born
  <2>1. n.id = del[q].target.id
    BY <1>3 DEF ServeDelete, With
  <2>2. del[q].target \in KnownNotes
    BY <1>1, <1>3 DEF ServeDelete, Under, DeleteOf
  <2>3. del[q].target.born = n.born
    BY <2>1, <2>2 DEF KnownNotes
  <2>4. (del'[p] # del[p] => p = q) /\ save' = save
    BY <1>1, <1>3 DEF ServeDelete
  <2> QED
    BY <2>3, <2>4
<1>4. ASSUME NEW q \in Pages, ServeCreate(q) PROVE FALSE
  BY <1>4 DEF ServeCreate
<1>5. CASE CreateElsewhere
  BY <1>5 DEF CreateElsewhere
<1>6. ASSUME NEW note \in table, UpdateElsewhere(note) \/ DeleteElsewhere(note)
      PROVE  save' = save /\ del' = del
  BY <1>6 DEF UpdateElsewhere, DeleteElsewhere, requests
<1>7. CASE Tick
  BY <1>7 DEF Tick, store
<1>8. ASSUME NEW q \in Pages, Use(q) PROVE FALSE
  BY <1>8 DEF Use, Open, LoadMore, Save, Edit, Delete, store
<1>9. ASSUME NEW q \in Pages, ListStep(q) PROVE FALSE
  BY <1>9 DEF ListStep, ServeList, ListFails, EndLoad, store
<1>10. ASSUME NEW q \in Pages,
              UpdateMissing(q) \/ ReadBack(q) \/ SaveFails(q) \/ EndSave(q)
       PROVE  FALSE
  BY <1>10 DEF UpdateMissing, ReadBack, SaveFails, EndSave, store
<1>11. ASSUME NEW q \in Pages, DeleteFails(q) \/ EndDelete(q) PROVE FALSE
  BY <1>11 DEF DeleteFails, EndDelete, store
<1> QED
  BY <1>2, <1>3, <1>4, <1>5, <1>6, <1>7, <1>8, <1>9, <1>10, <1>11
     DEF Next, SaveStep, DeleteStep

\* The edit and delete buttons carry an id only: what they change is the note
\* the page showed, however old its list, since AUTOINCREMENT uses no id twice.
THEOREM RightNote == Spec => StaleRequestsHitTheirNote
<1> QED
  BY Invariance, StepsHit, PTL DEF Spec, StaleRequestsHitTheirNote
=============================================================================

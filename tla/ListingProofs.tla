----------------------------- MODULE ListingProofs -----------------------------
(***************************************************************************)
(* Proofs about Listing, for any number of transactions and updates and    *)
(* any course of the clock.                                                *)
(*                                                                         *)
(* First, list() is a permutation of the Map's entries, sorted by          *)
(* AtOrBefore.  Then, the Map only ever grows at its end, and no entry     *)
(* changes its id or its time, so a listing stays a sorted permutation of  *)
(* the entries there were when it was made; the properties compare such    *)
(* permutations.                                                           *)
(***************************************************************************)
EXTENDS Listing, FiniteSetTheorems, TLAPS

(* p gives the place in the Map of each place in the listing l. *)
Shows(l, p) ==
  /\ p \in [1..Len(l) -> 1..Len(l)]
  /\ \A m \in 1..Len(l) :
       /\ l[m].id = store[p[m]].id
       /\ l[m].createdAt = store[p[m]].createdAt
  /\ \A i \in 1..Len(l) : \E m \in 1..Len(l) : p[m] = i
  /\ \A m, n \in 1..Len(l) : m < n => p[m] # p[n] /\ AtOrBefore(p[m], p[n])

(* l listed the oldest entries of the Map, as many as it has. *)
IsListing(l) ==
  /\ Len(l) <= Len(store)
  /\ \E p \in [1..Len(l) -> 1..Len(l)] : Shows(l, p)

(* On a clock nobody sets, the Map is in the order of its times. *)
InOrderOfTime ==
  steady =>
    /\ \A i \in 1..Len(store) : store[i].createdAt <= now
    /\ \A i, j \in 1..Len(store) :
         i < j => store[i].createdAt <= store[j].createdAt

ListingInv ==
  /\ TypeOK
  /\ \A k \in 1..Len(listed) : IsListing(listed[k])
  /\ Len(listed) = 2 => Len(listed[2]) <= Len(listed[1])
  /\ InOrderOfTime

-------------------------------------------------------------------------------
LEMMA StoreFacts ==
  ASSUME TypeOK
  PROVE  /\ Len(store) \in Nat
         /\ DOMAIN store = 1..Len(store)
         /\ \A i \in 1..Len(store) :
              /\ store[i] \in Entry
              /\ store[i].id \in TrackingIds
              /\ store[i].createdAt \in Nat
         /\ \A i, j \in 1..Len(store) : store[i].id = store[j].id => i = j
         /\ now \in Nat
         /\ MaxTime \in Nat
<1>1. store \in Seq(Entry) /\ MaxTime \in Nat
  BY ListingAssumption DEF TypeOK
<1>2. Len(store) \in Nat /\ DOMAIN store = 1..Len(store)
  BY <1>1
<1>3. \A i \in 1..Len(store) : store[i] \in Entry
  BY <1>1
<1>4. \A e \in Entry : e.id \in TrackingIds /\ e.createdAt \in 0..MaxTime
  BY DEF Entry
<1>5. \A t \in 0..MaxTime : t \in Nat
  BY <1>1
<1>6. \A i, j \in 1..Len(store) : store[i].id = store[j].id => i = j
  BY <1>2 DEF TypeOK
<1>7. now \in Nat
  BY <1>5 DEF TypeOK
<1> QED
  BY <1>1, <1>2, <1>3, <1>4, <1>5, <1>6, <1>7

(* AtOrBefore is a total order of the entries' places.                     *)
LEMMA TotalOrder ==
  ASSUME TypeOK
  PROVE  \A i, j, k \in 1..Len(store) :
           /\ AtOrBefore(i, i)
           /\ AtOrBefore(i, j) \/ AtOrBefore(j, i)
           /\ AtOrBefore(i, j) /\ AtOrBefore(j, i) => i = j
           /\ AtOrBefore(i, j) /\ AtOrBefore(j, k) => AtOrBefore(i, k)
<1> SUFFICES ASSUME NEW i \in 1..Len(store), NEW j \in 1..Len(store),
                    NEW k \in 1..Len(store)
             PROVE  /\ AtOrBefore(i, i)
                    /\ AtOrBefore(i, j) \/ AtOrBefore(j, i)
                    /\ AtOrBefore(i, j) /\ AtOrBefore(j, i) => i = j
                    /\ AtOrBefore(i, j) /\ AtOrBefore(j, k) => AtOrBefore(i, k)
  OBVIOUS
<1>1. /\ i \in Nat /\ j \in Nat /\ k \in Nat
      /\ store[i].createdAt \in Nat
      /\ store[j].createdAt \in Nat
      /\ store[k].createdAt \in Nat
  BY StoreFacts
<1> QED
  BY <1>1 DEF AtOrBefore, Before

(* The places in the list are those of the Map, each taken once, and the   *)
(* earlier of two entries has the lower place.                             *)
LEMMA PlacesCount ==
  ASSUME TypeOK
  PROVE  /\ \A i \in 1..Len(store) : Place(i) \in 1..Len(store)
         /\ \A i, j \in 1..Len(store) :
              i # j /\ AtOrBefore(i, j) => Place(i) < Place(j)
<1> DEFINE n == Len(store)
           UpTo(i) == {j \in 1..n : AtOrBefore(j, i)}
<1>1. n \in Nat /\ DOMAIN store = 1..n
  BY StoreFacts
<1>2. IsFiniteSet(1..n) /\ Cardinality(1..n) = n
  <2>1. 0 \in Int /\ 1 \in Int /\ n \in Int
    BY <1>1
  <2>2. /\ IsFiniteSet(1..n)
        /\ Cardinality(1..n) = IF 1 > n THEN 0 ELSE n - 1 + 1
    BY <2>1, FS_Interval
  <2> QED
    BY <1>1, <2>2
<1>3. \A i \in 1..n : Place(i) = Cardinality(UpTo(i))
  BY <1>1 DEF Place
<1>4. \A i \in 1..n : /\ IsFiniteSet(UpTo(i))
                      /\ Cardinality(UpTo(i)) \in Nat
                      /\ Cardinality(UpTo(i)) <= n
                      /\ i \in UpTo(i)
                      /\ Cardinality(UpTo(i)) # 0
  <2> TAKE i \in 1..n
  <2>1. UpTo(i) \in SUBSET (1..n)
    OBVIOUS
  <2>2. i \in UpTo(i)
    BY TotalOrder
  <2> HIDE DEF UpTo
  <2>3. IsFiniteSet(UpTo(i)) /\ Cardinality(UpTo(i)) <= n
    BY <1>2, <2>1, FS_Subset
  <2>4. Cardinality(UpTo(i)) \in Nat
    BY <2>3, FS_CardinalityType
  <2>5. Cardinality(UpTo(i)) # 0
    BY <2>2, <2>3, FS_EmptySet
  <2> QED
    BY <2>2, <2>3, <2>4, <2>5
<1>5. ASSUME NEW i \in 1..n, NEW j \in 1..n, i # j, AtOrBefore(i, j)
      PROVE  Cardinality(UpTo(i)) < Cardinality(UpTo(j))
  <2>1. UpTo(i) \in SUBSET UpTo(j)
    BY <1>5, TotalOrder
  <2>2. j \in UpTo(j) /\ j \notin UpTo(i)
    BY <1>5, TotalOrder
  <2> HIDE DEF UpTo
  <2>3. /\ Cardinality(UpTo(i)) <= Cardinality(UpTo(j))
        /\ Cardinality(UpTo(i)) # Cardinality(UpTo(j))
    BY <1>4, <2>1, <2>2, FS_Subset
  <2> QED
    BY <1>4, <2>3
<1> HIDE DEF UpTo
<1>6. \A i \in 1..n : Place(i) \in 1..n
  BY <1>1, <1>3, <1>4
<1>7. \A i, j \in 1..n : i # j /\ AtOrBefore(i, j) => Place(i) < Place(j)
  BY <1>3, <1>5
<1> QED
  BY <1>6, <1>7

(* Every place is taken: the pigeonhole principle.                         *)
LEMMA PlacesTaken ==
  ASSUME TypeOK, NEW m \in 1..Len(store)
  PROVE  \E i \in 1..Len(store) : Place(i) = m
<1> DEFINE N == 1..Len(store)
           f == [i \in N |-> Place(i)]
<1>1. f \in [N -> N]
  BY PlacesCount
<1>2. \A i, j \in N : f[i] = f[j] => i = j
  <2> SUFFICES ASSUME NEW i \in N, NEW j \in N, Place(i) = Place(j), i # j
               PROVE  FALSE
    OBVIOUS
  <2>1. AtOrBefore(i, j) \/ AtOrBefore(j, i)
    BY TotalOrder
  <2>2. Place(i) < Place(j) \/ Place(j) < Place(i)
    BY <2>1, PlacesCount
  <2>3. Place(i) \in Int /\ Place(j) \in Int
    BY PlacesCount
  <2> QED
    BY <2>2, <2>3
<1>3. IsFiniteSet(N)
  BY StoreFacts, FS_Interval
<1> HIDE DEF f
<1>4. f \in Injection(N, N)
  BY <1>1, <1>2 DEF Injection, IsInjective
<1>5. f \in Surjection(N, N)
  <2> HIDE DEF N
  <2> QED
    BY <1>3, <1>4, FS_Injection
<1>6. \E i \in N : f[i] = m
  BY <1>5 DEF Surjection
<1> QED
  BY <1>6 DEF f

(* list() shows the whole Map, each entry once, sorted.                    *)
LEMMA ListSorts ==
  ASSUME TypeOK
  PROVE  /\ list \in Seq(Entry)
         /\ Len(list) = Len(store)
         /\ IsListing(list)
<1> DEFINE n == Len(store)
           p == [m \in 1..n |-> CHOOSE i \in 1..n : Place(i) = m]
<1>1. n \in Nat /\ DOMAIN store = 1..n
  BY StoreFacts
<1>2. \A m \in 1..n : p[m] \in 1..n /\ Place(p[m]) = m
  <2> TAKE m \in 1..n
  <2>1. \E i \in 1..n : Place(i) = m
    BY PlacesTaken
  <2> QED
    BY <2>1
<1>3. list = [m \in 1..n |-> store[p[m]]]
  BY <1>1 DEF list
<1> HIDE DEF p
<1>4. /\ list \in [1..n -> Entry]
      /\ \A m \in 1..n : list[m] = store[p[m]]
  BY <1>2, <1>3, StoreFacts
<1>5. list \in Seq(Entry) /\ Len(list) = n
  BY <1>1, <1>4
<1>6. p \in [1..n -> 1..n]
  BY <1>2 DEF p
<1>7. \A i, j \in 1..n : Place(i) = Place(j) => i = j
  <2> SUFFICES ASSUME NEW i \in 1..n, NEW j \in 1..n, Place(i) = Place(j), i # j
               PROVE  FALSE
    OBVIOUS
  <2>1. AtOrBefore(i, j) \/ AtOrBefore(j, i)
    BY TotalOrder
  <2> QED
    BY <2>1, PlacesCount
<1>8. \A i \in 1..n : Place(i) \in 1..n /\ p[Place(i)] = i
  BY <1>2, <1>7, PlacesCount
<1>9. ASSUME NEW m \in 1..n, NEW k \in 1..n, m < k
      PROVE  p[m] # p[k] /\ AtOrBefore(p[m], p[k])
  <2>1. p[m] # p[k]
    BY <1>1, <1>2, <1>9
  <2>2. AtOrBefore(p[m], p[k]) \/ AtOrBefore(p[k], p[m])
    BY <1>2, TotalOrder
  <2>3. AtOrBefore(p[k], p[m]) => Place(p[k]) < Place(p[m])
    BY <1>2, <2>1, PlacesCount
  <2>4. m \in Int /\ k \in Int
    BY <1>1
  <2> QED
    BY <1>2, <1>9, <2>1, <2>2, <2>3, <2>4
<1>10. Shows(list, p)
  BY <1>4, <1>5, <1>6, <1>8, <1>9 DEF Shows
<1> QED
  BY <1>1, <1>5, <1>6, <1>10 DEF IsListing

-------------------------------------------------------------------------------
(* The Map keeps its entries where they are, with their ids and times.     *)
StoreGrows ==
  /\ Len(store) <= Len(store')
  /\ \A i \in 1..Len(store) :
       /\ store'[i].id = store[i].id
       /\ store'[i].createdAt = store[i].createdAt

LEMMA ListingStays ==
  ASSUME TypeOK, TypeOK', StoreGrows, NEW l \in Seq(Entry), IsListing(l)
  PROVE  IsListing(l)'
<1> DEFINE n == Len(l)
<1>1. /\ n \in Nat
      /\ Len(store) \in Nat
      /\ Len(store') \in Nat
      /\ n <= Len(store)
      /\ Len(store) <= Len(store')
  BY StoreFacts, TypeOK' DEF StoreGrows, IsListing, TypeOK
<1>2. PICK p \in [1..n -> 1..n] : Shows(l, p)
  BY DEF IsListing
<1>3. \A i \in 1..n : /\ i \in 1..Len(store)
                      /\ store'[i].id = store[i].id
                      /\ store'[i].createdAt = store[i].createdAt
  BY <1>1 DEF StoreGrows
<1>4. \A i, j \in 1..n : AtOrBefore(i, j) => AtOrBefore(i, j)'
  BY <1>3 DEF AtOrBefore, Before
<1>5. \A m \in 1..n : p[m] \in 1..n
  BY <1>2
<1>6. \A m \in 1..n : /\ l[m].id = store'[p[m]].id
                      /\ l[m].createdAt = store'[p[m]].createdAt
  BY <1>2, <1>3, <1>5 DEF Shows
<1>7. \A m, k \in 1..n :
        m < k => p[m] # p[k] /\ AtOrBefore(p[m], p[k])'
  BY <1>2, <1>4, <1>5 DEF Shows
<1>8. Shows(l, p)'
  BY <1>2, <1>6, <1>7 DEF Shows
<1> QED
  BY <1>1, <1>2, <1>8 DEF IsListing

LEMMA ListingsStay ==
  ASSUME ListingInv, TypeOK', StoreGrows, listed' = listed
  PROVE  /\ \A k \in 1..Len(listed') : IsListing(listed[k])'
         /\ Len(listed') = 2 => Len(listed'[2]) <= Len(listed'[1])
<1>1. listed \in Seq(Seq(Entry))
  BY DEF ListingInv, TypeOK
<1>2. \A k \in 1..Len(listed) : listed[k] \in Seq(Entry) /\ IsListing(listed[k])
  BY <1>1 DEF ListingInv
<1>3. \A k \in 1..Len(listed) : IsListing(listed[k])'
  BY <1>2, ListingStays DEF ListingInv
<1> QED
  BY <1>3 DEF ListingInv

LEMMA CreateKeeps ==
  ASSUME ListingInv, NEW id \in TrackingIds, Create(id)
  PROVE  ListingInv'
<1> DEFINE e == [id |-> id, createdAt |-> now, updates |-> 0]
           n == Len(store)
<1>1. /\ store' = Append(store, e)
      /\ \A i \in 1..n : store[i].id # id
      /\ now' = now /\ steady' = steady /\ listed' = listed
  BY StoreFacts DEF Create, ListingInv
<1>2. e \in Entry /\ e.id = id /\ e.createdAt = now
  BY ListingAssumption DEF Entry, ListingInv, TypeOK
<1>3. store \in Seq(Entry) /\ n \in Nat
  BY StoreFacts DEF ListingInv, TypeOK
<1> HIDE DEF e
<1>4. /\ store' \in Seq(Entry)
      /\ Len(store') = n + 1
      /\ DOMAIN store' = 1..(n + 1)
      /\ \A i \in 1..n : store'[i] = store[i]
      /\ store'[n + 1] = e
  BY <1>1, <1>2, <1>3
<1>5. \A i \in 1..(n + 1) : i \in 1..n \/ i = n + 1
  BY <1>3
<1>6. \A i, j \in 1..(n + 1) : store'[i].id = store'[j].id => i = j
  BY <1>1, <1>2, <1>4, <1>5, StoreFacts DEF ListingInv
<1>7. TypeOK'
  BY <1>1, <1>4, <1>6 DEF ListingInv, TypeOK
<1>8. StoreGrows
  BY <1>3, <1>4 DEF StoreGrows
<1>9. InOrderOfTime'
  <2> SUFFICES ASSUME steady
               PROVE  /\ \A i \in 1..(n + 1) : store'[i].createdAt <= now
                      /\ \A i, j \in 1..(n + 1) :
                           i < j => store'[i].createdAt <= store'[j].createdAt
    BY <1>1, <1>4 DEF InOrderOfTime
  <2>1. /\ \A i \in 1..n : store[i].createdAt <= now
        /\ \A i, j \in 1..n :
             i < j => store[i].createdAt <= store[j].createdAt
    BY DEF ListingInv, InOrderOfTime
  <2>2. now \in Nat
    BY StoreFacts DEF ListingInv
  <2>3. \A i \in 1..(n + 1) : store'[i].createdAt <= now
    BY <1>2, <1>4, <1>5, <2>1, <2>2
  <2>4. \A i, j \in 1..(n + 1) : i < j => i \in 1..n
    BY <1>3
  <2> QED
    BY <1>2, <1>4, <1>5, <2>1, <2>3, <2>4
<1> QED
  BY <1>1, <1>7, <1>8, <1>9, ListingsStay DEF ListingInv

LEMMA UpdateKeeps ==
  ASSUME ListingInv, NEW i \in DOMAIN store, Update(i)
  PROVE  ListingInv'
<1> DEFINE n == Len(store)
           e == Updated(store[i])
<1>1. store \in Seq(Entry) /\ n \in Nat /\ i \in 1..n
  BY StoreFacts DEF ListingInv, TypeOK
<1>2. /\ store' = [store EXCEPT ![i] = e]
      /\ store[i].updates < MaxUpdates
      /\ now' = now /\ steady' = steady /\ listed' = listed
  BY DEF Update, SetEntry
<1>3. /\ e \in Entry
      /\ e.id = store[i].id
      /\ e.createdAt = store[i].createdAt
  <2>1. store[i] \in Entry
    BY <1>1
  <2>2. MaxUpdates \in Nat
    BY ListingAssumption
  <2>3. store[i].updates + 1 \in 0..MaxUpdates
    BY <1>2, <2>1, <2>2 DEF Entry
  <2> QED
    BY <2>1, <2>3 DEF Updated, Entry
<1> HIDE DEF e
<1>4. /\ store' \in Seq(Entry)
      /\ Len(store') = n
      /\ DOMAIN store' = 1..n
      /\ \A j \in 1..n : store'[j] = IF j = i THEN e ELSE store[j]
  BY <1>1, <1>2, <1>3
<1>5. \A j \in 1..n : /\ store'[j].id = store[j].id
                      /\ store'[j].createdAt = store[j].createdAt
  BY <1>3, <1>4
<1>6. TypeOK'
  BY <1>2, <1>4, <1>5, StoreFacts DEF ListingInv, TypeOK
<1>7. StoreGrows
  BY <1>1, <1>4, <1>5 DEF StoreGrows
<1>8. InOrderOfTime'
  BY <1>2, <1>4, <1>5 DEF ListingInv, InOrderOfTime
<1> QED
  BY <1>2, <1>6, <1>7, <1>8, ListingsStay DEF ListingInv

LEMMA ListKeeps ==
  ASSUME ListingInv, List
  PROVE  ListingInv'
<1> DEFINE last == IF listed = << >> THEN << >> ELSE << Head(listed) >>
<1>1. /\ listed' = << list >> \o last
      /\ store' = store /\ now' = now /\ steady' = steady
  BY DEF List
<1>2. /\ list \in Seq(Entry)
      /\ Len(list) = Len(store)
      /\ IsListing(list)
  BY ListSorts DEF ListingInv
<1>3. /\ listed \in Seq(Seq(Entry))
      /\ listed # << >> =>
           /\ Head(listed) = listed[1]
           /\ 1 \in 1..Len(listed)
           /\ Head(listed) \in Seq(Entry)
  BY DEF ListingInv, TypeOK
<1>4. last \in Seq(Seq(Entry)) /\ Len(last) \in {0, 1}
  BY <1>3
<1>6. \A k \in 1..Len(last) :
        /\ last[k] = Head(listed)
        /\ IsListing(last[k])
        /\ Len(last[k]) <= Len(store)
  <2>1. CASE listed = << >>
    BY <2>1
  <2>2. CASE listed # << >>
    <3>1. /\ last = << Head(listed) >>
          /\ IsListing(listed[1])
      BY <1>3, <2>2 DEF ListingInv
    <3>2. Len(Head(listed)) <= Len(store)
      BY <1>3, <2>2, <3>1 DEF IsListing
    <3> QED
      BY <1>3, <2>2, <3>1, <3>2
  <2> QED
    BY <2>1, <2>2
<1> HIDE DEF last
<1>7. /\ listed' \in Seq(Seq(Entry))
      /\ Len(listed') = 1 + Len(last)
      /\ listed'[1] = list
      /\ \A k \in 1..Len(last) : listed'[k + 1] = last[k]
  BY <1>1, <1>2, <1>4
<1>8. ASSUME NEW k \in 1..Len(listed')
      PROVE  k = 1 \/ (k = 2 /\ 1 \in 1..Len(last) /\ listed'[k] = last[1])
  <2>1. CASE Len(last) = 0
    BY <1>7, <2>1
  <2>2. CASE Len(last) = 1
    <3>1. k = 1 \/ k = 2
      BY <1>7, <2>2
    <3>2. 1 \in 1..Len(last) /\ listed'[2] = last[1]
      BY <1>7, <2>2
    <3> QED
      BY <3>1, <3>2
  <2> QED
    BY <1>4, <2>1, <2>2
<1>9. \A k \in 1..Len(listed') : IsListing(listed'[k])
  BY <1>2, <1>6, <1>7, <1>8
<1>10. Len(listed') = 2 => Len(listed'[2]) <= Len(listed'[1])
  <2> SUFFICES ASSUME Len(listed') = 2
               PROVE  Len(listed'[2]) <= Len(listed'[1])
    OBVIOUS
  <2>1. 2 \in 1..Len(listed')
    OBVIOUS
  <2>2. 1 \in 1..Len(last) /\ listed'[2] = last[1]
    BY <1>8, <2>1
  <2> QED
    BY <1>2, <1>6, <1>7, <2>2
<1>11. TypeOK'
  <2>1. (Len(last) = 0 \/ Len(last) = 1) /\ Len(listed') = 1 + Len(last)
    BY <1>4, <1>7
  <2>2. \A m, n : (m = 0 \/ m = 1) /\ n = 1 + m => n <= 2
    OBVIOUS
  <2>3. Len(listed') <= 2
    BY <2>1, <2>2
  <2> QED
    BY <1>1, <1>7, <2>3 DEF ListingInv, TypeOK
<1>12. InOrderOfTime'
  BY <1>1 DEF ListingInv, InOrderOfTime
<1>13. StoreGrows
  BY <1>1, StoreFacts DEF StoreGrows, ListingInv
<1>14. ASSUME NEW k \in 1..Len(listed')
       PROVE  IsListing(listed[k])'
  <2>1. listed'[k] \in Seq(Entry)
    BY <1>7
  <2>2. PICK l \in Seq(Entry) : l = listed'[k]
    BY <2>1
  <2>3. IsListing(l)
    BY <1>9, <2>2
  <2>4. IsListing(l)'
    BY <1>11, <1>13, <2>3, ListingStays DEF ListingInv
  <2>5. PICK p \in [1..Len(l) -> 1..Len(l)] : Shows(l, p)'
    BY <2>4 DEF IsListing
  <2>6. Shows(listed[k], p)'
    BY <2>2, <2>5 DEF Shows
  <2>7. Len(listed'[k]) <= Len(store')
    BY <2>2, <2>4 DEF IsListing
  <2> QED
    BY <2>2, <2>6, <2>7 DEF IsListing
<1> QED
  BY <1>10, <1>11, <1>12, <1>14 DEF ListingInv

LEMMA ClockKeeps ==
  ASSUME ListingInv, Tick \/ (\E t \in 0..MaxTime : SetClock(t)) \/ UNCHANGED vars
  PROVE  ListingInv'
<1>1. /\ store' = store /\ listed' = listed
      /\ now' \in 0..MaxTime
      /\ steady' \in BOOLEAN
      /\ steady' => steady /\ now <= now'
  <2>1. /\ MaxTime \in Nat /\ now \in Nat
        /\ now \in 0..MaxTime /\ steady \in BOOLEAN
    BY StoreFacts DEF ListingInv, TypeOK
  <2>2. CASE Tick
    BY <2>1, <2>2 DEF Tick
  <2>3. CASE \E t \in 0..MaxTime : SetClock(t)
    BY <2>1, <2>3 DEF SetClock
  <2>4. CASE UNCHANGED vars
    BY <2>1, <2>4 DEF vars
  <2> QED
    BY <2>2, <2>3, <2>4
<1>2. TypeOK'
  BY <1>1 DEF ListingInv, TypeOK
<1>3. StoreGrows
  BY <1>1, StoreFacts DEF StoreGrows, ListingInv
<1>4. InOrderOfTime'
  BY <1>1, StoreFacts DEF ListingInv, InOrderOfTime
<1> QED
  BY <1>1, <1>2, <1>3, <1>4, ListingsStay DEF ListingInv

(* The invariant holds throughout. *)
THEOREM ListingInvariant == Spec => []ListingInv
<1>1. Init => ListingInv
  BY ListingAssumption DEF Init, ListingInv, TypeOK, InOrderOfTime
<1>2. ListingInv /\ [Next]_vars => ListingInv'
  BY CreateKeeps, UpdateKeeps, ListKeeps, ClockKeeps DEF Next
<1> QED
  BY <1>1, <1>2, PTL DEF Spec

-------------------------------------------------------------------------------
(* The Map holds each transaction once, and the listings are sequences of  *)
(* its entries.                                                            *)
THEOREM ListingTyped == Spec => []TypeOK
BY ListingInvariant, PTL DEF ListingInv

(* Two entries of a listing that show the transactions i and j of the Map. *)
LEMMA ShownInOrder ==
  ASSUME TypeOK, NEW l \in Seq(Entry), Len(l) <= Len(store),
         NEW p \in [1..Len(l) -> 1..Len(l)], Shows(l, p),
         NEW m \in 1..Len(l), NEW n \in 1..Len(l)
  PROVE  /\ p[m] \in 1..Len(store)
         /\ m < n <=> (p[m] # p[n] /\ AtOrBefore(p[m], p[n]))
<1>1. Len(l) \in Nat /\ Len(store) \in Nat
  BY StoreFacts
<1>2. p[m] \in 1..Len(store) /\ p[n] \in 1..Len(store)
  BY <1>1
<1>3. m < n \/ m = n \/ n < m
  BY <1>1
<1>4. n < m => p[n] # p[m] /\ AtOrBefore(p[n], p[m])
  BY DEF Shows
<1>5. m < n => p[m] # p[n] /\ AtOrBefore(p[m], p[n])
  BY DEF Shows
<1>6. ~ (m < n /\ n < m) /\ ~ (m < n /\ m = n)
  BY <1>1
<1> QED
  BY <1>2, <1>3, <1>4, <1>5, <1>6, TotalOrder

(* list() after any creates, updates and settings of the clock: what was   *)
(* listed before is there again, once, and in the same order.              *)
THEOREM OrderKept == Spec => []OrderIsKept
<1>1. ASSUME ListingInv PROVE OrderIsKept
  <2> SUFFICES ASSUME Len(listed) = 2
               PROVE  LET new == Ids(listed[1])
                          old == Ids(listed[2])
                      IN  /\ \A k, l \in DOMAIN new : new[k] = new[l] => k = l
                          /\ \A m \in DOMAIN old :
                               \E k \in DOMAIN new : new[k] = old[m]
                          /\ \A m, n \in DOMAIN old : \A k, l \in DOMAIN new :
                               new[k] = old[m] /\ new[l] = old[n] =>
                                 (m < n <=> k < l)
    BY DEF OrderIsKept
  <2> DEFINE A == listed[1]
             B == listed[2]
             a == Len(A)
             b == Len(B)
  <2>1. /\ A \in Seq(Entry) /\ B \in Seq(Entry)
        /\ IsListing(A) /\ IsListing(B) /\ b <= a
    <3>1. 1 \in 1..Len(listed) /\ 2 \in 1..Len(listed)
      OBVIOUS
    <3>2. listed \in Seq(Seq(Entry))
      BY <1>1 DEF ListingInv, TypeOK
    <3>3. A \in Seq(Entry) /\ B \in Seq(Entry)
      BY <3>1, <3>2
    <3>4. IsListing(A) /\ IsListing(B) /\ b <= a
      BY <1>1, <3>1 DEF ListingInv
    <3> QED
      BY <3>3, <3>4
  <2>2. TypeOK
    BY <1>1 DEF ListingInv
  <2> HIDE DEF A, B
  <2>3. /\ a \in Nat /\ b \in Nat
        /\ DOMAIN Ids(A) = 1..a /\ DOMAIN Ids(B) = 1..b
        /\ \A k \in 1..a : Ids(A)[k] = A[k].id
        /\ \A m \in 1..b : Ids(B)[m] = B[m].id
    BY <2>1 DEF Ids
  <2>4. PICK p \in [1..a -> 1..a] : Shows(A, p)
    BY <2>1 DEF IsListing
  <2>5. PICK q \in [1..b -> 1..b] : Shows(B, q)
    BY <2>1 DEF IsListing
  <2>6. \A k, l \in 1..a :
          /\ p[k] \in 1..Len(store)
          /\ k < l <=> (p[k] # p[l] /\ AtOrBefore(p[k], p[l]))
    BY <2>1, <2>2, <2>4, ShownInOrder DEF IsListing
  <2>7. \A m, n \in 1..b :
          /\ q[m] \in 1..Len(store)
          /\ m < n <=> (q[m] # q[n] /\ AtOrBefore(q[m], q[n]))
    BY <2>1, <2>2, <2>5, ShownInOrder DEF IsListing
  <2>8. \A k \in 1..a : A[k].id = store[p[k]].id
    BY <2>4 DEF Shows
  <2>9. \A m \in 1..b : B[m].id = store[q[m]].id
    BY <2>5 DEF Shows
  <2>10. ASSUME NEW k \in 1..a, NEW m \in 1..b, A[k].id = B[m].id
         PROVE  p[k] = q[m]
    <3>1. p[k] \in 1..Len(store) /\ q[m] \in 1..Len(store)
      BY <2>6, <2>7
    <3>2. store[p[k]].id = store[q[m]].id
      BY <2>8, <2>9, <2>10
    <3> QED
      BY <2>2, <3>1, <3>2, StoreFacts
  <2>11. ASSUME NEW k \in 1..a, NEW l \in 1..a, A[k].id = A[l].id
         PROVE  k = l
    <3>1. p[k] = p[l]
      <4>1. p[k] \in 1..Len(store) /\ p[l] \in 1..Len(store)
        BY <2>6
      <4>2. store[p[k]].id = store[p[l]].id
        BY <2>8, <2>11
      <4> QED
        BY <2>2, <4>1, <4>2, StoreFacts
    <3>2. ~ (k < l) /\ ~ (l < k)
      BY <2>6, <3>1
    <3> QED
      BY <2>3, <3>2
  <2>12. ASSUME NEW m \in 1..b
         PROVE  \E k \in 1..a : A[k].id = B[m].id
    <3>1. q[m] \in 1..a
      <4>1. q[m] \in 1..b /\ b <= a
        BY <2>1
      <4> HIDE DEF a, b
      <4> QED
        BY <2>3, <4>1
    <3>2. PICK k \in 1..a : p[k] = q[m]
      BY <2>4, <3>1 DEF Shows
    <3> QED
      BY <2>8, <2>9, <3>2
  <2>13. ASSUME NEW m \in 1..b, NEW n \in 1..b, NEW k \in 1..a, NEW l \in 1..a,
                A[k].id = B[m].id, A[l].id = B[n].id
         PROVE  m < n <=> k < l
    <3>1. p[k] = q[m] /\ p[l] = q[n]
      BY <2>10, <2>13
    <3> QED
      BY <2>6, <2>7, <3>1
  <2> HIDE DEF a, b
  <2>14. /\ \A k, l \in DOMAIN Ids(A) : Ids(A)[k] = Ids(A)[l] => k = l
         /\ \A m \in DOMAIN Ids(B) : \E k \in DOMAIN Ids(A) :
              Ids(A)[k] = Ids(B)[m]
         /\ \A m, n \in DOMAIN Ids(B) : \A k, l \in DOMAIN Ids(A) :
              Ids(A)[k] = Ids(B)[m] /\ Ids(A)[l] = Ids(B)[n] =>
                (m < n <=> k < l)
    <3>1. \A k, l \in 1..a : Ids(A)[k] = Ids(A)[l] => k = l
      BY <2>3, <2>11
    <3>2. \A m \in 1..b : \E k \in 1..a : Ids(A)[k] = Ids(B)[m]
      BY <2>3, <2>12
    <3>3. \A m, n \in 1..b : \A k, l \in 1..a :
            Ids(A)[k] = Ids(B)[m] /\ Ids(A)[l] = Ids(B)[n] =>
              (m < n <=> k < l)
      BY <2>3, <2>13
    <3> QED
      BY <2>3, <3>1, <3>2, <3>3
  <2> QED
    BY <2>14 DEF A, B
<1> QED
  BY <1>1, ListingInvariant, PTL

(* While nobody sets the clock, list() only leaves transactions of one     *)
(* millisecond in the order they were created in.                          *)
THEOREM NewestComeFirst == Spec => []NewestFirst
<1>1. ASSUME ListingInv PROVE NewestFirst
  <2> SUFFICES ASSUME steady, NEW k \in DOMAIN listed,
                      NEW m \in DOMAIN listed[k], NEW n \in DOMAIN listed[k],
                      m < n, CreatedBefore(listed[k][m], listed[k][n])
               PROVE  listed[k][m].createdAt = listed[k][n].createdAt
    BY DEF NewestFirst
  <2> DEFINE l == listed[k]
  <2>1. l \in Seq(Entry) /\ IsListing(l) /\ TypeOK
    BY <1>1 DEF ListingInv, TypeOK
  <2> HIDE DEF l
  <2>2. m \in 1..Len(l) /\ n \in 1..Len(l)
    BY <2>1 DEF l
  <2>3. PICK p \in [1..Len(l) -> 1..Len(l)] : Shows(l, p)
    BY <2>1 DEF IsListing
  <2>4. /\ p[m] \in 1..Len(store) /\ p[n] \in 1..Len(store)
        /\ AtOrBefore(p[m], p[n])
    BY <2>1, <2>2, <2>3, ShownInOrder DEF IsListing
  <2>5. /\ l[m].id = store[p[m]].id /\ l[n].id = store[p[n]].id
        /\ l[m].createdAt = store[p[m]].createdAt
        /\ l[n].createdAt = store[p[n]].createdAt
    BY <2>2, <2>3 DEF Shows
  <2>6. PICK i \in DOMAIN store, j \in DOMAIN store :
          i < j /\ store[i].id = l[m].id /\ store[j].id = l[n].id
    BY DEF CreatedBefore, l
  <2>7. p[m] = i /\ p[n] = j
    <3>1. i \in 1..Len(store) /\ j \in 1..Len(store)
      BY <2>1, <2>6, StoreFacts
    <3>2. store[p[m]].id = store[i].id /\ store[p[n]].id = store[j].id
      BY <2>5, <2>6
    <3> QED
      BY <2>1, <2>4, <3>1, <3>2, StoreFacts
  <2>8. store[i].createdAt <= store[j].createdAt
    BY <1>1, <2>4, <2>6, <2>7 DEF ListingInv, InOrderOfTime
  <2>9. store[i].createdAt \in Nat /\ store[j].createdAt \in Nat
    BY <2>1, <2>4, <2>7, StoreFacts
  <2>10. store[i].createdAt = store[j].createdAt
    BY <2>4, <2>7, <2>8, <2>9 DEF AtOrBefore, Before
  <2>11. l[m].createdAt = l[n].createdAt
    BY <2>5, <2>7, <2>10
  <2> QED
    BY <2>11 DEF l
<1> QED
  BY <1>1, ListingInvariant, PTL

===============================================================================

-------------------------------- MODULE Listing --------------------------------
(***************************************************************************)
(* What the listing route shows: the repository's Map, whose iteration     *)
(* order is the order of creation, sorted by a creation time of one        *)
(* millisecond's resolution that comes from a clock which may be set.      *)
(* Every create, transition and recorded attempt is one `set` of the Map.  *)
(***************************************************************************)
EXTENDS Integers, Sequences, FiniteSets

CONSTANTS
  TrackingIds,   \* the tracking ids transactions can be given
  MaxUpdates,    \* bound: how often a transaction is updated
  MaxTime        \* bound: the last millisecond of the clock

ASSUME ListingAssumption == MaxUpdates \in Nat /\ MaxTime \in Nat

VARIABLES
  store,    \* the entries of the Map, in its iteration order
  now,      \* what new Date() returns
  steady,   \* whether the clock was never set
  listed    \* what the latest listings showed, the last one first

vars == << store, now, steady, listed >>

(* A transaction as the order depends on it; `updates` stands for its      *)
(* status and attempts, which updates change.                              *)
Entry == [id : TrackingIds, createdAt : 0..MaxTime, updates : 0..MaxUpdates]

TypeOK ==
  /\ store \in Seq(Entry)
  /\ \A i, j \in DOMAIN store : store[i].id = store[j].id => i = j
  /\ now \in 0..MaxTime
  /\ steady \in BOOLEAN
  /\ listed \in Seq(Seq(Entry))
  /\ Len(listed) <= 2

Init ==
  /\ store = << >>
  /\ now = 0
  /\ steady = TRUE
  /\ listed = << >>

-------------------------------------------------------------------------------
Create(id) ==
  /\ \A i \in DOMAIN store : store[i].id # id
  /\ store' = Append(store, [id |-> id, createdAt |-> now, updates |-> 0])
  /\ UNCHANGED << now, steady, listed >>

Updated(e) == [e EXCEPT !.updates = @ + 1]

(* Mutant of SetEntry: the entry is deleted and set anew. *)
MoveEntry(i, e) ==
  SubSeq(store, 1, i - 1) \o SubSeq(store, i + 1, Len(store)) \o << e >>

(* Mutant of SetEntry: an array that is pushed to, not a Map. *)
PushEntry(i, e) == Append(store, e)

(* Map.set of a key that is there: the entry keeps its place. *)
SetEntry(i, e) == [store EXCEPT ![i] = e]

(* A transition or a recorded attempt. *)
Update(i) ==
  /\ store[i].updates < MaxUpdates
  /\ store' = SetEntry(i, Updated(store[i]))
  /\ UNCHANGED << now, steady, listed >>

(* Mutant of Before: the times are compared the other way round. *)
Ascending(e, f) == e.createdAt < f.createdAt

(* b.createdAt.localeCompare(a.createdAt): the later one comes first.      *)
Before(e, f) == e.createdAt > f.createdAt

(* Array.prototype.sort is stable: entries that compare as equal stay in   *)
(* their order.  Whether the j-th comes before the i-th, or is it.         *)
AtOrBefore(j, i) ==
  \/ Before(store[j], store[i])
  \/ ~ Before(store[i], store[j]) /\ j <= i

(* The place of the i-th entry in the sorted list. *)
Place(i) == Cardinality({j \in DOMAIN store : AtOrBefore(j, i)})

list ==
  [n \in DOMAIN store |-> store[CHOOSE i \in DOMAIN store : Place(i) = n]]

List ==
  /\ listed' = << list >> \o (IF listed = << >> THEN << >> ELSE << Head(listed) >>)
  /\ UNCHANGED << store, now, steady >>

Tick ==
  /\ now < MaxTime
  /\ now' = now + 1
  /\ UNCHANGED << store, steady, listed >>

SetClock(t) ==
  /\ now' = t
  /\ steady' = FALSE
  /\ UNCHANGED << store, listed >>

Next ==
  \/ \E id \in TrackingIds : Create(id)
  \/ \E i \in DOMAIN store : Update(i)
  \/ List
  \/ Tick
  \/ \E t \in 0..MaxTime : SetClock(t)

Spec == Init /\ [][Next]_vars

-------------------------------------------------------------------------------
Ids(l) == [n \in DOMAIN l |-> l[n].id]

(* Whoever lists again finds what was listed before, once, and in the same *)
(* order, whatever was created, settled and recorded in between, and       *)
(* however the clock was set.                                              *)
OrderIsKept ==
  Len(listed) = 2 =>
    LET new == Ids(listed[1])
        old == Ids(listed[2])
    IN  /\ \A k, l \in DOMAIN new : new[k] = new[l] => k = l
        /\ \A m \in DOMAIN old : \E k \in DOMAIN new : new[k] = old[m]
        /\ \A m, n \in DOMAIN old : \A k, l \in DOMAIN new :
             new[k] = old[m] /\ new[l] = old[n] => (m < n <=> k < l)

(* Whether the entry d was created before the entry e. *)
CreatedBefore(d, e) ==
  \E i, j \in DOMAIN store : i < j /\ store[i].id = d.id /\ store[j].id = e.id

(* While nobody sets the clock, a transaction that is listed ahead of a    *)
(* younger one was created in the same millisecond: the order inverts the  *)
(* order of creation, except within a millisecond.                         *)
NewestFirst ==
  steady =>
    \A k \in DOMAIN listed : \A m, n \in DOMAIN listed[k] :
      m < n /\ CreatedBefore(listed[k][m], listed[k][n]) =>
        listed[k][m].createdAt = listed[k][n].createdAt

(* "Transactions in creation order." *)
InCreationOrder ==
  steady =>
    \A k \in DOMAIN listed : \A m, n \in DOMAIN listed[k] :
      m < n => CreatedBefore(listed[k][m], listed[k][n])

===============================================================================

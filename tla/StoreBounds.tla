---------------------------- MODULE StoreBounds ----------------------------
(* The order of a thread-safe array and the positions `first` and `last` that   *)
(* the store keeps so that shift and pop need not search (src/store.c).  The    *)
(* positions point into the slots of PHP's hash table, which leaves holes where *)
(* elements were deleted and closes them when it runs out of slots.  Every      *)
(* operation runs under the object's monitor, so each is one step.              *)
EXTENDS Integers, Sequences, FiniteSetsExt, SequencesExt

CONSTANTS
  StringKeys,
  Hole,           \* an empty slot
  MinSize,        \* slots of a new table, a power of two
  MaxIndex        \* bound on integer keys

ASSUME BoundsAssumption ==
  /\ MaxIndex \in Nat
  /\ MinSize \in Nat \ {0}
  /\ \A k \in StringKeys \cup {Hole} : k \notin 0..MaxIndex
  /\ Hole \notin StringKeys

VARIABLES
  ht,       \* the hash table: slots, size, mode and next free index
  first,    \* slot of the first element, or Invalid
  last      \* slot of the last element, or Invalid

vars == <<ht, first, last>>

Indices == 0..MaxIndex

Keys == Indices \cup StringKeys

Invalid == -1

-----------------------------------------------------------------------------
(* PHP's hash table.  Positions count slots from 0.  A packed table keeps the    *)
(* element with key i in slot i.                                                 *)

Used(h) == Len(h.slots)

Full(h, p) == h.slots[p + 1] # Hole

Elements(h) == SelectSeq(h.slots, LAMBDA k : k # Hole)

Count(h) == Len(Elements(h))

Has(h, k) == k \in Range(h.slots)

\* The first element at or after p, or the end.
ValidPos(h, p) ==
  IF p < Used(h) THEN Min({q \in p..(Used(h) - 1) : Full(h, q)} \cup {Used(h)}) ELSE p

HasCurrent(h, p) == p # Invalid /\ ValidPos(h, p) < Used(h)

Current(h, p) == h.slots[ValidPos(h, p) + 1]

EndPos(h) == Max({q \in 0..(Used(h) - 1) : Full(h, q)} \cup {-1})

MoveForward(h, p) == IF HasCurrent(h, p) THEN ValidPos(h, ValidPos(h, p) + 1) ELSE p

MoveBackwards(h, p) ==
  LET before == {q \in 0..(p - 1) : Full(h, q)}
  IN IF p >= Used(h) THEN p ELSE IF before = {} THEN Used(h) ELSE Max(before)

\* A deleted element leaves a hole, unless nothing follows it.
Del(h, k) ==
  LET s == [i \in DOMAIN h.slots |-> IF h.slots[i] = k THEN Hole ELSE h.slots[i]]
  IN [h EXCEPT !.slots = SubSeq(s, 1, Max({i \in DOMAIN s : s[i] # Hole} \cup {0}))]

Rehash(h) == [h EXCEPT !.slots = Elements(h)]

Resize(h) ==
  IF Used(h) < h.size THEN h
  ELSE IF Used(h) > Count(h) + Count(h) \div 32 THEN Rehash(h)
  ELSE [Rehash(h) EXCEPT !.size = 2 * @]

AddMixed(h, k) ==
  LET g == Resize([h EXCEPT !.mode = "mixed"])
  IN [g EXCEPT !.slots = Append(@, k),
               !.next = IF k \in Indices /\ k >= @ THEN k + 1 ELSE @]

AddPacked(h, k) ==
  [h EXCEPT !.mode = "packed", !.next = k + 1,
            !.slots = @ \o [i \in 1..(k - Used(h)) |-> Hole] \o <<k>>]

\* Where a new key goes: a packed table takes an index behind its last slot, grows when
\* it is more than half full, and otherwise becomes an ordinary table without holes.
Insert(h, k) ==
  CASE Has(h, k) -> h
    [] h.mode = "new" /\ k \in 0..(h.size - 1) -> AddPacked(h, k)
    [] h.mode = "packed" /\ k \in Used(h)..(h.size - 1) -> AddPacked(h, k)
    [] /\ h.mode = "packed" /\ k \in h.size..(2 * h.size - 1)
       /\ h.size \div 2 < Count(h) -> AddPacked([h EXCEPT !.size = 2 * @], k)
    [] /\ h.mode = "packed" /\ k \in Indices /\ k >= h.size
       /\ Used(h) >= h.size -> AddMixed([Rehash(h) EXCEPT !.size = 2 * @], k)
    [] OTHER -> AddMixed(IF h.mode = "packed" THEN Rehash(h) ELSE h, k)

-----------------------------------------------------------------------------
Init ==
  /\ ht = [slots |-> <<>>, size |-> MinSize, mode |-> "new", next |-> 0]
  /\ first = Invalid
  /\ last = Invalid

\* Mutant of InvalidateBounds: only `first` is forgotten.
InvalidateFirst == first' = Invalid /\ UNCHANGED last

InvalidateBounds == first' = Invalid /\ last' = Invalid

\* A write with a key, and every key of a merge.
Set(k) ==
  /\ ht' = Insert(ht, k)
  /\ InvalidateBounds

\* Mutant of MaybeRehashed: a rehash goes unnoticed.
NeverRehashed(h) == FALSE

\* After an insertion: whether the first element may have moved.
MaybeRehashed(h) == first # Invalid /\ first # 0 /\ HasCurrent(h, 0)

\* A write without a key.
AppendNext ==
  /\ ht.next \in Indices
  /\ ht' = Insert(ht, ht.next)
  /\ IF MaybeRehashed(ht') THEN InvalidateBounds
     ELSE /\ last' = IF last = Invalid THEN Invalid ELSE MoveForward(ht', last)
          /\ UNCHANGED first

Delete(k) ==
  /\ IF Has(ht, k) THEN ht' = Del(ht, k) ELSE UNCHANGED ht
  /\ InvalidateBounds

ShiftPos(h, f) == IF f = Invalid THEN ValidPos(h, 0) ELSE f

PopPos(h, l) == IF l = Invalid THEN EndPos(h) ELSE l

\* The element about to go is the only one.
LastOne(h) == Count(h) = 1

\* One turn of shift, on the table and the two positions.
Shifted(s) ==
  LET p == ShiftPos(s.ht, s.first)
  IN IF ~HasCurrent(s.ht, p) THEN s
     ELSE [ht |-> Del(s.ht, Current(s.ht, p)),
           first |-> IF LastOne(s.ht) THEN Invalid ELSE MoveForward(s.ht, p),
           last |-> IF LastOne(s.ht) THEN Invalid ELSE s.last]

Store == [ht |-> ht, first |-> first, last |-> last]

Becomes(s) == ht' = s.ht /\ first' = s.first /\ last' = s.last

Shift == Becomes(Shifted(Store))

\* chunk goes on shifting until it has n elements or there are none left.
Chunk(n) == Becomes(FoldLeft(LAMBDA s, i : Shifted(s), Store, [i \in 1..n |-> i]))

Pop ==
  LET p == PopPos(ht, last)
  IN /\ HasCurrent(ht, p)
     /\ ht' = Del(ht, Current(ht, p))
     /\ IF LastOne(ht) THEN InvalidateBounds
        ELSE last' = MoveBackwards(ht, p) /\ UNCHANGED first

\* foreach starts at the first element and remembers it.
Reset ==
  /\ HasCurrent(ht, ShiftPos(ht, first))
  /\ first' = ShiftPos(ht, first)
  /\ UNCHANGED <<ht, last>>

\* Bound on the size a caller asks of chunk.
ChunkSizes == 2..3

Next ==
  \/ AppendNext \/ Shift \/ Pop \/ Reset
  \/ \E k \in Keys : Set(k) \/ Delete(k)
  \/ \E n \in ChunkSizes : Chunk(n)

Spec == Init /\ [][Next]_vars

-----------------------------------------------------------------------------
\* Types.  The table has distinct keys, fits its size and ends with an element, a key to
\* append is a new one, and a position is only known of a table with elements.
TypeOK ==
  /\ ht.slots \in Seq(Keys \cup {Hole})
  /\ Used(ht) <= ht.size
  /\ ht.slots # <<>> => Last(ht.slots) # Hole
  /\ \A i, j \in DOMAIN ht.slots : ht.slots[i] = ht.slots[j] => i = j \/ ht.slots[i] = Hole
  /\ ht.mode \in {"new", "packed", "mixed"}
  /\ ht.mode = "packed" => \A i \in DOMAIN ht.slots : ht.slots[i] \in {i - 1, Hole}
  /\ \A k \in Range(ht.slots) \cap Indices : k < ht.next
  /\ {first, last} \subseteq Int
  /\ first # Invalid \/ last # Invalid => Count(ht) > 0

\* In an array that is not empty, shift finds the first element, whatever appends,
\* deletions, pops and rehashes went before (store_shift, store_write).
TakesFirst ==
  Count(ht) > 0 =>
    LET p == ShiftPos(ht, first)
    IN HasCurrent(ht, p) /\ Current(ht, p) = Head(Elements(ht))

LastFound ==
  Count(ht) > 0 =>
    LET p == PopPos(ht, last)
    IN HasCurrent(ht, p) /\ Current(ht, p) = Last(Elements(ht))

\* An append for which the table closes its holes moves the elements, and `last`, which
\* is known, is kept.
MovesUnderLast ==
  /\ Count(ht') > Count(ht) /\ ~IsPrefix(ht.slots, ht'.slots)
  /\ last' # Invalid

\* The element pop finds in an array that is not empty is the last one, and remains so:
\* the one step that can mislead pop is an append that rehashes the table while `last` is
\* known and `first` is not or is 0, which store_write does not take for a rehash.
TakesLast == [][LastFound => LastFound' \/ MovesUnderLast]_vars
=============================================================================

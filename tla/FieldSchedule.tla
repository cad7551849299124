--------------------------- MODULE FieldSchedule ---------------------------
(***************************************************************************)
(* schedule_structures of lowering/mod.rs: the fields of a sketch node are *)
(* shared out among C structures whose fields do not overlap, as meetings  *)
(* are among classrooms.                                                   *)
(*                                                                         *)
(* Fields are taken in the order of their offsets; the sort is stable and  *)
(* the edges come in no particular order, so any field with the least      *)
(* offset may be next.  The heap gives any of the classrooms that are free *)
(* first.  A classroom is the sequence of its fields (scheduled); covering *)
(* maps the offsets of these fields to their sizes.                        *)
(***************************************************************************)
EXTENDS Naturals, Sequences, FiniteSets

CONSTANT FieldSets   \* the sets of fields that nodes may have

(* A field has an offset in bytes and a size in bits; sizes are multiples  *)
(* of bytes, as they come from the byte sizes of accesses.                 *)
ASSUME FieldAssumption ==
  \A F \in FieldSets :
    /\ IsFiniteSet(F)
    /\ \A f \in F : /\ f.byte_offset \in Nat
                    /\ f.bit_sz \in Nat \ {0} /\ f.bit_sz % 8 = 0

VARIABLES
  todo,    \* the fields that are still to be visited
  rooms    \* hp, the heap of classrooms

vars == <<todo, rooms>>

-----------------------------------------------------------------------------
\* compute_fld_upper_bound_exlcusive
UpperBound(f) == f.byte_offset + f.bit_sz \div 8

\* get_next_scheduluable_offset
NextOffset(room) == IF room = <<>> THEN 0 ELSE UpperBound(room[Len(room)])

FieldsIn(room) == {room[i] : i \in DOMAIN room}

\* Faulty: takes a field that starts within another for a part of it.
StartsWithin(room, f) ==
  \E g \in FieldsIn(room) :
    g.byte_offset < f.byte_offset /\ f.byte_offset < UpperBound(g)

\* superscedes_fld: the range of covering starts at the field's own offset.
Superscedes(room, f) ==
  \E g \in FieldsIn(room) :
    /\ f.byte_offset <= g.byte_offset /\ g.byte_offset < UpperBound(f)
    /\ g.byte_offset < f.byte_offset
    /\ UpperBound(g) >= UpperBound(f)

\* peek_mut: the heap's order is by NextOffset, the least first.
IsNextRoom(R, room) == \A other \in R : NextOffset(room) <= NextOffset(other)

\* Faulty: puts the field in a classroom that is still taken.
FitsLoosely(room, f) == NextOffset(room) <= UpperBound(f)

\* schedule_fld
Fits(room, f) == NextOffset(room) <= f.byte_offset

\* Faulty: looks at one classroom only, whichever comes.
PlacementsInAnyRoom(R, f) ==
  IF R = {} THEN {{<<f>>}}
  ELSE {IF Fits(room, f) THEN (R \ {room}) \cup {Append(room, f)} ELSE R \cup {<<f>>} :
          room \in R}

\* The classrooms after a field has been visited.
Placements(R, f) ==
  IF \E room \in R : Superscedes(room, f) THEN {R}
  ELSE IF R = {} THEN {{<<f>>}}
  ELSE {IF Fits(room, f) THEN (R \ {room}) \cup {Append(room, f)} ELSE R \cup {<<f>>} :
          room \in {r \in R : IsNextRoom(R, r)}}

\* sort_by_key
FirstFields(F) == {f \in F : \A g \in F : f.byte_offset <= g.byte_offset}

-----------------------------------------------------------------------------
Init ==
  /\ todo \in FieldSets
  /\ rooms = {}

Visit(f) ==
  /\ f \in FirstFields(todo)
  /\ todo' = todo \ {f}
  /\ rooms' \in Placements(rooms, f)

Next == \E f \in todo : Visit(f)

Spec == Init /\ [][Next]_vars

Structures == {FieldsIn(room) : room \in rooms}
Scheduled == UNION Structures

-----------------------------------------------------------------------------
Overlap(f, g) == f.byte_offset < UpperBound(g) /\ g.byte_offset < UpperBound(f)

(* Rule 1 of schedule_structures, at every moment: "A structure cannot     *)
(* contain two fields that overlap", and no field is in two structures.    *)
NoOverlap ==
  \A r, s \in rooms : \A i \in DOMAIN r, j \in DOMAIN s :
    <<r, i>> # <<s, j>> => r[i] # s[j] /\ (r = s => ~Overlap(r[i], s[j]))

(* "the goal here is to select the minimal partitioning of these fields    *)
(* into structures": some byte is covered by as many of the scheduled      *)
(* fields as there are structures, so no partitioning has fewer.           *)
MinimalPartitioning ==
  rooms # {} =>
    \E f \in Scheduled :
      Cardinality(rooms) <=
        Cardinality({g \in Scheduled : /\ g.byte_offset <= f.byte_offset
                                       /\ f.byte_offset < UpperBound(g)})

(* No field is lost: superscedes_fld drops one only if it lies within      *)
(* another field that is kept.                                             *)
FieldsAreKept ==
  [][\A f \in todo \ todo' :
       \E g \in Scheduled' :
         g.byte_offset <= f.byte_offset /\ UpperBound(f) <= UpperBound(g)]_vars

=============================================================================

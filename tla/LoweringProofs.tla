---------------------------- MODULE LoweringProofs ----------------------------
(***************************************************************************)
(* schedule_structures keeps overlapping fields apart, needs no more        *)
(* structures than any partitioning of the fields it schedules, and loses   *)
(* no field, for all sets of fields; and the lowered types say of each node *)
(* of any sketch graph what the graph says, in whatever order the nodes are *)
(* taken.                                                                   *)
(***************************************************************************)
EXTENDS Lowering, FixpointLemmas, SequenceTheorems

AllFields == UNION FieldSets

(* The fields are visited by offset, so that the last field of a room has   *)
(* an offset no greater than the next field's: a room that is still taken   *)
(* then covers it.                                                          *)
TodoOK == todo \subseteq AllFields
RoomsOK == IsFiniteSet(rooms) /\ \A r \in rooms : r \in Seq(AllFields) /\ r # <<>>
InOrder ==
  \A r \in rooms : \A i, j \in DOMAIN r : i < j => UpperBound(r[i]) <= r[j].byte_offset
Apart ==
  \A r, s \in rooms : \A i \in DOMAIN r, j \in DOMAIN s : r[i] = s[j] => r = s /\ i = j
Visited ==
  \A r \in rooms : \A i \in DOMAIN r :
    r[i] \notin todo /\ \A f \in todo : r[i].byte_offset <= f.byte_offset

IInv == TodoOK /\ RoomsOK /\ InOrder /\ Apart /\ Visited

-----------------------------------------------------------------------------
LEMMA FieldType ==
  ASSUME NEW f \in AllFields
  PROVE  /\ f.byte_offset \in Nat /\ f.bit_sz \in Nat
         /\ UpperBound(f) \in Nat /\ f.byte_offset < UpperBound(f)
<1>1. f.byte_offset \in Nat /\ f.bit_sz \in Nat \ {0} /\ f.bit_sz % 8 = 0
  BY FieldAssumption DEF AllFields
<1>2. f.bit_sz \div 8 \in Nat /\ f.bit_sz \div 8 > 0
  BY <1>1
<1> QED  BY <1>1, <1>2 DEF UpperBound

\* The three things that can become of a field.
Ignored(R, f, S) == S = R /\ \E room \in R : Superscedes(room, f)
Opened(R, f, S) ==
  S = R \cup {<<f>>} /\ \A room \in R : f.byte_offset < NextOffset(room)
Appended(R, f, S, room) ==
  room \in R /\ Fits(room, f) /\ S = (R \ {room}) \cup {Append(room, f)}

LEMMA NextOffsetType ==
  ASSUME NEW r \in Seq(AllFields), r # <<>>
  PROVE  /\ Len(r) \in DOMAIN r /\ r[Len(r)] \in AllFields
         /\ NextOffset(r) = UpperBound(r[Len(r)]) /\ NextOffset(r) \in Nat
<1>1. Len(r) \in DOMAIN r /\ r[Len(r)] \in AllFields
  BY EmptySeq, LenProperties
<1> QED  BY <1>1, FieldType DEF NextOffset

LEMMA PlacementCases ==
  ASSUME NEW R, NEW f \in AllFields, NEW S \in Placements(R, f),
         \A r \in R : r \in Seq(AllFields) /\ r # <<>>
  PROVE  \/ Ignored(R, f, S)
         \/ Opened(R, f, S)
         \/ \E room \in R : Appended(R, f, S, room)
<1>1. CASE \E room \in R : Superscedes(room, f)
  BY <1>1 DEF Placements, Ignored
<1>2. CASE R = {} /\ ~ \E room \in R : Superscedes(room, f)
  BY <1>2 DEF Placements, Opened
<1>3. CASE R # {} /\ ~ \E room \in R : Superscedes(room, f)
  <2>1. PICK room \in R :
          /\ IsNextRoom(R, room)
          /\ S = IF Fits(room, f) THEN (R \ {room}) \cup {Append(room, f)} ELSE R \cup {<<f>>}
    BY <1>3 DEF Placements
  <2>2. CASE Fits(room, f)
    BY <2>1, <2>2 DEF Appended
  <2>3. CASE ~Fits(room, f)
    <3>1. ASSUME NEW other \in R
          PROVE  f.byte_offset < NextOffset(other)
      <4>1. NextOffset(room) <= NextOffset(other)
        BY <2>1 DEF IsNextRoom
      <4>2. ~(NextOffset(room) <= f.byte_offset)
        BY <2>3 DEF Fits
      <4> QED  BY <4>1, <4>2, NextOffsetType, FieldType
    <3> QED  BY <2>1, <2>3, <3>1 DEF Opened
  <2> QED  BY <2>2, <2>3
<1> QED  BY <1>1, <1>2, <1>3

LEMMA SingletonRoom ==
  ASSUME NEW f \in AllFields
  PROVE  /\ <<f>> \in Seq(AllFields) /\ <<f>> # <<>>
         /\ DOMAIN <<f>> = {1} /\ <<f>>[1] = f
  OBVIOUS

LEMMA AppendedRoom ==
  ASSUME NEW r \in Seq(AllFields), NEW f \in AllFields
  PROVE  /\ Append(r, f) \in Seq(AllFields) /\ Append(r, f) # <<>>
         /\ DOMAIN Append(r, f) = DOMAIN r \cup {Len(r) + 1}
         /\ Len(r) + 1 \notin DOMAIN r /\ Len(r) + 1 \in Nat
         /\ \A i \in DOMAIN r : Append(r, f)[i] = r[i] /\ i < Len(r) + 1 /\ i \in Nat
         /\ Append(r, f)[Len(r) + 1] = f
  BY AppendProperties, LenProperties

-----------------------------------------------------------------------------
LEMMA InitInv == Init => IInv
<1> SUFFICES ASSUME Init PROVE IInv
  OBVIOUS
<1>1. TodoOK
  BY DEF Init, TodoOK, AllFields
<1>2. rooms = {}
  BY DEF Init
<1> QED
  BY <1>1, <1>2, FS_EmptySet DEF IInv, RoomsOK, InOrder, Apart, Visited

(* What a step does, from the invariant. *)
LEMMA VisitCases ==
  ASSUME IInv, NEW f \in todo, Visit(f)
  PROVE  /\ f \in AllFields
         /\ todo' = todo \ {f}
         /\ \A g \in todo : f.byte_offset <= g.byte_offset
         /\ \A r \in rooms : \A i \in DOMAIN r : r[i] # f /\ r[i].byte_offset <= f.byte_offset
         /\ \/ Ignored(rooms, f, rooms')
            \/ Opened(rooms, f, rooms')
            \/ \E room \in rooms : Appended(rooms, f, rooms', room)
<1>1. f \in AllFields /\ todo' = todo \ {f} /\ rooms' \in Placements(rooms, f)
  BY DEF IInv, TodoOK, Visit
<1>2. \A g \in todo : f.byte_offset <= g.byte_offset
  BY DEF Visit, FirstFields
<1>3. \A r \in rooms : \A i \in DOMAIN r : r[i] # f /\ r[i].byte_offset <= f.byte_offset
  BY DEF IInv, Visited
<1> QED  BY <1>1, <1>2, <1>3, PlacementCases DEF IInv, RoomsOK

LEMMA OpenKeepsInv ==
  ASSUME IInv, NEW f \in todo, Visit(f), Opened(rooms, f, rooms')
  PROVE  IInv'
<1>1. /\ f \in AllFields /\ todo' = todo \ {f} /\ rooms' = rooms \cup {<<f>>}
      /\ \A g \in todo : f.byte_offset <= g.byte_offset
      /\ \A r \in rooms : \A i \in DOMAIN r : r[i] # f
  BY VisitCases DEF Opened
<1>2. /\ <<f>> \in Seq(AllFields) /\ <<f>> # <<>>
      /\ DOMAIN <<f>> = {1} /\ <<f>>[1] = f
  BY <1>1, SingletonRoom
<1>3. TodoOK'
  BY <1>1 DEF IInv, TodoOK
<1>4. RoomsOK'
  BY <1>1, <1>2, FS_AddElement DEF IInv, RoomsOK
<1>5. InOrder'
  BY <1>1, <1>2 DEF IInv, InOrder
<1>6. Apart'
  BY <1>1, <1>2 DEF IInv, Apart
<1>7. Visited'
  BY <1>1, <1>2 DEF IInv, Visited
<1> QED  BY <1>3, <1>4, <1>5, <1>6, <1>7 DEF IInv

LEMMA AppendKeepsInv ==
  ASSUME IInv, NEW f \in todo, Visit(f),
         NEW room \in rooms, Appended(rooms, f, rooms', room)
  PROVE  IInv'
<1> DEFINE new == Append(room, f)
           top == Len(room) + 1
<1>1. /\ f \in AllFields /\ todo' = todo \ {f} /\ rooms' = (rooms \ {room}) \cup {new}
      /\ \A g \in todo : f.byte_offset <= g.byte_offset
      /\ \A r \in rooms : \A i \in DOMAIN r : r[i] # f
  BY VisitCases DEF Appended
<1>2. room \in Seq(AllFields) /\ room # <<>>
  BY DEF IInv, RoomsOK
<1>3. /\ new \in Seq(AllFields) /\ new # <<>>
      /\ DOMAIN new = DOMAIN room \cup {top} /\ top \notin DOMAIN room /\ top \in Nat
      /\ \A i \in DOMAIN room : new[i] = room[i] /\ i < top /\ i \in Nat
      /\ new[top] = f
  BY <1>1, <1>2, AppendedRoom
<1> HIDE DEF new, top
<1>4. TodoOK'
  BY <1>1 DEF IInv, TodoOK
<1>5. RoomsOK'
  <2>1. IsFiniteSet(rooms \ {room})
    BY FS_RemoveElement DEF IInv, RoomsOK
  <2>2. IsFiniteSet(rooms')
    BY <1>1, <2>1, FS_AddElement
  <2> QED  BY <1>1, <1>3, <2>2 DEF IInv, RoomsOK
<1>6. InOrder'
  <2>1. ASSUME NEW i \in DOMAIN room
        PROVE  UpperBound(room[i]) <= f.byte_offset
    <3>1. UpperBound(room[Len(room)]) <= f.byte_offset /\ Len(room) \in DOMAIN room
      BY <1>2, NextOffsetType DEF Appended, Fits
    <3>2. room[i] \in AllFields /\ room[Len(room)] \in AllFields /\ i \in 1..Len(room)
      BY <1>2, <3>1, ElementOfSeq, LenProperties
    <3>3. i < Len(room) => UpperBound(room[i]) <= room[Len(room)].byte_offset
      BY <3>1 DEF IInv, InOrder
    <3> QED  BY <1>1, <3>1, <3>2, <3>3, FieldType
  <2>2. ASSUME NEW i \in DOMAIN new, NEW j \in DOMAIN new, i < j
        PROVE  UpperBound(new[i]) <= new[j].byte_offset
    <3>1. CASE j = top
      <4>1. i \in DOMAIN room
        BY <1>3, <2>2, <3>1
      <4> QED  BY <1>3, <2>1, <3>1, <4>1
    <3>2. CASE j # top
      <4>1. j \in DOMAIN room /\ i \in DOMAIN room
        BY <1>3, <2>2, <3>2
      <4> QED  BY <1>3, <2>2, <4>1 DEF IInv, InOrder
    <3> QED  BY <3>1, <3>2
  <2> QED  BY <1>1, <2>2 DEF IInv, InOrder
<1>7. Apart'
  <2>1. ASSUME NEW s \in rooms, s # room, NEW i \in DOMAIN new, NEW j \in DOMAIN s
        PROVE  new[i] # s[j]
    BY <1>1, <1>3, <2>1 DEF IInv, Apart
  <2>2. ASSUME NEW i \in DOMAIN new, NEW j \in DOMAIN new, new[i] = new[j]
        PROVE  i = j
    BY <1>1, <1>3, <2>2 DEF IInv, Apart
  <2> QED  BY <1>1, <2>1, <2>2 DEF IInv, Apart
<1>8. Visited'
  BY <1>1, <1>3 DEF IInv, Visited
<1> QED  BY <1>4, <1>5, <1>6, <1>7, <1>8 DEF IInv

LEMMA NextInv == IInv /\ [Next]_vars => IInv'
<1> SUFFICES ASSUME IInv, [Next]_vars PROVE IInv'
  OBVIOUS
<1>1. CASE Next
  <2>1. PICK f \in todo : Visit(f)
    BY <1>1 DEF Next
  <2>2. CASE Ignored(rooms, f, rooms')
    <3>1. rooms' = rooms /\ todo' = todo \ {f}
      BY <2>1, <2>2, VisitCases DEF Ignored
    <3> QED  BY <3>1 DEF IInv, TodoOK, RoomsOK, InOrder, Apart, Visited
  <2> QED  BY <2>1, <2>2, VisitCases, OpenKeepsInv, AppendKeepsInv
<1>2. CASE UNCHANGED vars
  BY <1>2 DEF vars, IInv, TodoOK, RoomsOK, InOrder, Apart, Visited
<1> QED  BY <1>1, <1>2

LEMMA Invariance == Spec => []IInv
  BY InitInv, NextInv, PTL DEF Spec

-----------------------------------------------------------------------------
LEMMA InvNoOverlap == IInv => NoOverlap
<1> SUFFICES ASSUME IInv, NEW r \in rooms, NEW s \in rooms,
                    NEW i \in DOMAIN r, NEW j \in DOMAIN s, <<r, i>> # <<s, j>>
             PROVE  r[i] # s[j] /\ (r = s => ~Overlap(r[i], s[j]))
  BY DEF NoOverlap
<1>1. r[i] # s[j]
  BY DEF IInv, Apart
<1>2. ASSUME r = s
      PROVE  ~Overlap(r[i], s[j])
  <2>1. r \in Seq(AllFields) /\ i \in Nat /\ j \in Nat /\ i # j
    BY <1>2, LenProperties DEF IInv, RoomsOK
  <2>2. r[i] \in AllFields /\ r[j] \in AllFields
    BY <1>2, <2>1, ElementOfSeq, LenProperties
  <2>3. i < j => UpperBound(r[i]) <= r[j].byte_offset
    BY <1>2 DEF IInv, InOrder
  <2>4. j < i => UpperBound(r[j]) <= r[i].byte_offset
    BY <1>2 DEF IInv, InOrder
  <2> QED  BY <1>2, <2>1, <2>2, <2>3, <2>4, FieldType DEF Overlap
<1> QED  BY <1>1, <1>2

(* No two fields of a structure overlap and no field is in two structures,  *)
(* rule 1 of schedule_structures.                                            *)
THEOREM SpecNoOverlap == Spec => []NoOverlap
  BY InvNoOverlap, Invariance, PTL

-----------------------------------------------------------------------------
LEMMA InScheduled ==
  ASSUME NEW r \in rooms, NEW i \in DOMAIN r
  PROVE  r[i] \in Scheduled
  BY DEF Scheduled, Structures, FieldsIn

LEMMA ScheduledIsPlaced ==
  ASSUME NEW g \in Scheduled
  PROVE  \E r \in rooms : \E i \in DOMAIN r : r[i] = g
  BY DEF Scheduled, Structures, FieldsIn

(* A field that has been scheduled stays so, and the next one is either      *)
(* scheduled or ignored.                                                     *)
LEMMA ScheduledGrows ==
  ASSUME IInv, NEW f \in todo, Visit(f)
  PROVE  /\ Scheduled \subseteq Scheduled'
         /\ \/ f \in Scheduled'
            \/ Ignored(rooms, f, rooms')
<1>1. CASE Ignored(rooms, f, rooms')
  <2>1. rooms' = rooms
    BY <1>1 DEF Ignored
  <2> QED  BY <1>1, <2>1 DEF Scheduled, Structures
<1>2. CASE Opened(rooms, f, rooms')
  <2>1. rooms' = rooms \cup {<<f>>}
    BY <1>2 DEF Opened
  <2>2. f \in FieldsIn(<<f>>)
    BY DEF FieldsIn
  <2> QED  BY <2>1, <2>2 DEF Scheduled, Structures
<1>3. ASSUME NEW room \in rooms, Appended(rooms, f, rooms', room)
      PROVE  Scheduled \subseteq Scheduled' /\ f \in Scheduled'
  <2> DEFINE new == Append(room, f)
  <2>1. rooms' = (rooms \ {room}) \cup {new}
    BY <1>3 DEF Appended
  <2>2. FieldsIn(room) \cup {f} \subseteq FieldsIn(new)
    <3>1. room \in Seq(AllFields) /\ f \in AllFields
      BY VisitCases DEF IInv, RoomsOK
    <3> QED  BY <3>1, AppendedRoom DEF FieldsIn
  <2> HIDE DEF new
  <2> QED  BY <2>1, <2>2 DEF Scheduled, Structures
<1> QED  BY <1>1, <1>2, <1>3, VisitCases

\* superscedes_fld drops a field only if a scheduled one spans it.
LEMMA VisitKeepsField ==
  ASSUME IInv, NEW f \in todo, Visit(f)
  PROVE  \E g \in Scheduled' :
           g.byte_offset <= f.byte_offset /\ UpperBound(f) <= UpperBound(g)
<1>1. f \in AllFields
  BY VisitCases
<1>2. CASE f \in Scheduled'
  BY <1>1, <1>2, FieldType
<1>3. CASE Ignored(rooms, f, rooms')
  <2>1. PICK room \in rooms : Superscedes(room, f)
    BY <1>3 DEF Ignored
  <2>2. PICK g \in FieldsIn(room) :
          g.byte_offset < f.byte_offset /\ UpperBound(g) >= UpperBound(f)
    BY <2>1 DEF Superscedes
  <2>3. g \in Scheduled' /\ g \in AllFields
    <3>1. g \in Scheduled
      BY DEF Scheduled, Structures
    <3>2. room \in Seq(AllFields)
      BY DEF IInv, RoomsOK
    <3> QED  BY <3>1, <3>2, ScheduledGrows, ElementOfSeq, LenProperties DEF FieldsIn
  <2> QED  BY <1>1, <2>2, <2>3, FieldType
<1> QED  BY <1>2, <1>3, ScheduledGrows

\* No step of the scheduling loses a field.
THEOREM SpecFieldsAreKept == Spec => FieldsAreKept
<1>1. IInv /\ [Next]_vars =>
        [\A f \in todo \ todo' :
           \E g \in Scheduled' :
             g.byte_offset <= f.byte_offset /\ UpperBound(f) <= UpperBound(g)]_vars
  <2> SUFFICES ASSUME IInv, Next, NEW f \in todo \ todo'
               PROVE  \E g \in Scheduled' :
                        g.byte_offset <= f.byte_offset /\ UpperBound(f) <= UpperBound(g)
    OBVIOUS
  <2>1. Visit(f)
    BY DEF Next, Visit
  <2> QED  BY <2>1, VisitKeepsField
<1> QED  BY <1>1, Invariance, PTL DEF Spec, FieldsAreKept

-----------------------------------------------------------------------------
(* A structure is opened only when every other one is still taken where the *)
(* field starts: as many fields as there are structures then cover its      *)
(* first byte.                                                               *)
Covering(x, S) == {g \in S : g.byte_offset <= x /\ x < UpperBound(g)}

MInv == IInv /\ IsFiniteSet(Scheduled) /\ MinimalPartitioning

LEMMA ScheduledGrowsByOne ==
  ASSUME IInv, NEW f \in todo, Visit(f)
  PROVE  /\ Scheduled' \subseteq Scheduled \cup {f}
         /\ f \notin Scheduled
<1>1. f \notin Scheduled
  BY ScheduledIsPlaced, VisitCases
<1>2. CASE Ignored(rooms, f, rooms')
  <2>1. rooms' = rooms
    BY <1>2 DEF Ignored
  <2> QED  BY <1>1, <2>1 DEF Scheduled, Structures
<1>3. CASE Opened(rooms, f, rooms')
  <2>1. rooms' = rooms \cup {<<f>>}
    BY <1>3 DEF Opened
  <2>2. FieldsIn(<<f>>) = {f}
    BY DEF FieldsIn
  <2> QED  BY <1>1, <2>1, <2>2 DEF Scheduled, Structures
<1>4. ASSUME NEW room \in rooms, Appended(rooms, f, rooms', room)
      PROVE  Scheduled' \subseteq Scheduled \cup {f}
  <2> DEFINE new == Append(room, f)
  <2>1. rooms' = (rooms \ {room}) \cup {new}
    BY <1>4 DEF Appended
  <2>2. FieldsIn(new) \subseteq FieldsIn(room) \cup {f}
    <3>1. room \in Seq(AllFields) /\ f \in AllFields
      BY VisitCases DEF IInv, RoomsOK
    <3> QED  BY <3>1, AppendedRoom DEF FieldsIn
  <2> HIDE DEF new
  <2> QED  BY <2>1, <2>2 DEF Scheduled, Structures
<1> QED  BY <1>1, <1>2, <1>3, <1>4, VisitCases

\* The last fields of the structures all cover the first byte of f.
LEMMA RoomsCoverOpening ==
  ASSUME IInv, IsFiniteSet(Scheduled), NEW f \in todo, Visit(f), Opened(rooms, f, rooms')
  PROVE  /\ IsFiniteSet(Covering(f.byte_offset, Scheduled))
         /\ Cardinality(rooms) <= Cardinality(Covering(f.byte_offset, Scheduled))
<1> DEFINE C == Covering(f.byte_offset, Scheduled)
           last == [r \in rooms |-> r[Len(r)]]
<1>1. IsFiniteSet(C)
  <2>1. C \in SUBSET Scheduled
    BY DEF Covering
  <2> QED  BY <2>1, FS_Subset
<1>2. ASSUME NEW r \in rooms
      PROVE  last[r] \in C
  <2>1. /\ Len(r) \in DOMAIN r
        /\ NextOffset(r) = UpperBound(r[Len(r)])
    BY NextOffsetType DEF IInv, RoomsOK
  <2>2. r[Len(r)] \in Scheduled
    BY <2>1, InScheduled
  <2>3. r[Len(r)].byte_offset <= f.byte_offset
    BY <2>1, VisitCases
  <2>4. f.byte_offset < UpperBound(r[Len(r)])
    BY <2>1 DEF Opened
  <2> QED  BY <2>2, <2>3, <2>4 DEF Covering
<1>3. ASSUME NEW r \in rooms, NEW s \in rooms, last[r] = last[s]
      PROVE  r = s
  <2>1. Len(r) \in DOMAIN r /\ Len(s) \in DOMAIN s
    BY NextOffsetType DEF IInv, RoomsOK
  <2> QED  BY <1>3, <2>1 DEF IInv, Apart
<1> HIDE DEF C
<1>4. last \in Injection(rooms, C)
  BY <1>2, <1>3 DEF Injection, IsInjective
<1>5. Cardinality(rooms) <= Cardinality(C)
  BY <1>1, <1>4, FS_Injection
<1> QED  BY <1>1, <1>5 DEF C

LEMMA OneMoreAtMost ==
  ASSUME NEW S, NEW x, IsFiniteSet(S)
  PROVE  Cardinality(S \cup {x}) <= Cardinality(S) + 1
<1>1. Cardinality(S) \in Nat
  BY FS_CardinalityType
<1>2. Cardinality(S \cup {x}) = IF x \in S THEN Cardinality(S) ELSE Cardinality(S) + 1
  BY FS_AddElement
<1> QED  BY <1>1, <1>2

LEMMA VisitKeepsMinimal ==
  ASSUME MInv, NEW f \in todo, Visit(f), IInv'
  PROVE  MInv'
<1> USE DEF MInv
<1>1. IsFiniteSet(Scheduled')
  <2>1. IsFiniteSet(Scheduled \cup {f})
    BY FS_AddElement
  <2> QED  BY <2>1, ScheduledGrowsByOne, FS_Subset
<1>2. /\ IsFiniteSet(rooms) /\ IsFiniteSet(rooms')
      /\ Cardinality(rooms) \in Nat /\ Cardinality(rooms') \in Nat
  BY FS_CardinalityType DEF IInv, RoomsOK
<1>3. ASSUME NEW x
      PROVE  /\ IsFiniteSet(Covering(x, Scheduled)) /\ IsFiniteSet(Covering(x, Scheduled'))
             /\ Cardinality(Covering(x, Scheduled)) \in Nat
             /\ Cardinality(Covering(x, Scheduled')) \in Nat
  <2>1. /\ Covering(x, Scheduled) \in SUBSET Scheduled
        /\ Covering(x, Scheduled') \in SUBSET Scheduled'
    BY DEF Covering
  <2>2. IsFiniteSet(Covering(x, Scheduled)) /\ IsFiniteSet(Covering(x, Scheduled'))
    BY <1>1, <2>1, FS_Subset
  <2> QED  BY <2>2, FS_CardinalityType
<1>4. CASE Ignored(rooms, f, rooms')
  <2>1. rooms' = rooms
    BY <1>4 DEF Ignored
  <2> QED  BY <2>1, <1>1 DEF MinimalPartitioning, Scheduled, Structures
<1>5. CASE Opened(rooms, f, rooms')
  <2> DEFINE C == Covering(f.byte_offset, Scheduled)
             D == Covering(f.byte_offset, Scheduled')
  <2>1. f \in Scheduled' /\ Scheduled \subseteq Scheduled' /\ f \notin Scheduled
    <3>1. rooms' = rooms \cup {<<f>>}
      BY <1>5 DEF Opened
    <3>2. f \in FieldsIn(<<f>>)
      BY DEF FieldsIn
    <3> QED  BY <3>1, <3>2, ScheduledGrows, ScheduledGrowsByOne DEF Scheduled, Structures
  <2>2. C \cup {f} \in SUBSET D /\ f \notin C
    <3>1. f.byte_offset <= f.byte_offset /\ f.byte_offset < UpperBound(f)
      BY VisitCases, FieldType
    <3> QED  BY <2>1, <3>1 DEF Covering
  <2>3. IsFiniteSet(C) /\ Cardinality(rooms) <= Cardinality(C)
    BY <1>5, RoomsCoverOpening
  <2>4. Cardinality(rooms') <= Cardinality(rooms) + 1
    BY <1>2, <1>5, OneMoreAtMost DEF Opened
  <2>5. IsFiniteSet(D) /\ Cardinality(C) \in Nat /\ Cardinality(D) \in Nat
    BY <1>3
  <2> HIDE DEF C, D
  <2>6. Cardinality(C \cup {f}) = Cardinality(C) + 1
    BY <2>2, <2>3, FS_AddElement
  <2>7. Cardinality(C \cup {f}) <= Cardinality(D)
    BY <2>2, <2>5, FS_Subset
  <2>8. Cardinality(rooms') <= Cardinality(D)
    BY <1>2, <2>3, <2>4, <2>5, <2>6, <2>7
  <2> QED  BY <1>1, <2>1, <2>8 DEF MinimalPartitioning, D, Covering
<1>6. ASSUME NEW room \in rooms, Appended(rooms, f, rooms', room)
      PROVE  MInv'
  <2>1. PICK x \in Scheduled : Cardinality(rooms) <= Cardinality(Covering(x.byte_offset, Scheduled))
    BY <1>6 DEF MinimalPartitioning, Covering
  <2> DEFINE C == Covering(x.byte_offset, Scheduled)
             D == Covering(x.byte_offset, Scheduled')
  <2>2. x \in Scheduled' /\ C \in SUBSET D
    BY ScheduledGrows DEF Covering
  <2>3. IsFiniteSet(D) /\ Cardinality(C) \in Nat /\ Cardinality(D) \in Nat
    BY <1>3
  <2>4. Cardinality(rooms') <= Cardinality(rooms)
    <3>1. IsFiniteSet(rooms \ {room}) /\ Cardinality(rooms \ {room}) = Cardinality(rooms) - 1
      BY <1>2, FS_RemoveElement
    <3>2. Cardinality(rooms') <= Cardinality(rooms \ {room}) + 1
      BY <1>6, <3>1, OneMoreAtMost DEF Appended
    <3> QED  BY <1>2, <3>1, <3>2
  <2>5. Cardinality(rooms) <= Cardinality(C)
    BY <2>1
  <2> HIDE DEF C, D
  <2>6. Cardinality(C) <= Cardinality(D)
    BY <2>2, <2>3, FS_Subset
  <2>7. Cardinality(rooms') <= Cardinality(D)
    BY <1>2, <2>3, <2>4, <2>5, <2>6
  <2> QED  BY <1>1, <2>2, <2>7 DEF MinimalPartitioning, D, Covering
<1> QED  BY <1>4, <1>5, <1>6, VisitCases

(* The structures are as few as any partitioning of the scheduled fields can *)
(* have: some byte lies in as many scheduled fields as there are structures. *)
THEOREM SpecMinimalPartitioning == Spec => []MinimalPartitioning
<1>1. Init => MInv
  <2> SUFFICES ASSUME Init PROVE MInv
    OBVIOUS
  <2>1. rooms = {}
    BY DEF Init
  <2>2. Scheduled = {}
    BY <2>1 DEF Scheduled, Structures
  <2> QED  BY <2>1, <2>2, InitInv, FS_EmptySet DEF MInv, MinimalPartitioning
<1>2. MInv /\ [Next]_vars => MInv'
  <2> SUFFICES ASSUME MInv, [Next]_vars PROVE MInv'
    OBVIOUS
  <2>1. IInv'
    BY NextInv DEF MInv
  <2>2. CASE Next
    BY <2>1, <2>2, VisitKeepsMinimal DEF Next
  <2>3. CASE UNCHANGED vars
    BY <2>1, <2>3 DEF vars, MInv, MinimalPartitioning, Scheduled, Structures
  <2> QED  BY <2>2, <2>3
<1>3. MInv => MinimalPartitioning
  BY DEF MInv
<1> QED  BY <1>1, <1>2, <1>3, PTL DEF Spec

-----------------------------------------------------------------------------
(* The types of which a value of a type contains a value, but for the nodes *)
(* that its aliases stand for.                                               *)
Holds(ty) ==
  CASE ty.kind = "union" -> ty.members
    [] ty.kind = "structure" -> {f.type_index : f \in Range(ty.fields)}
    [] OTHER -> {}

(* What a context of types is, and what it may become: a type holds none     *)
(* that was added after it.                                                  *)
IsContext(c) ==
  /\ c = [ephemeral |-> c.ephemeral, primitives |-> c.primitives, next |-> c.next]
  /\ c.next \in Nat \ {0}
  /\ \A id \in DOMAIN c.ephemeral : id \in Nat \ {0} /\ id < c.next
  /\ \A id \in DOMAIN c.ephemeral : \A i \in Holds(c.ephemeral[id]) : i < id
  /\ \A name \in DOMAIN c.primitives :
       /\ c.primitives[name] \in DOMAIN c.ephemeral
       /\ c.ephemeral[c.primitives[name]] = [kind |-> "primitive", name |-> name]

Grows(c, d) ==
  /\ IsContext(d)
  /\ \A id \in DOMAIN c.ephemeral :
       id \in DOMAIN d.ephemeral /\ d.ephemeral[id] = c.ephemeral[id]
  /\ \A name \in DOMAIN c.primitives :
       name \in DOMAIN d.primitives /\ d.primitives[name] = c.primitives[name]

IsSequence(s) == Len(s) \in Nat /\ DOMAIN s = 1 .. Len(s)

LEMMA GrowsIsTransitive ==
  ASSUME NEW c, NEW d, NEW e, Grows(c, d), Grows(d, e)
  PROVE  Grows(c, e)
  BY DEF Grows

LEMMA AddTypesGrows ==
  ASSUME NEW c, IsContext(c), NEW tys, IsSequence(tys),
         \A i \in DOMAIN tys : Holds(tys[i]) \subseteq DOMAIN c.ephemeral
  PROVE  LET added == AddTypes(c, tys)
         IN  /\ Grows(c, added.ctx)
             /\ added.ctx.primitives = c.primitives
             /\ DOMAIN added.ids = DOMAIN tys
             /\ \A i \in DOMAIN tys :
                  /\ added.ids[i] \in DOMAIN added.ctx.ephemeral
                  /\ added.ctx.ephemeral[added.ids[i]] = tys[i]
<1> DEFINE k == Len(tys)
           ids == [i \in DOMAIN tys |-> c.next + i - 1]
           eph == [id \in DOMAIN c.ephemeral \cup Range(ids) |->
                     IF id < c.next THEN c.ephemeral[id] ELSE tys[id - c.next + 1]]
           d == [ephemeral |-> eph, primitives |-> c.primitives, next |-> c.next + k]
<1>1. c.next \in Nat \ {0} /\ k \in Nat /\ DOMAIN tys = 1 .. k
  BY DEF IsContext, IsSequence
<1>2. AddTypes(c, tys) = [ids |-> ids, ctx |-> d]
  BY DEF AddTypes
<1>3. \A id \in DOMAIN c.ephemeral : id \in Nat \ {0} /\ id < c.next
  BY DEF IsContext
<1>4. \A i \in DOMAIN tys : /\ ids[i] \in Nat \ {0} /\ ids[i] < c.next + k
                            /\ ~ (ids[i] < c.next) /\ ids[i] - c.next + 1 = i
  BY <1>1
<1>5. \A i \in DOMAIN tys : ids[i] \in DOMAIN eph /\ eph[ids[i]] = tys[i]
  BY <1>4 DEF Range
<1>6. \A id \in DOMAIN c.ephemeral : id \in DOMAIN eph /\ eph[id] = c.ephemeral[id]
  BY <1>3
<1>7. \A id \in DOMAIN eph : id \in Nat \ {0} /\ id < c.next + k
  BY <1>1, <1>3, <1>4 DEF Range
<1>10. DOMAIN ids = DOMAIN tys
  OBVIOUS
<1>11. ASSUME NEW id \in DOMAIN eph, NEW i \in Holds(eph[id])
       PROVE  i < id
  <2>1. CASE id \in DOMAIN c.ephemeral
    <3> HIDE DEF eph
    <3> QED  BY <1>6, <1>11, <2>1 DEF IsContext
  <2>2. CASE id \notin DOMAIN c.ephemeral
    <3>1. PICK j \in DOMAIN tys : id = ids[j]
      BY <2>2 DEF Range
    <3>2. eph[id] = tys[j] /\ id \in Nat /\ ~(id < c.next)
      BY <1>4, <1>5, <3>1
    <3> HIDE DEF eph
    <3>3. i \in DOMAIN c.ephemeral
      BY <1>11, <3>2
    <3> QED  BY <1>1, <1>3, <3>2, <3>3
  <2> QED  BY <2>1, <2>2
<1> HIDE DEF eph, ids, k
<1>8. IsContext(d)
  <2>1. \A id \in DOMAIN eph : id \in Nat \ {0} /\ id < c.next + k
    BY <1>7
  <2>2. c.next + k \in Nat \ {0}
    BY <1>1
  <2>3. \A name \in DOMAIN c.primitives :
          /\ c.primitives[name] \in DOMAIN eph
          /\ eph[c.primitives[name]] = [kind |-> "primitive", name |-> name]
    BY <1>6 DEF IsContext
  <2> QED  BY <1>11, <2>1, <2>2, <2>3 DEF IsContext
<1>9. Grows(c, d)
  BY <1>6, <1>8 DEF Grows
<1> QED  BY <1>2, <1>5, <1>9, <1>10

LEMMA SetToSeqIsAll ==
  ASSUME NEW S, IsFiniteSet(S)
  PROVE  /\ IsSequence(SetToSeq(S)) /\ Len(SetToSeq(S)) = Cardinality(S)
         /\ \A i \in DOMAIN SetToSeq(S) : SetToSeq(S)[i] \in S
         /\ \A x \in S : \E i \in DOMAIN SetToSeq(S) : SetToSeq(S)[i] = x
         /\ Range(SetToSeq(S)) = S
<1> DEFINE n == Cardinality(S)
           f == SetToSeq(S)
<1>1. n \in Nat /\ ExistsBijection(1 .. n, S)
  BY FS_CardinalityType
<1>2. PICK g \in Bijection(1 .. n, S) : TRUE
  BY <1>1 DEF ExistsBijection
<1>3. g \in [1 .. n -> S] /\ IsInjective(g)
  BY <1>2 DEF Bijection, Injection, IsInjective
<1>4. f \in [1 .. n -> S] /\ IsInjective(f)
  BY <1>3 DEF SetToSeq
<1>5. f \in Injection(1 .. n, S)
  BY <1>4 DEF Injection, IsInjective
<1>6. IsFiniteSet(1 .. n) /\ Cardinality(1 .. n) = n
  BY <1>1, FS_Interval
<1>7. f \in Surjection(1 .. n, S)
  BY <1>5, <1>6, FS_Injection
<1>8. \A x \in S : \E i \in 1 .. n : f[i] = x
  BY <1>7 DEF Surjection
<1>9. Len(f) = n /\ DOMAIN f = 1 .. n
  <2>1. f \in Seq(S)
    BY <1>1, <1>4, IsASeq
  <2>2. DOMAIN f = 1 .. n
    BY <1>4
  <2> QED  BY <1>1, <2>1, <2>2, LenProperties
<1> HIDE DEF f, n
<1>10. Range(f) = S
  BY <1>4, <1>8, <1>9 DEF Range
<1> QED  BY <1>1, <1>4, <1>8, <1>9, <1>10 DEF IsSequence, n, f

LEMMA FunctionIsSequence ==
  ASSUME NEW n \in Nat, NEW S, NEW f \in [1 .. n -> S]
  PROVE  IsSequence(f) /\ DOMAIN f = 1 .. n /\ Len(f) = n
<1>1. f \in Seq(S)
  BY IsASeq
<1>2. DOMAIN f = 1 .. n
  OBVIOUS
<1> QED  BY <1>1, <1>2, LenProperties DEF IsSequence

LEMMA AddTypeGrows ==
  ASSUME NEW c, IsContext(c), NEW ty, Holds(ty) \subseteq DOMAIN c.ephemeral
  PROVE  LET added == AddType(c, ty)
         IN  /\ Grows(c, added.ctx)
             /\ added.ctx.primitives = c.primitives
             /\ added.id \in DOMAIN added.ctx.ephemeral
             /\ added.ctx.ephemeral[added.id] = ty
<1>1. IsSequence(<<ty>>) /\ 1 \in DOMAIN <<ty>> /\ <<ty>>[1] = ty
  BY DEF IsSequence
<1>2. AddType(c, ty) = [id |-> AddTypes(c, <<ty>>).ids[1], ctx |-> AddTypes(c, <<ty>>).ctx]
  BY DEF AddType
<1> QED  BY <1>1, <1>2, AddTypesGrows

\* id stands for the node m.
AliasFor(c, id, m) == id \in DOMAIN c.ephemeral /\ c.ephemeral[id] = Alias(m)

LEMMA AliasForFields ==
  ASSUME NEW c, NEW id, NEW m, AliasFor(c, id, m)
  PROVE  c.ephemeral[id].kind = "alias" /\ c.ephemeral[id].node = m
<1>1. c.ephemeral[id] = [kind |-> "alias", node |-> m]
  BY DEF AliasFor, Alias
<1> QED  BY <1>1

LEMMA AddAliasesGrows ==
  ASSUME NEW c, IsContext(c), NEW N, IsFiniteSet(N)
  PROVE  LET added == AddAliases(c, N)
         IN  /\ Grows(c, added.ctx)
             /\ added.ctx.primitives = c.primitives
             /\ \A n \in N : AliasFor(added.ctx, added.idOf[n], n)
<1> DEFINE order == SetToSeq(N)
           tys == [i \in DOMAIN order |-> Alias(order[i])]
           added == AddTypes(c, tys)
           place(n) == CHOOSE i \in DOMAIN order : order[i] = n
<1>1. IsSequence(order) /\ \A n \in N : \E i \in DOMAIN order : order[i] = n
  BY SetToSeqIsAll
<1>2. IsSequence(tys) /\ DOMAIN tys = DOMAIN order
  <2>1. tys \in [1 .. Len(order) -> {Alias(order[i]) : i \in 1 .. Len(order)}]
    BY <1>1 DEF IsSequence
  <2> QED  BY <1>1, <2>1, FunctionIsSequence DEF IsSequence
<1>7. \A i \in DOMAIN tys : Holds(tys[i]) = {}
  BY DEF Holds, Alias
<1>3. \A n \in N : place(n) \in DOMAIN order /\ order[place(n)] = n
  BY <1>1
<1>4. AddAliases(c, N) = [idOf |-> [n \in N |-> added.ids[place(n)]], ctx |-> added.ctx]
  BY DEF AddAliases
<1>5. \A n \in N : place(n) \in DOMAIN tys /\ tys[place(n)] = Alias(n)
  BY <1>2, <1>3
<1> HIDE DEF tys, order, place
<1>6. /\ Grows(c, added.ctx)
      /\ added.ctx.primitives = c.primitives
      /\ \A i \in DOMAIN tys :
           /\ added.ids[i] \in DOMAIN added.ctx.ephemeral
           /\ added.ctx.ephemeral[added.ids[i]] = tys[i]
  BY <1>2, <1>7, AddTypesGrows
<1> HIDE DEF added
<1> QED  BY <1>4, <1>5, <1>6 DEF AliasFor

PrimitiveType(name) == [kind |-> "primitive", name |-> name]

LEMMA BuildTerminalTypeGrows ==
  ASSUME NEW c, IsContext(c), NEW name
  PROVE  LET built == BuildTerminalType(c, name)
         IN  /\ Grows(c, built.ctx)
             /\ built.id \in DOMAIN built.ctx.ephemeral
             /\ built.ctx.ephemeral[built.id] = PrimitiveType(name)
             /\ name \in DOMAIN built.ctx.primitives
             /\ built.ctx.primitives[name] = built.id
<1> DEFINE added == AddType(c, [kind |-> "primitive", name |-> name])
           primitives == [x \in DOMAIN c.primitives \cup {name} |->
                            IF x = name THEN added.id ELSE c.primitives[x]]
           d == [added.ctx EXCEPT !.primitives = primitives]
<1>1. CASE name \in DOMAIN c.primitives
  <2>1. BuildTerminalType(c, name) = [id |-> c.primitives[name], ctx |-> c]
    BY <1>1 DEF BuildTerminalType
  <2> QED  BY <1>1, <2>1 DEF Grows, IsContext, PrimitiveType
<1>2. CASE name \notin DOMAIN c.primitives
  <2>1. BuildTerminalType(c, name) = [id |-> added.id, ctx |-> d]
    BY <1>2 DEF BuildTerminalType
  <2>2. /\ Grows(c, added.ctx)
        /\ added.ctx.primitives = c.primitives
        /\ added.id \in DOMAIN added.ctx.ephemeral
        /\ added.ctx.ephemeral[added.id] = PrimitiveType(name)
    <3> DEFINE ty == [kind |-> "primitive", name |-> name]
    <3>1. Holds(ty) = {}
      BY DEF Holds
    <3> HIDE DEF ty
    <3>2. LET adding == AddType(c, ty)
          IN  /\ Grows(c, adding.ctx)
              /\ adding.ctx.primitives = c.primitives
              /\ adding.id \in DOMAIN adding.ctx.ephemeral
              /\ adding.ctx.ephemeral[adding.id] = ty
      BY <3>1, AddTypeGrows
    <3> QED  BY <3>2 DEF PrimitiveType, ty
  <2>3. IsContext(added.ctx)
    BY <2>2 DEF Grows
  <2> HIDE DEF added
  <2>4. d = [ephemeral |-> added.ctx.ephemeral, primitives |-> primitives,
             next |-> added.ctx.next]
    BY <2>3 DEF IsContext
  <2>5. /\ DOMAIN primitives = DOMAIN c.primitives \cup {name}
        /\ primitives[name] = added.id
        /\ \A x \in DOMAIN c.primitives : primitives[x] = c.primitives[x]
    BY <1>2
  <2> HIDE DEF primitives, d
  <2>6. /\ d.ephemeral = added.ctx.ephemeral /\ d.primitives = primitives
        /\ d.next = added.ctx.next
    BY <2>4
  <2>7. IsContext(d)
    <3>1. ASSUME NEW x \in DOMAIN primitives
          PROVE  /\ primitives[x] \in DOMAIN added.ctx.ephemeral
                 /\ added.ctx.ephemeral[primitives[x]] = [kind |-> "primitive", name |-> x]
      <4>1. CASE x = name
        BY <2>2, <2>5, <4>1 DEF PrimitiveType
      <4>2. CASE x # name
        <5>1. x \in DOMAIN added.ctx.primitives /\ primitives[x] = added.ctx.primitives[x]
          BY <2>2, <2>5, <4>2
        <5> QED  BY <2>3, <5>1 DEF IsContext
      <4> QED  BY <4>1, <4>2
    <3> QED  BY <2>3, <2>4, <2>6, <3>1 DEF IsContext
  <2>8. Grows(c, d)
    BY <2>2, <2>5, <2>6, <2>7 DEF Grows
  <2> QED  BY <2>1, <2>2, <2>5, <2>6, <2>8
<1> QED  BY <1>1, <1>2

-----------------------------------------------------------------------------
\* id is an alias for the only node of N, or the union of aliases for N.
LeadsToNodes(c, id, N) ==
  /\ id \in DOMAIN c.ephemeral
  /\ \/ \E m \in N : N = {m} /\ AliasFor(c, id, m)
     \/ \E I \in {c.ephemeral[id].members} :
          /\ c.ephemeral[id] = Union(I)
          /\ \A i \in I : \E m \in N : AliasFor(c, i, m)
          /\ \A m \in N : \E i \in I : AliasFor(c, i, m)

Indices(n, kind) == {e[2].index : e \in EdgesOfKind(n, {kind})}
TargetsAt(n, kind, i) == Targets({e \in EdgesOfKind(n, {kind}) : e[2].index = i})

\* params has one parameter for each index, which leads to its targets.
ParamsMean(c, n, kind, params) ==
  /\ \A p \in params :
       p.index \in Indices(n, kind) /\ LeadsToNodes(c, p.type_index, TargetsAt(n, kind, p.index))
  /\ \A i \in Indices(n, kind) : \E p \in params : p.index = i
  /\ \A p, q \in params : p.index = q.index => p = q

LEMMA LeadsToNodesGrows ==
  ASSUME NEW c, NEW d, Grows(c, d), NEW id, NEW N, LeadsToNodes(c, id, N)
  PROVE  LeadsToNodes(d, id, N)
<1>1. \A i, m : AliasFor(c, i, m) => AliasFor(d, i, m)
  BY DEF AliasFor, Grows
<1>2. id \in DOMAIN d.ephemeral /\ d.ephemeral[id] = c.ephemeral[id]
  BY DEF LeadsToNodes, Grows
<1> QED  BY <1>1, <1>2 DEF LeadsToNodes

LEMMA ParamsMeanGrows ==
  ASSUME NEW c, NEW d, Grows(c, d), NEW n, NEW kind, NEW params, ParamsMean(c, n, kind, params)
  PROVE  ParamsMean(d, n, kind, params)
  BY LeadsToNodesGrows DEF ParamsMean

LEMMA TargetsFinite ==
  ASSUME IsFiniteSet(grph.edges), NEW E \in SUBSET grph.edges
  PROVE  IsFiniteSet(E) /\ IsFiniteSet(Targets(E)) /\ IsFiniteSet({e[2].index : e \in E})
<1>1. IsFiniteSet(E)
  BY FS_Subset
<1> DEFINE f == [e \in E |-> e[3]]
           g == [e \in E |-> e[2].index]
<1>2. IsFiniteSet({f[e] : e \in E}) /\ IsFiniteSet({g[e] : e \in E})
  <2> HIDE DEF f, g
  <2> QED  BY <1>1, ImageFinite
<1>3. {f[e] : e \in E} = Targets(E) /\ {g[e] : e \in E} = {e[2].index : e \in E}
  BY DEF Targets
<1> QED  BY <1>1, <1>2, <1>3

LEMMA FewAreOne ==
  ASSUME NEW S, IsFiniteSet(S), S # {}, ~(Cardinality(S) > 1)
  PROVE  \E x : S = {x}
<1>1. Cardinality(S) \in Nat /\ Cardinality(S) # 0
  BY FS_CardinalityType, FS_EmptySet
<1>2. Cardinality(S) = 1
  BY <1>1
<1> QED  BY <1>2, FS_Singleton

LEMMA CollectParamsMeans ==
  ASSUME IsFiniteSet(grph.edges), NEW c, IsContext(c), NEW n, NEW kind
  PROVE  LET collected == CollectParams(c, n, kind)
         IN  /\ Grows(c, collected.ctx)
             /\ ParamsMean(collected.ctx, n, kind, collected.params)
<1> DEFINE E == EdgesOfKind(n, {kind})
           N == Targets(E)
           I == Indices(n, kind)
           aliases == AddAliases(c, N)
           at(i) == {aliases.idOf[m] : m \in Targets({e \in E : e[2].index = i})}
           S == {i \in I : Cardinality(at(i)) > 1}
           several == SetToSeq(S)
           tys == [j \in DOMAIN several |-> Union(at(several[j]))]
           unions == AddTypes(aliases.ctx, tys)
           idAt(i) == IF i \in Range(several)
                      THEN unions.ids[CHOOSE j \in DOMAIN several : several[j] = i]
                      ELSE CHOOSE id \in at(i) : TRUE
           params == {[index |-> i, type_index |-> idAt(i)] : i \in I}
<1>1. CollectParams(c, n, kind) = [params |-> params, ctx |-> unions.ctx]
  BY DEF CollectParams, Indices
<1>2. /\ E \in SUBSET grph.edges /\ IsFiniteSet(N) /\ IsFiniteSet(I) /\ IsFiniteSet(S)
  <2>1. E \in SUBSET grph.edges
    BY DEF EdgesOfKind
  <2>2. IsFiniteSet(N) /\ IsFiniteSet(I)
    <3> HIDE DEF E
    <3> QED  BY <2>1, TargetsFinite DEF Indices, E
  <2>3. S \in SUBSET I
    OBVIOUS
  <2> HIDE DEF S, E, N, I
  <2> QED  BY <2>1, <2>2, <2>3, FS_Subset
<1>3. /\ Grows(c, aliases.ctx)
      /\ \A m \in N : AliasFor(aliases.ctx, aliases.idOf[m], m)
  <2> HIDE DEF N
  <2> QED  BY <1>2, AddAliasesGrows
<1>4. /\ IsSequence(several) /\ Range(several) = S
      /\ \A i \in S : \E j \in DOMAIN several : several[j] = i
  <2> HIDE DEF S
  <2> QED  BY <1>2, SetToSeqIsAll
<1>5. IsSequence(tys) /\ DOMAIN tys = DOMAIN several
  <2>1. tys \in [1 .. Len(several) -> {Union(at(several[j])) : j \in 1 .. Len(several)}]
    BY <1>4 DEF IsSequence
  <2> HIDE DEF several
  <2> QED  BY <1>4, <2>1, FunctionIsSequence DEF IsSequence
<1>6. \A j \in DOMAIN several : tys[j] = Union(at(several[j]))
  OBVIOUS
<1>7. \A i \in I : /\ TargetsAt(n, kind, i) # {} /\ TargetsAt(n, kind, i) \in SUBSET N
                   /\ at(i) = {aliases.idOf[m] : m \in TargetsAt(n, kind, i)}
  BY DEF Indices, TargetsAt, Targets
<1>8. \A i \in I : IsFiniteSet(at(i))
  <2> SUFFICES ASSUME NEW i \in I PROVE IsFiniteSet(at(i))
    OBVIOUS
  <2>1. IsFiniteSet(TargetsAt(n, kind, i))
    BY <1>2, <1>7, FS_Subset
  <2>2. IsFiniteSet({aliases.idOf[m] : m \in TargetsAt(n, kind, i)})
    <3> HIDE DEF aliases
    <3> QED  BY <2>1, ImageFinite
  <2> QED  BY <1>7, <2>2
<1> HIDE DEF tys
<1>9. /\ Grows(aliases.ctx, unions.ctx)
      /\ \A j \in DOMAIN several :
           /\ unions.ids[j] \in DOMAIN unions.ctx.ephemeral
           /\ unions.ctx.ephemeral[unions.ids[j]] = Union(at(several[j]))
  <2>1. IsContext(aliases.ctx)
    BY <1>3 DEF Grows
  <2>2. \A j \in DOMAIN several : at(several[j]) \subseteq DOMAIN aliases.ctx.ephemeral
    <3>1. \A j \in DOMAIN several : several[j] \in I
      BY <1>2, SetToSeqIsAll
    <3> HIDE DEF aliases, several, I, N, E
    <3> QED  BY <1>3, <1>7, <3>1 DEF AliasFor
  <2> HIDE DEF aliases, at, several, S, I, N, E
  <2>3. \A j \in DOMAIN tys : Holds(tys[j]) \subseteq DOMAIN aliases.ctx.ephemeral
    BY <1>5, <1>6, <2>2 DEF Holds, Union
  <2> QED  BY <1>5, <1>6, <2>1, <2>3, AddTypesGrows
<1>10. Grows(c, unions.ctx)
  BY <1>3, <1>9, GrowsIsTransitive
<1>11. \A m \in N : AliasFor(unions.ctx, aliases.idOf[m], m)
  BY <1>3, <1>9 DEF AliasFor, Grows
<1> DEFINE d == unions.ctx
           idOf == aliases.idOf
<1> HIDE DEF unions, several, E, N, I, S, aliases
<1>12. ASSUME NEW i \in I
       PROVE  LeadsToNodes(d, idAt(i), TargetsAt(n, kind, i))
  <2> DEFINE M == TargetsAt(n, kind, i)
  <2>1. M # {} /\ M \subseteq N /\ at(i) = {idOf[m] : m \in M}
    BY <1>7
  <2>2. /\ \A x \in at(i) : \E m \in M : AliasFor(d, x, m)
        /\ \A m \in M : idOf[m] \in at(i) /\ AliasFor(d, idOf[m], m)
    BY <1>11, <2>1
  <2>3. CASE i \in S
    <3> DEFINE j == CHOOSE j \in DOMAIN several : several[j] = i
    <3>1. j \in DOMAIN several /\ several[j] = i /\ idAt(i) = unions.ids[j]
      BY <1>4, <2>3
    <3> HIDE DEF j
    <3>2. idAt(i) \in DOMAIN d.ephemeral /\ d.ephemeral[idAt(i)] = Union(at(i))
      BY <1>9, <3>1
    <3>3. d.ephemeral[idAt(i)].members = at(i)
      BY <3>2 DEF Union
    <3> HIDE DEF idAt, at, M, d, idOf
    <3> QED  BY <2>2, <3>2, <3>3 DEF LeadsToNodes, M
  <2>4. CASE i \notin S
    <3>1. idAt(i) = CHOOSE id \in at(i) : TRUE
      BY <1>4, <2>4
    <3>2. ~(Cardinality(at(i)) > 1)
      BY <2>4 DEF S
    <3>3. PICK x : at(i) = {x}
      <4>1. at(i) # {}
        BY <2>1
      <4> HIDE DEF at
      <4> QED  BY <1>8, <3>2, <4>1, FewAreOne
    <3>4. idAt(i) = x
      BY <3>1, <3>3
    <3>5. \A m \in M : AliasFor(d, x, m)
      BY <2>2, <3>3
    <3>6. \A m, k \in M : m = k
      <4> HIDE DEF M, d
      <4>1. \A m \in M : d.ephemeral[x].node = m
        BY <3>5, AliasForFields
      <4> QED  BY <4>1
    <3>7. PICK m : M = {m}
      BY <2>1, <3>6
    <3> HIDE DEF idAt, at, M, d, idOf
    <3>8. AliasFor(d, x, m) /\ m \in M
      BY <3>5, <3>7
    <3> QED  BY <3>4, <3>7, <3>8 DEF LeadsToNodes, AliasFor, M
  <2> QED  BY <2>3, <2>4
<1>13. ParamsMean(d, n, kind, params)
  <2> HIDE DEF idAt, d, at, idOf
  <2>1. \A p \in params : \E i \in I :
          p.index = i /\ p.type_index = idAt(i) /\ p = [index |-> i, type_index |-> idAt(i)]
    OBVIOUS
  <2>2. ASSUME NEW i \in I PROVE \E p \in params : p.index = i
    <3>1. [index |-> i, type_index |-> idAt(i)] \in params
      OBVIOUS
    <3>2. [index |-> i, type_index |-> idAt(i)].index = i
      OBVIOUS
    <3> QED  BY <3>1, <3>2
  <2> HIDE DEF params
  <2>3. \A p, q \in params : p.index = q.index => p = q
    BY <2>1
  <2>4. \A p \in params :
          p.index \in I /\ LeadsToNodes(d, p.type_index, TargetsAt(n, kind, p.index))
    BY <1>12, <2>1
  <2> QED  BY <2>2, <2>3, <2>4 DEF ParamsMean, I
<1> QED  BY <1>1, <1>10, <1>13

-----------------------------------------------------------------------------
\* What is known of a return value: where its type leads, or that it is padding.
ReturnValueMeans(c, n, i, id) ==
  IF i \in Returns(n) THEN LeadsToNodes(c, id, TargetsAt(n, "out", i))
  ELSE DefaultName \in DOMAIN c.primitives /\ id = c.primitives[DefaultName]

ReturnFieldMeans(c, n, i, f) ==
  f.byte_offset = OffsetOf(SizesAt(n), i) /\ ReturnValueMeans(c, n, i, f.type_index)

ReturnMeans(c, n, id) ==
  IF Cardinality(Returns(n)) > 1 \/ Len(SizesAt(n)) > 1
  THEN /\ id \in DOMAIN c.ephemeral /\ c.ephemeral[id].kind = "structure"
       /\ \A f \in Range(c.ephemeral[id].fields) :
            \E i \in 0 .. Len(SizesAt(n)) - 1 : ReturnFieldMeans(c, n, i, f)
       /\ \A i \in 0 .. Len(SizesAt(n)) - 1 :
            \E f \in Range(c.ephemeral[id].fields) : ReturnFieldMeans(c, n, i, f)
  ELSE \/ Returns(n) = {} /\ id = None
       \/ \E i \in Returns(n) : Returns(n) = {i} /\ LeadsToNodes(c, id, TargetsAt(n, "out", i))

LEMMA ReturnMeansGrows ==
  ASSUME NEW c, NEW d, Grows(c, d), NEW n, NEW id, ReturnMeans(c, n, id)
  PROVE  ReturnMeans(d, n, id)
<1>1. \A i, f : ReturnFieldMeans(c, n, i, f) => ReturnFieldMeans(d, n, i, f)
  BY LeadsToNodesGrows DEF ReturnFieldMeans, ReturnValueMeans, Grows
<1>2. \A N : LeadsToNodes(c, id, N) => LeadsToNodes(d, id, N)
  BY LeadsToNodesGrows
<1>3. id \in DOMAIN c.ephemeral => id \in DOMAIN d.ephemeral /\ d.ephemeral[id] = c.ephemeral[id]
  BY DEF Grows
<1> QED  BY <1>1, <1>2, <1>3 DEF ReturnMeans

LEMMA ParamsAreAsMany ==
  ASSUME IsFiniteSet(grph.edges), NEW c, NEW n, NEW kind, NEW params,
         ParamsMean(c, n, kind, params)
  PROVE  /\ IsFiniteSet(params) /\ Cardinality(params) = Cardinality(Indices(n, kind))
         /\ IsFiniteSet(Indices(n, kind))
<1> DEFINE I == Indices(n, kind)
           f == [i \in I |-> CHOOSE p \in params : p.index = i]
<1>1. IsFiniteSet(I)
  <2>1. EdgesOfKind(n, {kind}) \in SUBSET grph.edges
    BY DEF EdgesOfKind
  <2> QED  BY <2>1, TargetsFinite DEF Indices
<1>2. \A i \in I : f[i] \in params /\ f[i].index = i
  BY DEF ParamsMean
<1>3. \A p \in params : p.index \in I /\ f[p.index] = p
  BY <1>2 DEF ParamsMean
<1>4. f \in [I -> params]
  BY <1>2
<1> HIDE DEF f, I
<1>5. f \in Bijection(I, params)
  BY <1>2, <1>3, <1>4 DEF Bijection, Injection, Surjection, IsInjective
<1>6. ExistsBijection(I, params)
  BY <1>5 DEF ExistsBijection
<1> QED  BY <1>1, <1>6, FS_Bijection DEF I

LEMMA OffsetsFinite ==
  ASSUME NEW sizes, IsSequence(sizes), NEW params, NEW default
  PROVE  IsFiniteSet(ReturnFields(sizes, params, default))
<1> DEFINE field(i) ==
             [byte_offset |-> OffsetOf(sizes, i), bit_sz |-> sizes[i + 1],
              type_index |-> IF \E p \in params : p.index = i
                             THEN (CHOOSE p \in params : p.index = i).type_index
                             ELSE default]
           f == [i \in 0 .. Len(sizes) - 1 |-> field(i)]
<1>1. ReturnFields(sizes, params, default) = {f[i] : i \in 0 .. Len(sizes) - 1}
  BY DEF ReturnFields
<1> HIDE DEF f
<1>2. IsFiniteSet(0 .. Len(sizes) - 1)
  BY FS_Interval DEF IsSequence
<1> QED  BY <1>1, <1>2, ImageFinite

LEMMA ReturnTypeMeans ==
  ASSUME IsFiniteSet(grph.edges), NEW c, IsContext(c), NEW n, IsSequence(SizesAt(n)),
         NEW outs, ParamsMean(c, n, "out", outs)
  PROVE  LET built == BuildReturnType(c, SizesAt(n), outs)
         IN  Grows(c, built.ctx) /\ ReturnMeans(built.ctx, n, built.return_ty)
<1> DEFINE sizes == SizesAt(n)
           padded == \E i \in 0 .. Len(sizes) - 1 : \A p \in outs : p.index # i
           pad == BuildTerminalType(c, DefaultName)
           c2 == IF padded THEN pad.ctx ELSE c
           fields == ReturnFields(sizes, outs, IF padded THEN pad.id ELSE None)
           added == AddType(c2, Structure(SetToSeq(fields)))
<1>1. /\ Cardinality(outs) = Cardinality(Returns(n)) /\ IsFiniteSet(outs)
      /\ IsFiniteSet(Returns(n)) /\ Returns(n) = Indices(n, "out")
  BY ParamsAreAsMany DEF Returns, Indices
<1>2. CASE Cardinality(outs) > 1 \/ Len(sizes) > 1
  <2>1. BuildReturnType(c, sizes, outs) = [return_ty |-> added.id, ctx |-> added.ctx]
    BY <1>2 DEF BuildReturnType
  <2>2. /\ Grows(c, c2)
        /\ padded => /\ DefaultName \in DOMAIN c2.primitives
                     /\ c2.primitives[DefaultName] = pad.id
    <3>1. Grows(c, c)
      BY DEF Grows
    <3> QED  BY <3>1, BuildTerminalTypeGrows
  <2>3. /\ Grows(c2, added.ctx)
        /\ added.ctx.primitives = c2.primitives
        /\ added.id \in DOMAIN added.ctx.ephemeral
        /\ added.ctx.ephemeral[added.id] = Structure(SetToSeq(fields))
    <3>1. IsContext(c2)
      BY <2>2 DEF Grows
    <3>2. IsFiniteSet(fields)
      BY OffsetsFinite
    <3>3. \A f \in fields : f.type_index \in DOMAIN c2.ephemeral
      <4>1. ASSUME NEW i \in 0 .. Len(sizes) - 1
            PROVE  (IF \E p \in outs : p.index = i
                    THEN (CHOOSE p \in outs : p.index = i).type_index
                    ELSE IF padded THEN pad.id ELSE None) \in DOMAIN c2.ephemeral
        <5>1. CASE \E p \in outs : p.index = i
          <6>1. PICK p \in outs : p = CHOOSE x \in outs : x.index = i
            BY <5>1
          <6>2. p.type_index \in DOMAIN c.ephemeral
            BY DEF ParamsMean, LeadsToNodes
          <6>3. p.type_index \in DOMAIN c2.ephemeral
            <7> HIDE DEF c2
            <7> QED  BY <2>2, <6>2 DEF Grows
          <6> HIDE DEF c2, pad, padded
          <6> QED  BY <5>1, <6>1, <6>3
        <5>2. CASE ~ \E p \in outs : p.index = i
          <6>1. padded
            BY <5>2
          <6>2. pad.id \in DOMAIN c2.ephemeral
            BY <6>1, BuildTerminalTypeGrows
          <6> HIDE DEF c2, pad, padded
          <6> QED  BY <5>2, <6>1, <6>2
        <5> QED  BY <5>1, <5>2
      <4> HIDE DEF c2, pad, padded
      <4> QED  BY <4>1 DEF ReturnFields
    <3> HIDE DEF c2, fields
    <3>4. Holds(Structure(SetToSeq(fields))) \subseteq DOMAIN c2.ephemeral
      <4>1. Range(SetToSeq(fields)) = fields
        BY <3>2, SetToSeqIsAll
      <4>2. Holds(Structure(SetToSeq(fields))) = {f.type_index : f \in fields}
        BY <4>1 DEF Holds, Structure
      <4> QED  BY <3>3, <4>2
    <3> QED  BY <3>1, <3>4, AddTypeGrows
  <2> DEFINE d == added.ctx
             id == added.id
  <2>4. Grows(c, d)
    BY <2>2, <2>3, GrowsIsTransitive
  <2>5. /\ d.ephemeral[id].kind = "structure" /\ Range(d.ephemeral[id].fields) = fields
    <3>1. IsFiniteSet(fields)
      BY OffsetsFinite
    <3> HIDE DEF fields
    <3>2. Range(SetToSeq(fields)) = fields
      BY <3>1, SetToSeqIsAll
    <3> DEFINE ty == d.ephemeral[id]
    <3>3. ty = [kind |-> "structure", fields |-> SetToSeq(fields)]
      BY <2>3 DEF Structure
    <3> HIDE DEF ty
    <3>4. ty.kind = "structure" /\ Range(ty.fields) = fields
      BY <3>2, <3>3
    <3> QED  BY <3>4 DEF ty
  <2>6. padded => /\ DefaultName \in DOMAIN d.primitives
                  /\ d.primitives[DefaultName] = pad.id
    BY <2>2, <2>3
  <2> DEFINE typeAt(i) == IF \E p \in outs : p.index = i
                          THEN (CHOOSE p \in outs : p.index = i).type_index
                          ELSE IF padded THEN pad.id ELSE None
             fieldAt(i) == [byte_offset |-> OffsetOf(sizes, i), bit_sz |-> sizes[i + 1],
                            type_index |-> typeAt(i)]
  <2>7. fields = {fieldAt(i) : i \in 0 .. Len(sizes) - 1}
    BY DEF ReturnFields
  <2>8. ParamsMean(d, n, "out", outs)
    <3> HIDE DEF d
    <3> QED  BY <2>4, ParamsMeanGrows
  <2>9. ASSUME NEW i \in 0 .. Len(sizes) - 1
        PROVE  ReturnValueMeans(d, n, i, typeAt(i))
    <3>1. CASE \E p \in outs : p.index = i
      <4>1. PICK p \in outs : p.index = i /\ typeAt(i) = p.type_index
        BY <3>1
      <4> HIDE DEF d, typeAt
      <4> QED  BY <1>1, <2>8, <4>1 DEF ParamsMean, ReturnValueMeans
    <3>2. CASE ~ \E p \in outs : p.index = i
      <4>1. padded /\ typeAt(i) = pad.id
        BY <3>2
      <4>2. i \notin Returns(n)
        BY <1>1, <2>8, <3>2 DEF ParamsMean
      <4> HIDE DEF d, typeAt
      <4> QED  BY <2>6, <4>1, <4>2 DEF ReturnValueMeans
    <3> QED  BY <3>1, <3>2
  <2>10. ASSUME NEW i \in 0 .. Len(sizes) - 1
         PROVE  ReturnFieldMeans(d, n, i, fieldAt(i))
    <3> HIDE DEF d, typeAt
    <3> QED  BY <2>9 DEF ReturnFieldMeans
  <2> HIDE DEF fields, fieldAt, d, id
  <2>11. ReturnMeans(d, n, id)
    BY <1>1, <1>2, <2>3, <2>5, <2>7, <2>10 DEF ReturnMeans, d, id
  <2> QED  BY <2>1, <2>4, <2>11 DEF d, id
<1>3. CASE ~(Cardinality(outs) > 1 \/ Len(sizes) > 1)
  <2> DEFINE id == IF outs = {} THEN None ELSE (CHOOSE p \in outs : TRUE).type_index
  <2>1. BuildReturnType(c, sizes, outs) = [return_ty |-> id, ctx |-> c]
    BY <1>3 DEF BuildReturnType
  <2>2. Grows(c, c)
    BY DEF Grows
  <2>3. CASE outs = {}
    <3>1. Returns(n) = {}
      BY <1>1, <2>3 DEF ParamsMean
    <3> QED  BY <1>1, <1>3, <2>1, <2>2, <2>3, <3>1 DEF ReturnMeans
  <2>4. CASE outs # {}
    <3>1. PICK p : outs = {p}
      BY <1>1, <1>3, <2>4, FewAreOne
    <3>2. id = p.type_index
      BY <3>1
    <3>3. Returns(n) = {p.index} /\ LeadsToNodes(c, id, TargetsAt(n, "out", p.index))
      BY <1>1, <3>1, <3>2 DEF ParamsMean
    <3>4. ReturnMeans(c, n, id)
      <4> HIDE DEF id
      <4> QED  BY <1>1, <1>3, <3>3 DEF ReturnMeans
    <3> QED  BY <2>1, <2>2, <3>4
  <2> QED  BY <2>3, <2>4
<1> QED  BY <1>2, <1>3

-----------------------------------------------------------------------------
LEMMA GrowsIsReflexive ==
  ASSUME NEW c, IsContext(c)
  PROVE  Grows(c, c)
  BY DEF Grows

FunctionMeans(c, n, ty) ==
  /\ ty.kind = "function"
  /\ ParamsMean(c, n, "in", ty.params)
  /\ ReturnMeans(c, n, ty.return_ty)

LEMMA FunctionTypesMean ==
  ASSUME IsFiniteSet(grph.edges), NEW c, IsContext(c), NEW n, IsSequence(SizesAt(n))
  PROVE  LET built == BuildFunctionTypes(c, n)
         IN  /\ Grows(c, built.ctx)
             /\ IsFiniteSet(built.types)
             /\ \A ty \in built.types : FunctionMeans(built.ctx, n, ty)
             /\ EdgesOfKind(n, {"in", "out"}) # {} => built.types # {}
<1> DEFINE ins == CollectParams(c, n, "in")
           outs == CollectParams(ins.ctx, n, "out")
           ret == BuildReturnType(outs.ctx, SizesAt(n), outs.params)
           ty == [kind |-> "function", params |-> ins.params, return_ty |-> ret.return_ty]
           T == IF ins.params \cup outs.params = {} THEN {} ELSE {ty}
<1>1. BuildFunctionTypes(c, n) = [types |-> T, ctx |-> ret.ctx]
  BY DEF BuildFunctionTypes, SizesAt
<1>2. Grows(c, ins.ctx) /\ ParamsMean(ins.ctx, n, "in", ins.params)
  BY CollectParamsMeans
<1>3. Grows(ins.ctx, outs.ctx) /\ ParamsMean(outs.ctx, n, "out", outs.params)
  <2>1. IsContext(ins.ctx)
    BY <1>2 DEF Grows
  <2> HIDE DEF ins
  <2> QED  BY <2>1, CollectParamsMeans
<1>4. Grows(outs.ctx, ret.ctx) /\ ReturnMeans(ret.ctx, n, ret.return_ty)
  <2>1. IsContext(outs.ctx)
    BY <1>3 DEF Grows
  <2> HIDE DEF ins, outs
  <2> QED  BY <1>3, <2>1, ReturnTypeMeans
<1> HIDE DEF ins, outs, ret
<1>5. Grows(ins.ctx, ret.ctx) /\ Grows(c, ret.ctx)
  BY <1>2, <1>3, <1>4, GrowsIsTransitive
<1>6. ParamsMean(ret.ctx, n, "in", ins.params)
  BY <1>2, <1>5, ParamsMeanGrows
<1>7. FunctionMeans(ret.ctx, n, ty)
  BY <1>4, <1>6 DEF FunctionMeans
<1>8. IsFiniteSet(T)
  BY FS_Singleton, FS_EmptySet
<1>9. ASSUME T = {} PROVE EdgesOfKind(n, {"in", "out"}) = {}
  <2>1. ins.params = {} /\ outs.params = {}
    BY <1>9
  <2>2. Indices(n, "in") = {} /\ Indices(n, "out") = {}
    BY <1>2, <1>3, <2>1 DEF ParamsMean
  <2> QED  BY <2>2 DEF Indices, EdgesOfKind
<1> HIDE DEF ty
<1> QED  BY <1>1, <1>5, <1>7, <1>8, <1>9

-----------------------------------------------------------------------------
\* A field of a structure is where the sketch has one, and leads to its node.
FieldMeans(c, f, g) == f.byte_offset = g.byte_offset /\ AliasFor(c, f.type_index, g.node)

StructureMeans(c, n, ty) ==
  /\ ty.kind = "structure"
  /\ \A f \in Range(ty.fields) : \E g \in TranslatedFields(grph.edges, n) : FieldMeans(c, f, g)

HasField(c, ty, g) ==
  ty.kind = "structure" /\ \E f \in Range(ty.fields) : FieldMeans(c, f, g)

\* The structures of the classrooms hold the fields of the node.
RoomsHold(R, n) ==
  /\ IsFiniteSet(R)
  /\ \A room \in R : \A i \in DOMAIN room : room[i] \in TranslatedFields(grph.edges, n)
  /\ \A g \in TranslatedFields(grph.edges, n) : \E room \in R : \E i \in DOMAIN room : room[i] = g

LEMMA StructureTypesMean ==
  ASSUME IsFiniteSet(grph.edges), NEW c, IsContext(c), NEW n,
         NEW R, HasNonZeroFields(n) => RoomsHold(R, n)
  PROVE  LET built == BuildStructureTypes(c, n, R)
         IN  /\ Grows(c, built.ctx)
             /\ IsFiniteSet(built.types)
             /\ \A ty \in built.types : StructureMeans(built.ctx, n, ty)
             /\ HasNonZeroFields(n) =>
                  \A g \in TranslatedFields(grph.edges, n) :
                    \E ty \in built.types : HasField(built.ctx, ty, g)
<1> DEFINE N == Targets(EdgesOfKind(n, {"field"}))
           aliases == AddAliases(c, N)
           field(f) == [byte_offset |-> f.byte_offset, bit_sz |-> f.bit_sz,
                        type_index |-> aliases.idOf[f.node]]
           struct(room) == Structure([i \in DOMAIN room |-> field(room[i])])
           T == {struct(room) : room \in R}
           F == TranslatedFields(grph.edges, n)
<1>1. CASE ~HasNonZeroFields(n)
  <2>1. BuildStructureTypes(c, n, R) = [types |-> {}, ctx |-> c]
    BY <1>1 DEF BuildStructureTypes
  <2> QED  BY <1>1, <2>1, GrowsIsReflexive, FS_EmptySet
<1>2. CASE HasNonZeroFields(n)
  <2>1. BuildStructureTypes(c, n, R) = [types |-> T, ctx |-> aliases.ctx]
    BY <1>2 DEF BuildStructureTypes
  <2>2. IsFiniteSet(N)
    <3>1. EdgesOfKind(n, {"field"}) \in SUBSET grph.edges
      BY DEF EdgesOfKind
    <3> QED  BY <3>1, TargetsFinite
  <2>3. Grows(c, aliases.ctx) /\ \A m \in N : AliasFor(aliases.ctx, aliases.idOf[m], m)
    <3> HIDE DEF N
    <3> QED  BY <2>2, AddAliasesGrows
  <2>4. \A g \in F : g.node \in N
    BY DEF TranslatedFields, Targets, EdgesOfKind
  <2>5. IsFiniteSet(T)
    <3> DEFINE f == [room \in R |-> struct(room)]
    <3>1. T = {f[room] : room \in R}
      OBVIOUS
    <3>2. IsFiniteSet(R)
      BY <1>2 DEF RoomsHold
    <3> HIDE DEF f, T
    <3> QED  BY <3>1, <3>2, ImageFinite
  <2> DEFINE d == aliases.ctx
             idOf == aliases.idOf
  <2> HIDE DEF aliases, N, d, F
  <2>6. \A g \in F : FieldMeans(d, field(g), g)
    BY <2>3, <2>4 DEF FieldMeans, d
  <2> HIDE DEF field
  <2>7. ASSUME NEW room \in R
        PROVE  /\ struct(room).kind = "structure"
               /\ Range(struct(room).fields) = {field(room[i]) : i \in DOMAIN room}
    <3> DEFINE fs == [i \in DOMAIN room |-> field(room[i])]
    <3>1. Range(fs) = {field(room[i]) : i \in DOMAIN room}
      BY DEF Range
    <3>2. struct(room) = [kind |-> "structure", fields |-> fs]
      BY DEF Structure
    <3> HIDE DEF fs
    <3> QED  BY <3>1, <3>2
  <2> HIDE DEF struct
  <2>8. ASSUME NEW ty \in T PROVE StructureMeans(d, n, ty)
    <3>1. PICK room \in R : ty = struct(room)
      OBVIOUS
    <3>2. \A f \in Range(ty.fields) : \E g \in F : FieldMeans(d, f, g)
      <4>1. \A i \in DOMAIN room : room[i] \in F
        BY <1>2 DEF RoomsHold, F
      <4> QED  BY <2>6, <2>7, <3>1, <4>1
    <3> QED  BY <2>7, <3>1, <3>2 DEF StructureMeans, F
  <2>9. ASSUME NEW g \in F PROVE \E ty \in T : HasField(d, ty, g)
    <3>1. PICK room \in R : \E i \in DOMAIN room : room[i] = g
      BY <1>2 DEF RoomsHold, F
    <3>2. field(g) \in Range(struct(room).fields) /\ FieldMeans(d, field(g), g)
      BY <2>6, <2>7, <3>1
    <3> QED  BY <2>7, <3>2 DEF HasField
  <2> HIDE DEF T
  <2> QED  BY <2>1, <2>3, <2>5, <2>8, <2>9 DEF d, F
<1> QED  BY <1>1, <1>2

Contents(n) == Targets(EdgesOfKind(n, {"load", "store"}))

PointsTo(c, ty, m) == ty.kind = "pointer" /\ AliasFor(c, ty.target, m)

LEMMA PointerTypesMean ==
  ASSUME IsFiniteSet(grph.edges), NEW c, IsContext(c), NEW n
  PROVE  LET built == BuildPointerTypes(c, n)
         IN  /\ Grows(c, built.ctx)
             /\ IsFiniteSet(built.types)
             /\ \A ty \in built.types : \E m \in Contents(n) : PointsTo(built.ctx, ty, m)
             /\ \A m \in Contents(n) : \E ty \in built.types : PointsTo(built.ctx, ty, m)
<1> DEFINE N == Contents(n)
           aliases == AddAliases(c, N)
           pointer(m) == Pointer(aliases.idOf[m])
           T == {pointer(m) : m \in N}
           d == aliases.ctx
<1>1. BuildPointerTypes(c, n) = [types |-> T, ctx |-> d]
  BY DEF BuildPointerTypes, Contents
<1>2. IsFiniteSet(N)
  <2>1. EdgesOfKind(n, {"load", "store"}) \in SUBSET grph.edges
    BY DEF EdgesOfKind
  <2> QED  BY <2>1, TargetsFinite DEF Contents
<1> HIDE DEF N
<1>3. Grows(c, d) /\ \A m \in N : AliasFor(d, aliases.idOf[m], m)
  BY <1>2, AddAliasesGrows
<1>4. IsFiniteSet(T)
  <2> DEFINE f == [m \in N |-> pointer(m)]
  <2>1. T = {f[m] : m \in N}
    OBVIOUS
  <2> HIDE DEF f, T
  <2> QED  BY <1>2, <2>1, ImageFinite
<1> HIDE DEF aliases, d
<1>5. \A m \in N : PointsTo(d, pointer(m), m)
  BY <1>3 DEF PointsTo, Pointer
<1> HIDE DEF pointer
<1>6. /\ \A ty \in T : \E m \in N : PointsTo(d, ty, m)
      /\ \A m \in N : \E ty \in T : PointsTo(d, ty, m)
  BY <1>5
<1> HIDE DEF T
<1> QED  BY <1>1, <1>3, <1>4, <1>6 DEF N

-----------------------------------------------------------------------------
\* A type is a union of others, or is the only one that describes a node.
Parts(c, id) ==
  IF c.ephemeral[id].kind = "union"
  THEN {c.ephemeral[i] : i \in c.ephemeral[id].members}
  ELSE {c.ephemeral[id]}

HasParts(c, id) ==
  /\ id \in DOMAIN c.ephemeral
  /\ c.ephemeral[id].kind = "union" => c.ephemeral[id].members \subseteq DOMAIN c.ephemeral

LEMMA PartsGrow ==
  ASSUME NEW c, NEW d, Grows(c, d), NEW id, HasParts(c, id)
  PROVE  HasParts(d, id) /\ Parts(d, id) = Parts(c, id)
<1>1. /\ id \in DOMAIN d.ephemeral
      /\ d.ephemeral[id] = c.ephemeral[id]
      /\ DOMAIN c.ephemeral \subseteq DOMAIN d.ephemeral
      /\ \A i \in DOMAIN c.ephemeral : d.ephemeral[i] = c.ephemeral[i]
  BY DEF Grows, HasParts
<1>2. CASE c.ephemeral[id].kind = "union"
  <2>1. c.ephemeral[id].members \subseteq DOMAIN c.ephemeral
    BY <1>2 DEF HasParts
  <2>2. \A i \in c.ephemeral[id].members : d.ephemeral[i] = c.ephemeral[i]
    BY <1>1, <2>1
  <2> QED  BY <1>1, <1>2, <2>1, <2>2 DEF HasParts, Parts
<1>3. CASE c.ephemeral[id].kind # "union"
  BY <1>1, <1>3 DEF HasParts, Parts
<1> QED  BY <1>2, <1>3

LEMMA CombinedParts ==
  ASSUME NEW c, IsContext(c), NEW tys, IsFiniteSet(tys), \A ty \in tys : ty.kind # "union",
         \A ty \in tys : Holds(ty) \subseteq DOMAIN c.ephemeral
  PROVE  LET built == Combined(c, tys)
         IN  /\ Grows(c, built.ctx)
             /\ HasParts(built.ctx, built.id)
             /\ Parts(built.ctx, built.id) = tys
<1>1. CASE Cardinality(tys) = 1
  <2> DEFINE only == CHOOSE ty \in tys : TRUE
             added == AddType(c, only)
  <2>1. Combined(c, tys) = added
    BY <1>1 DEF Combined
  <2>2. tys = {only}
    BY <1>1, FS_Singleton
  <2> HIDE DEF only
  <2>3. /\ Grows(c, added.ctx)
        /\ added.id \in DOMAIN added.ctx.ephemeral
        /\ added.ctx.ephemeral[added.id] = only
    BY <2>2, AddTypeGrows
  <2>4. only.kind # "union"
    BY <2>2
  <2> HIDE DEF added
  <2>5. HasParts(added.ctx, added.id) /\ Parts(added.ctx, added.id) = {only}
    BY <2>3, <2>4 DEF HasParts, Parts
  <2> QED  BY <2>1, <2>2, <2>3, <2>5
<1>2. CASE Cardinality(tys) # 1
  <2> DEFINE members == AddTypes(c, SetToSeq(tys))
             ids == Range(members.ids)
             added == AddType(members.ctx, Union(ids))
             d == added.ctx
  <2>1. Combined(c, tys) = added
    BY <1>2 DEF Combined
  <2>2. IsSequence(SetToSeq(tys)) /\ Range(SetToSeq(tys)) = tys
    BY SetToSeqIsAll
  <2>3. /\ Grows(c, members.ctx)
        /\ DOMAIN members.ids = DOMAIN SetToSeq(tys)
        /\ \A i \in DOMAIN SetToSeq(tys) :
             /\ members.ids[i] \in DOMAIN members.ctx.ephemeral
             /\ members.ctx.ephemeral[members.ids[i]] = SetToSeq(tys)[i]
    <3>1. \A i \in DOMAIN SetToSeq(tys) : Holds(SetToSeq(tys)[i]) \subseteq DOMAIN c.ephemeral
      BY SetToSeqIsAll
    <3> QED  BY <2>2, <3>1, AddTypesGrows
  <2>4. /\ ids \subseteq DOMAIN members.ctx.ephemeral
        /\ {members.ctx.ephemeral[i] : i \in ids} = tys
    <3> HIDE DEF members
    <3>1. {members.ctx.ephemeral[i] : i \in ids} =
            {members.ctx.ephemeral[members.ids[j]] : j \in DOMAIN members.ids}
      BY DEF Range
    <3>2. {SetToSeq(tys)[j] : j \in DOMAIN SetToSeq(tys)} = tys
      BY <2>2 DEF Range
    <3> QED  BY <2>3, <3>1, <3>2 DEF Range
  <2>5. IsContext(members.ctx)
    BY <2>3 DEF Grows
  <2> HIDE DEF ids, members
  <2>6. /\ Grows(members.ctx, d)
        /\ added.id \in DOMAIN d.ephemeral
        /\ d.ephemeral[added.id] = Union(ids)
    <3>1. Holds(Union(ids)) = ids
      BY DEF Holds, Union
    <3> QED  BY <2>4, <2>5, <3>1, AddTypeGrows
  <2> HIDE DEF added, d
  <2>7. Grows(c, d)
    BY <2>3, <2>6, GrowsIsTransitive
  <2>8. d.ephemeral[added.id].kind = "union" /\ d.ephemeral[added.id].members = ids
    <3> DEFINE ty == d.ephemeral[added.id]
    <3>1. ty = [kind |-> "union", members |-> ids]
      BY <2>6 DEF Union
    <3> HIDE DEF ty
    <3>2. ty.kind = "union" /\ ty.members = ids
      BY <3>1
    <3> QED  BY <3>2 DEF ty
  <2>9. /\ ids \subseteq DOMAIN d.ephemeral
        /\ \A i \in ids : d.ephemeral[i] = members.ctx.ephemeral[i]
    BY <2>4, <2>6 DEF Grows
  <2>10. HasParts(d, added.id) /\ Parts(d, added.id) = tys
    <3>1. {d.ephemeral[i] : i \in ids} = tys
      BY <2>4, <2>9
    <3> QED  BY <2>6, <2>8, <2>9, <3>1 DEF HasParts, Parts
  <2> QED  BY <2>1, <2>7, <2>10 DEF d
<1> QED  BY <1>1, <1>2

-----------------------------------------------------------------------------
\* Every part of a node's type says something of the node, ...
PartMeans(c, n, ty) ==
  \/ StructureMeans(c, n, ty)
  \/ ty \in BuildAliasTypes(n)
  \/ ty.kind = "pointer" /\ \E m \in Contents(n) : PointsTo(c, ty, m)
  \/ FunctionMeans(c, n, ty)

\* ... and whatever is known of the node is said by one.
AllIsSaid(c, n, tys) ==
  /\ HasNonZeroFields(n) =>
       \A g \in TranslatedFields(grph.edges, n) : \E ty \in tys : HasField(c, ty, g)
  /\ BuildAliasTypes(n) \subseteq tys
  /\ \A m \in Contents(n) : \E ty \in tys : PointsTo(c, ty, m)
  /\ EdgesOfKind(n, {"in", "out"}) # {} => \E ty \in tys : FunctionMeans(c, n, ty)

TypeMeans(c, n, id) ==
  IF {e \in grph.edges : e[1] = n} = {}
  THEN id \in DOMAIN c.ephemeral /\ c.ephemeral[id] = PrimitiveType(grph.upper[n])
  ELSE /\ HasParts(c, id)
       /\ \A ty \in Parts(c, id) : PartMeans(c, n, ty)
       /\ AllIsSaid(c, n, Parts(c, id))

LEMMA AliasForGrows ==
  ASSUME NEW c, NEW d, Grows(c, d), NEW id, NEW m, AliasFor(c, id, m)
  PROVE  AliasFor(d, id, m)
  BY DEF AliasFor, Grows

LEMMA PartsSayTheSame ==
  ASSUME NEW c, NEW d, Grows(c, d), NEW n, NEW ty
  PROVE  /\ \A m : PointsTo(c, ty, m) => PointsTo(d, ty, m)
         /\ \A g : HasField(c, ty, g) => HasField(d, ty, g)
         /\ StructureMeans(c, n, ty) => StructureMeans(d, n, ty)
         /\ FunctionMeans(c, n, ty) => FunctionMeans(d, n, ty)
<1>1. \A f, g : FieldMeans(c, f, g) => FieldMeans(d, f, g)
  BY AliasForGrows DEF FieldMeans
<1>2. \A m : PointsTo(c, ty, m) => PointsTo(d, ty, m)
  BY AliasForGrows DEF PointsTo
<1>3. \A g : HasField(c, ty, g) => HasField(d, ty, g)
  BY <1>1 DEF HasField
<1>4. StructureMeans(c, n, ty) => StructureMeans(d, n, ty)
  BY <1>1 DEF StructureMeans
<1>5. FunctionMeans(c, n, ty) => FunctionMeans(d, n, ty)
  BY ParamsMeanGrows, ReturnMeansGrows DEF FunctionMeans
<1> QED  BY <1>2, <1>3, <1>4, <1>5

LEMMA PartsMeanTheSame ==
  ASSUME NEW c, NEW d, Grows(c, d), NEW n
  PROVE  /\ \A ty : PartMeans(c, n, ty) => PartMeans(d, n, ty)
         /\ \A tys : AllIsSaid(c, n, tys) => AllIsSaid(d, n, tys)
<1>1. \A ty : PartMeans(c, n, ty) => PartMeans(d, n, ty)
  BY PartsSayTheSame DEF PartMeans
<1>2. ASSUME NEW tys, AllIsSaid(c, n, tys) PROVE AllIsSaid(d, n, tys)
  BY <1>2, PartsSayTheSame DEF AllIsSaid
<1> QED  BY <1>1, <1>2

LEMMA TypeMeansTheSame ==
  ASSUME NEW c, NEW d, Grows(c, d), NEW n, NEW id, TypeMeans(c, n, id)
  PROVE  TypeMeans(d, n, id)
<1>1. CASE {e \in grph.edges : e[1] = n} = {}
  BY <1>1 DEF TypeMeans, Grows
<1>2. CASE {e \in grph.edges : e[1] = n} # {}
  <2>1. HasParts(d, id) /\ Parts(d, id) = Parts(c, id)
    BY <1>2, PartsGrow DEF TypeMeans
  <2> QED  BY <1>2, <2>1, PartsMeanTheSame DEF TypeMeans
<1> QED  BY <1>1, <1>2

LEMMA AliasTypesFinite ==
  ASSUME IsFiniteSet(grph.edges), NEW n
  PROVE  /\ IsFiniteSet(BuildAliasTypes(n))
         /\ \A ty \in BuildAliasTypes(n) : ty.kind = "alias"
<1> DEFINE N == Targets(EdgesOfKind(n, {"field"}))
           f == [m \in N |-> Alias(m)]
<1>1. IsFiniteSet(N)
  <2>1. EdgesOfKind(n, {"field"}) \in SUBSET grph.edges
    BY DEF EdgesOfKind
  <2> QED  BY <2>1, TargetsFinite
<1>2. IsFiniteSet({f[m] : m \in N})
  <2> HIDE DEF f, N
  <2> QED  BY <1>1, ImageFinite
<1>3. {f[m] : m \in N} = {Alias(m) : m \in N}
  OBVIOUS
<1>4. BuildAliasTypes(n) \in SUBSET {Alias(m) : m \in N}
  BY DEF BuildAliasTypes
<1>5. \A m : Alias(m).kind = "alias"
  BY DEF Alias
<1> QED  BY <1>2, <1>3, <1>4, <1>5, FS_Subset

\* A part holds aliases only.
LEMMA PartHolds ==
  ASSUME IsFiniteSet(grph.edges), NEW c, NEW n, NEW ty, PartMeans(c, n, ty)
  PROVE  Holds(ty) \subseteq DOMAIN c.ephemeral
<1>1. CASE StructureMeans(c, n, ty)
  BY <1>1 DEF StructureMeans, FieldMeans, AliasFor, Holds
<1>2. CASE ~StructureMeans(c, n, ty)
  <2>1. ty.kind \in {"alias", "pointer", "function"}
    BY <1>2, AliasTypesFinite DEF PartMeans, FunctionMeans
  <2> QED  BY <2>1 DEF Holds
<1> QED  BY <1>1, <1>2

LEMMA BuiltTypeMeans ==
  ASSUME IsFiniteSet(grph.edges), NEW c, IsContext(c), NEW n, IsSequence(SizesAt(n)),
         NEW R, HasNonZeroFields(n) => RoomsHold(R, n)
  PROVE  LET built == BuiltType(c, n, R)
         IN  Grows(c, built.ctx) /\ TypeMeans(built.ctx, n, built.id)
<1> DEFINE structures == BuildStructureTypes(c, n, R)
           pointers == BuildPointerTypes(structures.ctx, n)
           functions == BuildFunctionTypes(pointers.ctx, n)
           tys == UNION {structures.types, BuildAliasTypes(n), pointers.types, functions.types}
           d == functions.ctx
           built == Combined(d, tys)
<1>1. CASE {e \in grph.edges : e[1] = n} = {}
  <2>1. Targets({e \in grph.edges : e[1] = n}) = {}
    BY <1>1 DEF Targets
  <2>2. BuiltType(c, n, R) = BuildTerminalType(c, grph.upper[n])
    BY <2>1 DEF BuiltType
  <2> QED  BY <1>1, <2>2, BuildTerminalTypeGrows DEF TypeMeans
<1>2. CASE {e \in grph.edges : e[1] = n} # {}
  <2>1. Targets({e \in grph.edges : e[1] = n}) # {}
    BY <1>2 DEF Targets
  <2>2. BuiltType(c, n, R) = built
    BY <2>1 DEF BuiltType
  <2>3. /\ Grows(c, structures.ctx) /\ IsContext(structures.ctx)
        /\ IsFiniteSet(structures.types)
        /\ \A ty \in structures.types : StructureMeans(structures.ctx, n, ty)
        /\ HasNonZeroFields(n) =>
             \A g \in TranslatedFields(grph.edges, n) :
               \E ty \in structures.types : HasField(structures.ctx, ty, g)
    BY StructureTypesMean DEF Grows
  <2> HIDE DEF structures
  <2>4. /\ Grows(structures.ctx, pointers.ctx) /\ IsContext(pointers.ctx)
        /\ IsFiniteSet(pointers.types)
        /\ \A ty \in pointers.types : \E m \in Contents(n) : PointsTo(pointers.ctx, ty, m)
        /\ \A m \in Contents(n) : \E ty \in pointers.types : PointsTo(pointers.ctx, ty, m)
    BY <2>3, PointerTypesMean DEF Grows
  <2> HIDE DEF pointers
  <2>5. /\ Grows(pointers.ctx, d) /\ IsContext(d)
        /\ IsFiniteSet(functions.types)
        /\ \A ty \in functions.types : FunctionMeans(d, n, ty)
        /\ EdgesOfKind(n, {"in", "out"}) # {} => functions.types # {}
    BY <2>4, FunctionTypesMean DEF Grows
  <2> HIDE DEF functions, d
  <2>6. Grows(structures.ctx, d) /\ Grows(c, d)
    BY <2>3, <2>4, <2>5, GrowsIsTransitive
  <2>7. \A ty \in tys : PartMeans(d, n, ty)
    <3>1. \A ty \in structures.types : StructureMeans(d, n, ty)
      BY <2>3, <2>6, PartsSayTheSame
    <3>2. \A ty \in pointers.types : ty.kind = "pointer" /\ \E m \in Contents(n) : PointsTo(d, ty, m)
      BY <2>4, <2>5, PartsSayTheSame DEF PointsTo
    <3> QED  BY <2>5, <3>1, <3>2 DEF PartMeans
  <2>8. AllIsSaid(d, n, tys)
    <3>1. HasNonZeroFields(n) =>
            \A g \in TranslatedFields(grph.edges, n) : \E ty \in tys : HasField(d, ty, g)
      BY <2>3, <2>6, PartsSayTheSame
    <3>2. \A m \in Contents(n) : \E ty \in tys : PointsTo(d, ty, m)
      BY <2>4, <2>5, PartsSayTheSame
    <3> QED  BY <2>5, <3>1, <3>2 DEF AllIsSaid
  <2>9. IsFiniteSet(tys)
    <3>1. IsFiniteSet(BuildAliasTypes(n))
      BY AliasTypesFinite
    <3>2. tys = ((structures.types \cup BuildAliasTypes(n)) \cup pointers.types) \cup functions.types
      OBVIOUS
    <3> HIDE DEF tys
    <3> QED  BY <2>3, <2>4, <2>5, <3>1, <3>2, FS_Union
  <2>10. \A ty \in tys : ty.kind # "union"
    BY <2>7, AliasTypesFinite DEF PartMeans, StructureMeans, FunctionMeans
  <2>14. \A ty \in tys : Holds(ty) \subseteq DOMAIN d.ephemeral
    <3> HIDE DEF tys
    <3> QED  BY <2>7, PartHolds
  <2> HIDE DEF tys
  <2>11. Grows(d, built.ctx) /\ HasParts(built.ctx, built.id) /\ Parts(built.ctx, built.id) = tys
    BY <2>5, <2>9, <2>10, <2>14, CombinedParts
  <2> HIDE DEF built
  <2>12. Grows(c, built.ctx)
    BY <2>6, <2>11, GrowsIsTransitive
  <2>13. TypeMeans(built.ctx, n, built.id)
    BY <1>2, <2>7, <2>8, <2>11, PartsMeanTheSame DEF TypeMeans
  <2> QED  BY <2>2, <2>12, <2>13
<1> QED  BY <1>1, <1>2

-----------------------------------------------------------------------------
(* What a type means depends on the graph and the sizes of return values    *)
(* only, which never change.                                                *)
LEMMA ParamsStay ==
  ASSUME grph' = grph, NEW c, NEW n, NEW kind, NEW params
  PROVE  ParamsMean(c, n, kind, params)' <=> ParamsMean(c, n, kind, params)
  BY DEF ParamsMean, TargetsAt, Indices, EdgesOfKind

LEMMA ReturnsStay ==
  ASSUME grph' = grph, outParams' = outParams, NEW c, NEW n, NEW id
  PROVE  ReturnMeans(c, n, id)' <=> ReturnMeans(c, n, id)
  BY DEF ReturnMeans, ReturnFieldMeans, ReturnValueMeans, SizesAt, Returns, TargetsAt, EdgesOfKind

LEMMA FunctionsStay ==
  ASSUME grph' = grph, outParams' = outParams, NEW c, NEW n, NEW ty
  PROVE  FunctionMeans(c, n, ty)' <=> FunctionMeans(c, n, ty)
  BY ParamsStay, ReturnsStay DEF FunctionMeans

LEMMA EdgesStay ==
  ASSUME grph' = grph, NEW n
  PROVE  /\ BuildAliasTypes(n)' = BuildAliasTypes(n)
         /\ Contents(n)' = Contents(n)
         /\ HasNonZeroFields(n)' <=> HasNonZeroFields(n)
  BY DEF BuildAliasTypes, HasNonZeroFields, Contents, EdgesOfKind

LEMMA StructuresStay ==
  ASSUME grph' = grph, NEW c, NEW n, NEW ty
  PROVE  StructureMeans(c, n, ty)' <=> StructureMeans(c, n, ty)
  BY DEF StructureMeans

LEMMA PartsStay ==
  ASSUME grph' = grph, outParams' = outParams, NEW c, NEW n, NEW x
  PROVE  /\ PartMeans(c, n, x)' <=> PartMeans(c, n, x)
         /\ AllIsSaid(c, n, x)' <=> AllIsSaid(c, n, x)
<1>1. PartMeans(c, n, x)' <=> PartMeans(c, n, x)
  BY EdgesStay, StructuresStay, FunctionsStay DEF PartMeans
<1>2. AllIsSaid(c, n, x)' <=> AllIsSaid(c, n, x)
  BY EdgesStay, FunctionsStay DEF AllIsSaid, EdgesOfKind
<1> QED  BY <1>1, <1>2

LEMMA TypesStay ==
  ASSUME grph' = grph, outParams' = outParams, NEW c, NEW n, NEW id
  PROVE  TypeMeans(c, n, id)' <=> TypeMeans(c, n, id)
  BY PartsStay DEF TypeMeans


-----------------------------------------------------------------------------
(* superscedes_fld never finds a field: it looks for one that starts before  *)
(* a field among those that do not.                                          *)
LEMMA NeverSuperseded ==
  ASSUME IInv, NEW room \in rooms, NEW f \in AllFields
  PROVE  ~Superscedes(room, f)
<1> SUFFICES ASSUME NEW g \in FieldsIn(room),
                    f.byte_offset <= g.byte_offset, g.byte_offset < f.byte_offset
             PROVE  FALSE
  BY DEF Superscedes
<1>1. room \in Seq(AllFields)
  BY DEF IInv, RoomsOK
<1>2. g \in AllFields
  BY <1>1, ElementOfSeq, LenProperties DEF FieldsIn
<1> QED  BY <1>2, FieldType

(* The fields of the node that is being scheduled are all there, and the    *)
(* nodes that have types have types that mean what the graph says.          *)
GraphOK ==
  /\ grph \in Graphs
  /\ \A n \in DOMAIN outParams : outParams[n] \in Seq(Nat)
  /\ DOMAIN types \subseteq grph.nodes

ScheduleOK ==
  /\ IInv
  /\ current = None => todo = {} /\ rooms = {}
  /\ current # None => /\ current \in grph.nodes
                       /\ Scheduled \cup todo = TranslatedFields(grph.edges, current)

TypesOK ==
  /\ IsContext(ctx)
  /\ \A n \in DOMAIN types : TypeMeans(ctx, n, types[n])

LInv == GraphOK /\ ScheduleOK /\ TypesOK

LEMMA GraphFacts ==
  ASSUME GraphOK
  PROVE  /\ IsFiniteSet(grph.nodes) /\ None \notin grph.nodes /\ IsFiniteSet(grph.edges)
         /\ \A n \in grph.nodes : TranslatedFields(grph.edges, n) \in FieldSets
         /\ \A e \in grph.edges :
              /\ e[1] \in grph.nodes /\ e[3] \in grph.nodes
              /\ e[2].kind \in {"field", "load", "store", "in", "out", "add"}
              /\ e[2].kind = "field" => e[2].offset \in Int
         /\ \A n : IsSequence(SizesAt(n))
<1>1. ASSUME NEW n PROVE IsSequence(SizesAt(n))
  <2>1. SizesAt(n) \in Seq(Nat)
    BY DEF GraphOK, SizesAt
  <2> QED  BY <2>1, LenProperties DEF IsSequence
<1>2. ASSUME NEW n \in grph.nodes
      PROVE  TranslatedFields(grph.edges, n) \in FieldSets
  <2>1. TranslatedFields(grph.edges, n) \in {TranslatedFields(grph.edges, k) : k \in grph.nodes}
    OBVIOUS
  <2>2. {TranslatedFields(grph.edges, k) : k \in grph.nodes}
          \in {{TranslatedFields(G.edges, k) : k \in G.nodes} : G \in Graphs}
    BY DEF GraphOK
  <2> QED  BY <2>1, <2>2, GraphsAssumption
<1> QED  BY <1>1, <1>2, GraphsAssumption DEF GraphOK

LEMMA LoweringInit == InitLowering => LInv
<1> SUFFICES ASSUME InitLowering PROVE LInv
  OBVIOUS
<1>1. grph \in Graphs /\ types = <<>> /\ current = None /\ todo = {} /\ rooms = {}
  BY DEF InitLowering
<1>2. ASSUME NEW n \in DOMAIN outParams PROVE outParams[n] \in Seq(Nat)
  <2>1. PICK t \in DOMAIN grph.outs : grph.outs[t] = outParams[n]
    BY DEF InitLowering
  <2> QED  BY <1>1, <2>1, GraphsAssumption
<1>3. GraphOK
  BY <1>1, <1>2 DEF GraphOK
<1>4. ScheduleOK
  <2>1. IsFiniteSet({})
    BY FS_EmptySet
  <2> QED  BY <1>1, <2>1 DEF ScheduleOK, IInv, TodoOK, RoomsOK, InOrder, Apart, Visited
<1>5. TypesOK
  <2>1. ctx = [ephemeral |-> <<>>, primitives |-> <<>>, next |-> Cardinality(grph.nodes) + 1]
    BY DEF InitLowering
  <2>2. Cardinality(grph.nodes) \in Nat
    BY <1>3, GraphFacts, FS_CardinalityType
  <2>3. IsContext(ctx)
    BY <2>1, <2>2 DEF IsContext
  <2> QED  BY <1>1, <2>3 DEF TypesOK
<1> QED  BY <1>3, <1>4, <1>5 DEF LInv

LEMMA StartKeepsInv ==
  ASSUME LInv, NEW n \in grph.nodes, StartSchedule(n)
  PROVE  LInv'
<1>1. /\ current = None /\ current' = n /\ todo' = TranslatedFields(grph.edges, n)
      /\ rooms = {} /\ rooms' = {}
      /\ grph' = grph /\ outParams' = outParams /\ types' = types /\ ctx' = ctx
  BY DEF StartSchedule, LInv, ScheduleOK
<1>2. GraphOK'
  BY <1>1 DEF LInv, GraphOK
<1>3. TypesOK'
  BY <1>1, TypesStay DEF LInv, TypesOK
<1>4. ScheduleOK'
  <2>1. todo' \in FieldSets
    BY <1>1, GraphFacts DEF LInv
  <2>2. IInv'
    BY <1>1, <2>1, FS_EmptySet
    DEF IInv, TodoOK, RoomsOK, InOrder, Apart, Visited, AllFields
  <2>3. Scheduled' = {}
    BY <1>1 DEF Scheduled, Structures
  <2> QED  BY <1>1, <2>2, <2>3, GraphFacts DEF ScheduleOK, LInv
<1> QED  BY <1>2, <1>3, <1>4 DEF LInv

LEMMA ScheduleKeepsInv ==
  ASSUME LInv, NEW f \in todo, ScheduleField(f)
  PROVE  LInv'
<1>1. /\ Visit(f) /\ current' = current
      /\ grph' = grph /\ outParams' = outParams /\ types' = types /\ ctx' = ctx
  BY DEF ScheduleField, loweringVars
<1>2. GraphOK'
  BY <1>1 DEF LInv, GraphOK
<1>3. TypesOK'
  BY <1>1, TypesStay DEF LInv, TypesOK
<1>4. IInv'
  BY <1>1, NextInv DEF LInv, ScheduleOK, Next
<1>5. ScheduleOK'
  <2>1. current # None
    BY DEF LInv, ScheduleOK
  <2>2. IInv /\ f \in AllFields /\ todo' = todo \ {f}
    BY <1>1, VisitCases DEF LInv, ScheduleOK
  <2>3. ~Ignored(rooms, f, rooms')
    BY <2>2, NeverSuperseded DEF Ignored
  <2>4. Scheduled' = Scheduled \cup {f}
    BY <1>1, <2>2, <2>3, ScheduledGrows, ScheduledGrowsByOne
  <2>5. (Scheduled \cup todo)' = Scheduled \cup todo
    BY <2>2, <2>4
  <2> QED  BY <1>1, <1>4, <2>1, <2>5 DEF LInv, ScheduleOK
<1> QED  BY <1>2, <1>3, <1>5 DEF LInv

\* When all the fields of a node are scheduled, its structures hold them all.
LEMMA RoomsHoldFields ==
  ASSUME LInv, NEW n \in grph.nodes, current = n, todo = {}
  PROVE  RoomsHold(rooms, n)
<1>1. Scheduled = TranslatedFields(grph.edges, n)
  BY GraphFacts DEF LInv, ScheduleOK
<1>2. IsFiniteSet(rooms)
  BY DEF LInv, ScheduleOK, IInv, RoomsOK
<1> QED  BY <1>1, <1>2, InScheduled, ScheduledIsPlaced DEF RoomsHold

LEMMA BuildKeepsInv ==
  ASSUME LInv, NEW n \in grph.nodes, BuildType(n)
  PROVE  LInv'
<1> DEFINE built == BuiltType(ctx, n, rooms)
<1>1. /\ n \notin DOMAIN types /\ todo = {} /\ todo' = {} /\ rooms' = {} /\ current' = None
      /\ current = IF HasNonZeroFields(n) THEN n ELSE None
      /\ types' = [m \in DOMAIN types \cup {n} |-> IF m = n THEN built.id ELSE types[m]]
      /\ ctx' = built.ctx
      /\ grph' = grph /\ outParams' = outParams
  BY DEF BuildType
<1> HIDE DEF built
<1>2. GraphOK'
  BY <1>1 DEF LInv, GraphOK
<1>3. ScheduleOK'
  BY <1>1, FS_EmptySet
  DEF ScheduleOK, IInv, TodoOK, RoomsOK, InOrder, Apart, Visited
<1>4. Grows(ctx, built.ctx) /\ TypeMeans(built.ctx, n, built.id)
  <2>1. HasNonZeroFields(n) => RoomsHold(rooms, n)
    BY <1>1, RoomsHoldFields
  <2> QED  BY <2>1, BuiltTypeMeans, GraphFacts DEF built, LInv, TypesOK
<1>5. TypesOK'
  <2>1. IsContext(ctx')
    BY <1>1, <1>4 DEF Grows
  <2>2. ASSUME NEW m \in DOMAIN types'
        PROVE  TypeMeans(ctx', m, types'[m])
    <3>1. CASE m = n
      BY <1>1, <1>4, <3>1
    <3>2. CASE m # n
      <4>1. m \in DOMAIN types /\ types'[m] = types[m]
        BY <1>1, <3>2
      <4>2. TypeMeans(ctx, m, types[m])
        BY <4>1 DEF LInv, TypesOK
      <4> QED  BY <1>1, <1>4, <4>1, <4>2, TypeMeansTheSame
    <3> QED  BY <3>1, <3>2
  <2> QED  BY <1>1, <2>1, <2>2, TypesStay DEF TypesOK
<1> QED  BY <1>2, <1>3, <1>5 DEF LInv

LEMMA OthersKeepInv ==
  ASSUME LInv, UNCHANGED <<vars, grph, outParams, types, ctx, current>>
  PROVE  LInv'
<1>1. GraphOK'
  BY DEF LInv, GraphOK
<1>2. TypesOK'
  BY TypesStay DEF LInv, TypesOK
<1>3. ScheduleOK'
  BY DEF LInv, ScheduleOK, vars, Scheduled, Structures,
         IInv, TodoOK, RoomsOK, InOrder, Apart, Visited
<1> QED  BY <1>1, <1>2, <1>3 DEF LInv

LEMMA LoweringNext == LInv /\ [NextLowering]_<<vars, loweringVars>> => LInv'
<1> SUFFICES ASSUME LInv, [NextLowering]_<<vars, loweringVars>> PROVE LInv'
  OBVIOUS
<1>1. ASSUME NEW n \in grph.nodes, StartSchedule(n) PROVE LInv'
  BY <1>1, StartKeepsInv
<1>2. ASSUME NEW f \in todo, ScheduleField(f) PROVE LInv'
  BY <1>2, ScheduleKeepsInv
<1>3. ASSUME NEW n \in grph.nodes, BuildType(n) PROVE LInv'
  BY <1>3, BuildKeepsInv
<1>4. CASE ConvertMapping
  BY <1>4, OthersKeepInv DEF ConvertMapping
<1>5. CASE UNCHANGED <<vars, loweringVars>>
  BY <1>5, OthersKeepInv DEF loweringVars
<1> QED  BY <1>1, <1>2, <1>3, <1>4, <1>5 DEF NextLowering

LEMMA LoweringInvariance == SpecLowering => []LInv
  BY LoweringInit, LoweringNext, PTL DEF SpecLowering

(* While nodes are lowered in any order, one at a time, rule 1 of            *)
(* schedule_structures holds of every node's structures.                     *)
THEOREM LoweringNoOverlap == SpecLowering => []NoOverlap
<1>1. LInv => NoOverlap
  BY InvNoOverlap DEF LInv, ScheduleOK
<1> QED  BY <1>1, LoweringInvariance, PTL

\* ... no field of a node is lost, whatever was scheduled before,
THEOREM LoweringFieldsAreKept == SpecLowering => FieldsAreKept
<1> DEFINE Kept == \A f \in todo \ todo' :
                     \E g \in Scheduled' :
                       g.byte_offset <= f.byte_offset /\ UpperBound(f) <= UpperBound(g)
<1>1. LInv /\ [NextLowering]_<<vars, loweringVars>> => [Kept]_vars
  <2> SUFFICES ASSUME LInv, NextLowering, ~UNCHANGED vars PROVE Kept
    BY DEF vars
  <2>1. ASSUME NEW n \in grph.nodes, StartSchedule(n) PROVE Kept
    BY <2>1 DEF StartSchedule, LInv, ScheduleOK
  <2>2. ASSUME NEW f \in todo, ScheduleField(f) PROVE Kept
    <3>1. Visit(f) /\ todo' = todo \ {f}
      BY <2>2 DEF ScheduleField, Visit
    <3>2. \A g \in todo \ todo' : g = f
      BY <3>1
    <3> QED  BY <2>2, <3>1, <3>2, VisitKeepsField DEF LInv, ScheduleOK
  <2>3. ASSUME NEW n \in grph.nodes, BuildType(n) PROVE Kept
    BY <2>3 DEF BuildType
  <2>4. CASE ConvertMapping
    BY <2>4 DEF ConvertMapping
  <2> QED  BY <2>1, <2>2, <2>3, <2>4 DEF NextLowering
<1> QED  BY <1>1, LoweringInvariance, PTL DEF SpecLowering, FieldsAreKept

\* ... and its structures are as few as any partitioning of its fields has.
THEOREM LoweringMinimalPartitioning == SpecLowering => []MinimalPartitioning
<1>1. InitLowering => MInv
  <2> SUFFICES ASSUME InitLowering PROVE MInv
    OBVIOUS
  <2>1. rooms = {} /\ Scheduled = {}
    BY DEF InitLowering, Scheduled, Structures
  <2> QED  BY <2>1, LoweringInit, FS_EmptySet DEF MInv, MinimalPartitioning, LInv, ScheduleOK
<1>2. LInv /\ LInv' /\ MInv /\ [NextLowering]_<<vars, loweringVars>> => MInv'
  <2> SUFFICES ASSUME LInv, LInv', MInv, [NextLowering]_<<vars, loweringVars>> PROVE MInv'
    OBVIOUS
  <2>1. IInv'
    BY DEF LInv, ScheduleOK
  <2>2. CASE rooms' = rooms
    BY <2>1, <2>2 DEF MInv, MinimalPartitioning, Scheduled, Structures
  <2>3. CASE rooms' = {}
    <3>1. Scheduled' = {}
      BY <2>3 DEF Scheduled, Structures
    <3> QED  BY <2>1, <2>3, <3>1, FS_EmptySet DEF MInv, MinimalPartitioning
  <2>4. ASSUME NEW f \in todo, ScheduleField(f) PROVE MInv'
    BY <2>1, <2>4, VisitKeepsMinimal DEF ScheduleField
  <2>5. NextLowering => rooms' = rooms \/ rooms' = {} \/ \E f \in todo : ScheduleField(f)
    BY DEF NextLowering, StartSchedule, BuildType, ConvertMapping, vars
  <2>6. UNCHANGED <<vars, loweringVars>> => rooms' = rooms
    BY DEF vars
  <2> QED  BY <2>2, <2>3, <2>4, <2>5, <2>6
<1>3. MInv => MinimalPartitioning
  BY DEF MInv
<1> QED  BY <1>1, <1>2, <1>3, LoweringInvariance, PTL DEF SpecLowering

-----------------------------------------------------------------------------
\* The mapping is written once all nodes have types, from the types by id.
WireOK ==
  wire # <<>> =>
    /\ DOMAIN types = grph.nodes
    /\ wire = [id \in DOMAIN ctx.ephemeral |-> InnerType(ctx.ephemeral[id])]

LEMMA WireNext == WireOK /\ [NextLowering]_<<vars, loweringVars>> => WireOK'
<1> SUFFICES ASSUME WireOK, [NextLowering]_<<vars, loweringVars>> PROVE WireOK'
  OBVIOUS
<1>1. ASSUME NEW n \in grph.nodes, StartSchedule(n) PROVE WireOK'
  BY <1>1 DEF StartSchedule, WireOK, InnerType
<1>2. ASSUME NEW f \in todo, ScheduleField(f) PROVE WireOK'
  BY <1>2 DEF ScheduleField, loweringVars, WireOK, InnerType
<1>3. ASSUME NEW n \in grph.nodes, BuildType(n) PROVE WireOK'
  <2>1. wire = <<>> /\ wire' = wire
    BY <1>3 DEF BuildType, WireOK
  <2> QED  BY <2>1 DEF WireOK
<1>4. CASE ConvertMapping
  BY <1>4 DEF ConvertMapping, WireOK, InnerType
<1>5. CASE UNCHANGED <<vars, loweringVars>>
  BY <1>5 DEF loweringVars, WireOK, InnerType
<1> QED  BY <1>1, <1>2, <1>3, <1>4, <1>5 DEF NextLowering

Written == LInv /\ WireOK /\ wire # <<>>

LEMMA WireOfAlias ==
  ASSUME Written, NEW id, NEW m \in grph.nodes, AliasFor(ctx, id, m)
  PROVE  /\ wire[id].kind = "alias" /\ wire[id].to = types[m]
         /\ id \in Nat \ {0}
<1>1. id \in DOMAIN ctx.ephemeral /\ ctx.ephemeral[id] = Alias(m)
  BY DEF AliasFor
<1>2. Alias(m).kind = "alias" /\ Alias(m).node = m
  BY DEF Alias
<1>3. wire[id] = [kind |-> "alias", to |-> types[m]]
  BY <1>1, <1>2 DEF Written, WireOK, InnerType
<1>4. id \in Nat \ {0}
  BY <1>1 DEF Written, LInv, TypesOK, IsContext
<1> QED  BY <1>3, <1>4

LEMMA WireOfOthers ==
  ASSUME Written, NEW id \in DOMAIN ctx.ephemeral, ctx.ephemeral[id].kind # "alias"
  PROVE  wire[id] = ctx.ephemeral[id] /\ id \in Nat \ {0}
<1>1. wire[id] = ctx.ephemeral[id]
  BY DEF Written, WireOK, InnerType
<1>2. id \in Nat \ {0}
  BY DEF Written, LInv, TypesOK, IsContext
<1> QED  BY <1>1, <1>2

LEMMA LeadsToTypes ==
  ASSUME Written, NEW id, NEW N \in SUBSET grph.nodes, LeadsToNodes(ctx, id, N)
  PROVE  /\ LeadsTo(id) = {types[m] : m \in N}
         /\ wire[id].kind \in {"alias", "union"} /\ id \in Nat \ {0}
<1>1. ASSUME NEW m \in N, N = {m}, AliasFor(ctx, id, m)
      PROVE  /\ LeadsTo(id) = {types[k] : k \in N}
             /\ wire[id].kind = "alias" /\ id \in Nat \ {0}
  <2>1. wire[id].kind = "alias" /\ wire[id].to = types[m] /\ id \in Nat \ {0}
    BY <1>1, WireOfAlias
  <2> QED  BY <1>1, <2>1 DEF LeadsTo
<1>2. ASSUME NEW I, ctx.ephemeral[id] = Union(I), id \in DOMAIN ctx.ephemeral,
             \A i \in I : \E m \in N : AliasFor(ctx, i, m),
             \A m \in N : \E i \in I : AliasFor(ctx, i, m)
      PROVE  /\ LeadsTo(id) = {types[m] : m \in N}
             /\ wire[id].kind = "union" /\ id \in Nat \ {0}
  <2>1. Union(I).kind = "union" /\ Union(I).members = I
    BY DEF Union
  <2>2. wire[id].kind = "union" /\ wire[id].members = I /\ id \in Nat \ {0}
    BY <1>2, <2>1, WireOfOthers
  <2>3. LeadsTo(id) = {IF wire[i].kind = "alias" THEN wire[i].to ELSE i : i \in I}
    BY <2>2 DEF LeadsTo
  <2>4. \A i \in I : wire[i].kind = "alias" /\ \E m \in N : wire[i].to = types[m]
    BY <1>2, WireOfAlias
  <2>5. \A m \in N : \E i \in I : wire[i].kind = "alias" /\ wire[i].to = types[m]
    BY <1>2, WireOfAlias
  <2> QED  BY <2>2, <2>3, <2>4, <2>5
<1> QED  BY <1>1, <1>2 DEF LeadsToNodes

\* An alias leads to the type of the node it stands for.
LEMMA AliasLeadsToType ==
  ASSUME Written, NEW id, NEW m \in grph.nodes, AliasFor(ctx, id, m)
  PROVE  LeadsTo(id) = {types[m]}
<1>1. LeadsToNodes(ctx, id, {m})
  BY DEF LeadsToNodes, AliasFor
<1> QED  BY <1>1, LeadsToTypes

LEMMA PaddingLeadsToItself ==
  ASSUME Written, NEW name \in DOMAIN ctx.primitives
  PROVE  LeadsTo(ctx.primitives[name]) = {ctx.primitives[name]}
<1> DEFINE id == ctx.primitives[name]
<1>1. id \in DOMAIN ctx.ephemeral /\ ctx.ephemeral[id] = [kind |-> "primitive", name |-> name]
  BY DEF Written, LInv, TypesOK, IsContext
<1> HIDE DEF id
<1>2. wire[id].kind = "primitive"
  BY <1>1, WireOfOthers
<1>3. LeadsTo(id) = {id}
  BY <1>2 DEF LeadsTo
<1> QED  BY <1>3 DEF id

LEMMA SaysOfParts ==
  ASSUME Written, NEW n \in grph.nodes, HasParts(ctx, types[n])
  PROVE  Says(n) = UNION {TypeSays(InnerType(ty)) : ty \in Parts(ctx, types[n])}
<1> DEFINE id == types[n]
           written == IF wire[id].kind = "union" THEN {wire[i] : i \in wire[id].members} ELSE {wire[id]}
<1>1. \A i \in DOMAIN ctx.ephemeral :
        wire[i] = InnerType(ctx.ephemeral[i]) /\ wire[i].kind = ctx.ephemeral[i].kind
  <2>1. \A i \in DOMAIN ctx.ephemeral : wire[i] = InnerType(ctx.ephemeral[i])
    BY DEF Written, WireOK
  <2>2. \A ty : InnerType(ty).kind = ty.kind
    BY DEF InnerType
  <2> QED  BY <2>1, <2>2
<1>2. written = {InnerType(ty) : ty \in Parts(ctx, id)}
  <2>1. CASE ctx.ephemeral[id].kind = "union"
    <3>1. wire[id] = ctx.ephemeral[id]
      BY <2>1, WireOfOthers DEF HasParts
    <3> QED  BY <1>1, <2>1, <3>1 DEF HasParts, Parts
  <2>2. CASE ctx.ephemeral[id].kind # "union"
    BY <1>1, <2>2 DEF HasParts, Parts
  <2> QED  BY <2>1, <2>2
<1>3. Says(n) = UNION {TypeSays(part) : part \in written}
  BY DEF Says
<1> HIDE DEF written
<1> QED  BY <1>2, <1>3

-----------------------------------------------------------------------------
(* One part of a type says no more than the edges of the node.              *)
LEMMA EdgeIsMeant ==
  ASSUME NEW n, NEW e \in grph.edges, e[1] = n
  PROVE  EdgeMeans(e) \subseteq NodeMeans(n)
  BY DEF NodeMeans

LEMMA StructureSaysRightly ==
  ASSUME Written, NEW n \in grph.nodes, NEW ty, StructureMeans(ctx, n, ty)
  PROVE  TypeSays(InnerType(ty)) \subseteq NodeMeans(n)
<1>1. ty.kind = "structure"
  BY DEF StructureMeans
<1>2. TypeSays(InnerType(ty)) = AtFields("has", ty)
  BY <1>1 DEF TypeSays, InnerType
<1>3. ASSUME NEW f \in Range(ty.fields), NEW t \in LeadsTo(f.type_index)
      PROVE  <<"has", f.byte_offset, t>> \in NodeMeans(n)
  <2>1. PICK g \in TranslatedFields(grph.edges, n) : FieldMeans(ctx, f, g)
    BY DEF StructureMeans
  <2>2. PICK e \in grph.edges :
          /\ e[1] = n /\ e[2].kind = "field" /\ e[2].offset >= 0
          /\ g.byte_offset = e[2].offset /\ g.node = e[3]
    BY DEF TranslatedFields
  <2>3. t = types[e[3]]
    BY <2>1, <2>2, AliasLeadsToType, GraphFacts DEF FieldMeans, Written, LInv
  <2>4. e[2].offset \in Int
    BY <2>2, GraphFacts DEF Written, LInv
  <2>5. <<"has", e[2].offset, types[e[3]]>> \in EdgeMeans(e)
    BY <2>2, <2>4 DEF EdgeMeans
  <2> QED  BY <2>1, <2>2, <2>3, <2>5, EdgeIsMeant DEF FieldMeans
<1> QED  BY <1>2, <1>3 DEF AtFields

LEMMA AliasSaysRightly ==
  ASSUME Written, NEW n \in grph.nodes, NEW ty \in BuildAliasTypes(n)
  PROVE  TypeSays(InnerType(ty)) \subseteq NodeMeans(n)
<1>1. PICK e \in grph.edges :
        e[1] = n /\ e[2].kind = "field" /\ e[2].offset = 0 /\ ty = Alias(e[3])
  BY DEF BuildAliasTypes, HasNonZeroFields, Targets, EdgesOfKind
<1>2. e[3] \in DOMAIN types
  BY GraphFacts DEF Written, WireOK, LInv
<1>3. ty.kind = "alias" /\ ty.node = e[3]
  BY <1>1 DEF Alias
<1>4. InnerType(ty) = [kind |-> "alias", to |-> types[e[3]]]
  BY <1>2, <1>3 DEF InnerType
<1>5. TypeSays(InnerType(ty)) = {<<"has", 0, types[e[3]]>>}
  BY <1>4 DEF TypeSays
<1>6. <<"has", 0, types[e[3]]>> \in EdgeMeans(e)
  BY <1>1 DEF EdgeMeans
<1> QED  BY <1>1, <1>5, <1>6, EdgeIsMeant

LEMMA PointerSaysRightly ==
  ASSUME Written, NEW n \in grph.nodes, NEW ty, NEW m \in Contents(n), PointsTo(ctx, ty, m)
  PROVE  /\ TypeSays(InnerType(ty)) = {<<"points to", 0, types[m]>>}
         /\ <<"points to", 0, types[m]>> \in NodeMeans(n)
<1>1. PICK e \in grph.edges : e[1] = n /\ e[2].kind \in {"load", "store"} /\ e[3] = m
  BY DEF Contents, Targets, EdgesOfKind
<1>2. m \in grph.nodes
  BY <1>1, GraphFacts DEF Written, LInv
<1>3. ty.kind = "pointer" /\ LeadsTo(ty.target) = {types[m]}
  BY <1>2, AliasLeadsToType DEF PointsTo
<1>4. TypeSays(InnerType(ty)) = {<<"points to", 0, types[m]>>}
  BY <1>3 DEF TypeSays, InnerType
<1>5. <<"points to", 0, types[m]>> \in EdgeMeans(e)
  BY <1>1 DEF EdgeMeans
<1> QED  BY <1>1, <1>4, <1>5, EdgeIsMeant

LEMMA TargetsAreNodes ==
  ASSUME Written, NEW n, NEW kind, NEW i
  PROVE  /\ TargetsAt(n, kind, i) \in SUBSET grph.nodes
         /\ \A m \in TargetsAt(n, kind, i) :
              \E e \in grph.edges : e[1] = n /\ e[2].kind = kind /\ e[2].index = i /\ e[3] = m
         /\ \A e \in grph.edges :
              e[1] = n /\ e[2].kind = kind /\ e[2].index = i => e[3] \in TargetsAt(n, kind, i)
<1>1. TargetsAt(n, kind, i) =
        {e[3] : e \in {x \in grph.edges : x[1] = n /\ x[2].kind = kind /\ x[2].index = i}}
  BY DEF TargetsAt, Targets, EdgesOfKind
<1>2. \A e \in grph.edges : e[3] \in grph.nodes
  BY GraphFacts DEF Written, LInv
<1> QED  BY <1>1, <1>2

\* What the types of parameters lead to is what the edges of their index say.
LEMMA ParamsSayRightly ==
  ASSUME Written, NEW n \in grph.nodes, NEW params, ParamsMean(ctx, n, "in", params)
  PROVE  /\ \A p \in params : \A t \in LeadsTo(p.type_index) :
              <<"takes", p.index, t>> \in NodeMeans(n)
         /\ \A e \in grph.edges : e[1] = n /\ e[2].kind = "in" =>
              \E p \in params : p.index = e[2].index /\ types[e[3]] \in LeadsTo(p.type_index)
<1>1. \A p \in params : LeadsTo(p.type_index) = {types[m] : m \in TargetsAt(n, "in", p.index)}
  BY TargetsAreNodes, LeadsToTypes DEF ParamsMean
<1>2. ASSUME NEW p \in params, NEW t \in LeadsTo(p.type_index)
      PROVE  <<"takes", p.index, t>> \in NodeMeans(n)
  <2>1. PICK m \in TargetsAt(n, "in", p.index) : t = types[m]
    BY <1>1
  <2>2. PICK e \in grph.edges : e[1] = n /\ e[2].kind = "in" /\ e[2].index = p.index /\ e[3] = m
    BY <2>1, TargetsAreNodes
  <2>3. <<"takes", e[2].index, types[e[3]]>> \in EdgeMeans(e)
    BY <2>2 DEF EdgeMeans
  <2> QED  BY <2>1, <2>2, <2>3, EdgeIsMeant
<1>3. ASSUME NEW e \in grph.edges, e[1] = n, e[2].kind = "in"
      PROVE  \E p \in params : p.index = e[2].index /\ types[e[3]] \in LeadsTo(p.type_index)
  <2>1. e[2].index \in Indices(n, "in")
    BY <1>3 DEF Indices, EdgesOfKind
  <2>2. PICK p \in params : p.index = e[2].index
    BY <2>1 DEF ParamsMean
  <2> QED  BY <1>1, <1>3, <2>2, TargetsAreNodes
<1> QED  BY <1>2, <1>3

LEMMA ListedReturns ==
  ASSUME Written, NEW n, ReturnsAreListed(n), Cardinality(Returns(n)) > 1 \/ Len(SizesAt(n)) > 1
  PROVE  Len(SizesAt(n)) > 1 /\ Returns(n) \subseteq 0 .. Len(SizesAt(n)) - 1
<1>1. Len(SizesAt(n)) \in Nat
  BY GraphFacts DEF Written, LInv, IsSequence
<1>2. IsFiniteSet(Returns(n)) /\ Cardinality(Returns(n)) \in Nat
  <2>1. EdgesOfKind(n, {"out"}) \in SUBSET grph.edges
    BY DEF EdgesOfKind
  <2>2. IsFiniteSet(Returns(n))
    BY <2>1, TargetsFinite, GraphFacts DEF Returns, Written, LInv
  <2> QED  BY <2>2, FS_CardinalityType
<1>3. Returns(n) \subseteq 0 .. Len(SizesAt(n)) - 1
  BY <1>1, <1>2 DEF ReturnsAreListed
<1>4. ASSUME ~(Len(SizesAt(n)) > 1)
      PROVE  FALSE
  <2>1. Returns(n) \in SUBSET {0}
    BY <1>1, <1>3, <1>4
  <2>2. IsFiniteSet({0}) /\ Cardinality({0}) = 1
    BY FS_Singleton
  <2>3. Cardinality(Returns(n)) <= 1
    BY <2>1, <2>2, FS_Subset
  <2> QED  BY <1>2, <1>4, <2>3
<1> QED  BY <1>3, <1>4

\* The padding, and the return values at their places among those listed.
LEMMA ReturnFieldSays ==
  ASSUME Written, NEW n \in grph.nodes, Len(SizesAt(n)) > 1,
         NEW i \in 0 .. Len(SizesAt(n)) - 1, NEW f, ReturnFieldMeans(ctx, n, i, f)
  PROVE  /\ \A t \in LeadsTo(f.type_index) :
              <<"returns", f.byte_offset, t>> \in NodeMeans(n) \cup Pads(n)
         /\ f.byte_offset = ReturnOffset(n, i)
         /\ i \in Returns(n) => LeadsTo(f.type_index) = {types[m] : m \in TargetsAt(n, "out", i)}
<1>1. Len(SizesAt(n)) \in Nat
  BY GraphFacts DEF Written, LInv, IsSequence
<1>2. f.byte_offset = ReturnOffset(n, i) /\ f.byte_offset = OffsetOf(SizesAt(n), i)
  BY <1>1 DEF ReturnFieldMeans, ReturnOffset
<1>3. CASE i \in Returns(n)
  <2>1. LeadsTo(f.type_index) = {types[m] : m \in TargetsAt(n, "out", i)}
    BY <1>3, TargetsAreNodes, LeadsToTypes DEF ReturnFieldMeans, ReturnValueMeans
  <2>2. ASSUME NEW t \in LeadsTo(f.type_index)
        PROVE  <<"returns", f.byte_offset, t>> \in NodeMeans(n)
    <3>1. PICK m \in TargetsAt(n, "out", i) : t = types[m]
      BY <2>1, <2>2
    <3>2. PICK e \in grph.edges : e[1] = n /\ e[2].kind = "out" /\ e[2].index = i /\ e[3] = m
      BY <3>1, TargetsAreNodes
    <3>3. <<"returns", ReturnOffset(n, i), types[m]>> \in EdgeMeans(e)
      BY <3>2 DEF EdgeMeans
    <3> QED  BY <1>2, <3>1, <3>2, <3>3, EdgeIsMeant
  <2> QED  BY <1>2, <2>1, <2>2
<1>4. CASE i \notin Returns(n)
  <2>1. DefaultName \in DOMAIN ctx.primitives /\ f.type_index = ctx.primitives[DefaultName]
    BY <1>4 DEF ReturnFieldMeans, ReturnValueMeans
  <2>2. LeadsTo(f.type_index) = {ctx.primitives[DefaultName]}
    BY <2>1, PaddingLeadsToItself
  <2>3. <<"returns", OffsetOf(SizesAt(n), i), ctx.primitives[DefaultName]>> \in Pads(n)
    BY <1>4 DEF Pads
  <2> QED  BY <1>2, <1>4, <2>2, <2>3
<1> QED  BY <1>3, <1>4

LEMMA ReturnSaysRightly ==
  ASSUME Written, NEW n \in grph.nodes, ReturnsAreListed(n), NEW id, ReturnMeans(ctx, n, id)
  PROVE  /\ ReturnSays(id) \subseteq NodeMeans(n) \cup Pads(n)
         /\ \A e \in grph.edges : e[1] = n /\ e[2].kind = "out" =>
              <<"returns", ReturnOffset(n, e[2].index), types[e[3]]>> \in ReturnSays(id)
<1>1. Len(SizesAt(n)) \in Nat
  BY GraphFacts DEF Written, LInv, IsSequence
<1>2. \A e \in grph.edges : e[1] = n /\ e[2].kind = "out" => e[2].index \in Returns(n)
  BY DEF Returns, EdgesOfKind
<1>3. CASE Cardinality(Returns(n)) > 1 \/ Len(SizesAt(n)) > 1
  <2>1. Len(SizesAt(n)) > 1 /\ Returns(n) \subseteq 0 .. Len(SizesAt(n)) - 1
    BY <1>3, ListedReturns
  <2> DEFINE F == Range(ctx.ephemeral[id].fields)
  <2>2. /\ id \in DOMAIN ctx.ephemeral /\ ctx.ephemeral[id].kind = "structure"
        /\ \A f \in F : \E i \in 0 .. Len(SizesAt(n)) - 1 : ReturnFieldMeans(ctx, n, i, f)
        /\ \A i \in 0 .. Len(SizesAt(n)) - 1 : \E f \in F : ReturnFieldMeans(ctx, n, i, f)
    BY <1>3 DEF ReturnMeans
  <2>3. wire[id] = ctx.ephemeral[id] /\ id # None
    BY <2>2, WireOfOthers DEF None
  <2>4. ReturnSays(id) = UNION {{<<"returns", f.byte_offset, t>> : t \in LeadsTo(f.type_index)} : f \in F}
    BY <2>2, <2>3 DEF ReturnSays, AtFields
  <2> HIDE DEF F
  <2>5. ASSUME NEW f \in F, NEW t \in LeadsTo(f.type_index)
        PROVE  <<"returns", f.byte_offset, t>> \in NodeMeans(n) \cup Pads(n)
    BY <2>1, <2>2, ReturnFieldSays
  <2>6. ASSUME NEW e \in grph.edges, e[1] = n, e[2].kind = "out"
        PROVE  <<"returns", ReturnOffset(n, e[2].index), types[e[3]]>> \in ReturnSays(id)
    <3>1. e[2].index \in Returns(n) /\ e[2].index \in 0 .. Len(SizesAt(n)) - 1
      BY <1>2, <2>1, <2>6
    <3>2. PICK f \in F : ReturnFieldMeans(ctx, n, e[2].index, f)
      BY <2>2, <3>1
    <3>3. /\ f.byte_offset = ReturnOffset(n, e[2].index)
          /\ LeadsTo(f.type_index) = {types[m] : m \in TargetsAt(n, "out", e[2].index)}
      BY <2>1, <3>1, <3>2, ReturnFieldSays
    <3>4. types[e[3]] \in LeadsTo(f.type_index)
      BY <2>6, <3>3, TargetsAreNodes
    <3> QED  BY <2>4, <3>3, <3>4
  <2> QED  BY <2>4, <2>5, <2>6
<1>4. CASE ~(Cardinality(Returns(n)) > 1 \/ Len(SizesAt(n)) > 1)
  <2>1. CASE Returns(n) = {} /\ id = None
    BY <1>2, <2>1 DEF ReturnSays
  <2>2. ASSUME NEW i \in Returns(n), Returns(n) = {i}, LeadsToNodes(ctx, id, TargetsAt(n, "out", i))
        PROVE  /\ ReturnSays(id) \subseteq NodeMeans(n)
               /\ \A e \in grph.edges : e[1] = n /\ e[2].kind = "out" =>
                    <<"returns", ReturnOffset(n, e[2].index), types[e[3]]>> \in ReturnSays(id)
    <3>1. /\ LeadsTo(id) = {types[m] : m \in TargetsAt(n, "out", i)}
          /\ wire[id].kind # "structure" /\ id # None
      BY <2>2, TargetsAreNodes, LeadsToTypes DEF None
    <3>2. ReturnSays(id) = {<<"returns", 0, t>> : t \in LeadsTo(id)}
      BY <3>1 DEF ReturnSays
    <3>3. ReturnOffset(n, i) = 0
      BY <1>1, <1>4 DEF ReturnOffset
    <3>4. ASSUME NEW m \in TargetsAt(n, "out", i)
          PROVE  <<"returns", 0, types[m]>> \in NodeMeans(n)
      <4>1. PICK e \in grph.edges : e[1] = n /\ e[2].kind = "out" /\ e[2].index = i /\ e[3] = m
        BY TargetsAreNodes
      <4>2. <<"returns", ReturnOffset(n, i), types[m]>> \in EdgeMeans(e)
        BY <4>1 DEF EdgeMeans
      <4> QED  BY <3>3, <4>1, <4>2, EdgeIsMeant
    <3>5. ASSUME NEW e \in grph.edges, e[1] = n, e[2].kind = "out"
          PROVE  <<"returns", ReturnOffset(n, e[2].index), types[e[3]]>> \in ReturnSays(id)
      <4>1. e[2].index = i
        BY <1>2, <2>2, <3>5
      <4>2. e[3] \in TargetsAt(n, "out", i)
        BY <3>5, <4>1, TargetsAreNodes
      <4> QED  BY <3>1, <3>2, <3>3, <4>1, <4>2
    <3> QED  BY <3>1, <3>2, <3>4, <3>5
  <2> QED  BY <1>4, <2>1, <2>2 DEF ReturnMeans
<1> QED  BY <1>3, <1>4

LEMMA FunctionSaysRightly ==
  ASSUME Written, NEW n \in grph.nodes, ReturnsAreListed(n), NEW ty, FunctionMeans(ctx, n, ty)
  PROVE  /\ TypeSays(InnerType(ty)) \subseteq NodeMeans(n) \cup Pads(n)
         /\ \A e \in grph.edges : e[1] = n /\ e[2].kind \in {"in", "out"} =>
              EdgeMeans(e) \subseteq TypeSays(InnerType(ty))
<1> DEFINE taken == UNION {{<<"takes", p.index, t>> : t \in LeadsTo(p.type_index)} : p \in ty.params}
<1>1. TypeSays(InnerType(ty)) = taken \cup ReturnSays(ty.return_ty)
  BY DEF TypeSays, InnerType, FunctionMeans
<1>2. ReturnSays(ty.return_ty) \subseteq NodeMeans(n) \cup Pads(n)
  BY ReturnSaysRightly DEF FunctionMeans
<1>3. taken \subseteq NodeMeans(n)
  BY ParamsSayRightly DEF FunctionMeans
<1>4. ASSUME NEW e \in grph.edges, e[1] = n, e[2].kind = "in"
      PROVE  EdgeMeans(e) \subseteq taken
  <2>1. PICK p \in ty.params : p.index = e[2].index /\ types[e[3]] \in LeadsTo(p.type_index)
    BY <1>4, ParamsSayRightly DEF FunctionMeans
  <2>2. EdgeMeans(e) = {<<"takes", e[2].index, types[e[3]]>>}
    BY <1>4 DEF EdgeMeans
  <2> QED  BY <2>1, <2>2
<1>5. ASSUME NEW e \in grph.edges, e[1] = n, e[2].kind = "out"
      PROVE  EdgeMeans(e) \subseteq ReturnSays(ty.return_ty)
  <2>1. EdgeMeans(e) = {<<"returns", ReturnOffset(n, e[2].index), types[e[3]]>>}
    BY <1>5 DEF EdgeMeans
  <2> QED  BY <1>5, <2>1, ReturnSaysRightly DEF FunctionMeans
<1> HIDE DEF taken
<1> QED  BY <1>1, <1>2, <1>3, <1>4, <1>5

LEMMA PartSaysRightly ==
  ASSUME Written, NEW n \in grph.nodes, ReturnsAreListed(n), NEW ty, PartMeans(ctx, n, ty)
  PROVE  TypeSays(InnerType(ty)) \subseteq NodeMeans(n) \cup Pads(n)
<1>1. CASE StructureMeans(ctx, n, ty)
  BY <1>1, StructureSaysRightly
<1>2. CASE ty \in BuildAliasTypes(n)
  BY <1>2, AliasSaysRightly
<1>3. CASE \E m \in Contents(n) : PointsTo(ctx, ty, m)
  BY <1>3, PointerSaysRightly
<1>4. CASE FunctionMeans(ctx, n, ty)
  BY <1>4, FunctionSaysRightly
<1> QED  BY <1>1, <1>2, <1>3, <1>4 DEF PartMeans

-----------------------------------------------------------------------------
(* Every edge of the node is said by one of the parts.                      *)
LEMMA EdgeIsSaid ==
  ASSUME Written, NEW n \in grph.nodes, ReturnsAreListed(n), NEW tys, AllIsSaid(ctx, n, tys),
         NEW e \in grph.edges, e[1] = n
  PROVE  EdgeMeans(e) \subseteq UNION {TypeSays(InnerType(ty)) : ty \in tys}
<1>1. e[3] \in grph.nodes /\ e[3] \in DOMAIN types
  BY GraphFacts DEF Written, WireOK, LInv
<1>2. CASE e[2].kind = "field" /\ HasNonZeroFields(n)
  <2>1. e[2].offset \in Int
    BY <1>2, GraphFacts DEF Written, LInv
  <2>2. CASE e[2].offset >= 0
    <3> DEFINE g == [byte_offset |-> e[2].offset, bit_sz |-> e[2].size, node |-> e[3]]
    <3>1. g \in TranslatedFields(grph.edges, n) /\ g.byte_offset = e[2].offset /\ g.node = e[3]
      BY <1>2, <2>2 DEF TranslatedFields
    <3> HIDE DEF g
    <3>2. PICK ty \in tys : HasField(ctx, ty, g)
      BY <1>2, <3>1 DEF AllIsSaid
    <3>3. PICK f \in Range(ty.fields) : FieldMeans(ctx, f, g)
      BY <3>2 DEF HasField
    <3>4. f.byte_offset = e[2].offset /\ LeadsTo(f.type_index) = {types[e[3]]}
      BY <1>1, <3>1, <3>3, AliasLeadsToType DEF FieldMeans
    <3>5. TypeSays(InnerType(ty)) = AtFields("has", ty)
      BY <3>2 DEF HasField, TypeSays, InnerType
    <3>6. <<"has", e[2].offset, types[e[3]]>> \in AtFields("has", ty)
      BY <3>3, <3>4 DEF AtFields
    <3>7. EdgeMeans(e) = {<<"has", e[2].offset, types[e[3]]>>}
      BY <1>2, <2>1, <2>2 DEF EdgeMeans
    <3> QED  BY <3>5, <3>6, <3>7
  <2>3. CASE ~(e[2].offset >= 0)
    <3>1. EdgeMeans(e) = {}
      BY <1>2, <2>1, <2>3 DEF EdgeMeans
    <3> QED  BY <3>1
  <2> QED  BY <2>2, <2>3
<1>3. CASE e[2].kind = "field" /\ ~HasNonZeroFields(n)
  <2>1. e[2].offset = 0 /\ Alias(e[3]) \in BuildAliasTypes(n)
    BY <1>3 DEF HasNonZeroFields, BuildAliasTypes, EdgesOfKind, Targets
  <2>2. InnerType(Alias(e[3])) = [kind |-> "alias", to |-> types[e[3]]]
    BY <1>1 DEF InnerType, Alias
  <2>3. TypeSays(InnerType(Alias(e[3]))) = {<<"has", 0, types[e[3]]>>}
    BY <2>2 DEF TypeSays
  <2>4. EdgeMeans(e) = {<<"has", 0, types[e[3]]>>}
    BY <1>3, <2>1 DEF EdgeMeans
  <2>5. Alias(e[3]) \in tys
    BY <2>1 DEF AllIsSaid
  <2> QED  BY <2>3, <2>4, <2>5
<1>4. CASE e[2].kind \in {"load", "store"}
  <2>1. e[3] \in Contents(n)
    BY <1>4 DEF Contents, Targets, EdgesOfKind
  <2>2. PICK ty \in tys : PointsTo(ctx, ty, e[3])
    BY <2>1 DEF AllIsSaid
  <2>3. TypeSays(InnerType(ty)) = {<<"points to", 0, types[e[3]]>>}
    BY <2>1, <2>2, PointerSaysRightly
  <2>4. EdgeMeans(e) = {<<"points to", 0, types[e[3]]>>}
    BY <1>4 DEF EdgeMeans
  <2> QED  BY <2>2, <2>3, <2>4
<1>5. CASE e[2].kind \in {"in", "out"}
  <2>1. EdgesOfKind(n, {"in", "out"}) # {}
    BY <1>5 DEF EdgesOfKind
  <2>2. PICK ty \in tys : FunctionMeans(ctx, n, ty)
    BY <2>1 DEF AllIsSaid
  <2>3. EdgeMeans(e) \subseteq TypeSays(InnerType(ty))
    BY <1>5, <2>2, FunctionSaysRightly
  <2> QED  BY <2>2, <2>3
<1>6. CASE e[2].kind = "add"
  <2>1. EdgeMeans(e) = {}
    BY <1>6 DEF EdgeMeans
  <2> QED  BY <2>1
<1>7. e[2].kind \in {"field", "load", "store", "in", "out", "add"}
  BY GraphFacts DEF Written, LInv
<1> QED  BY <1>2, <1>3, <1>4, <1>5, <1>6, <1>7

(* The mapping says of every node what the sketch says of it, but for fields *)
(* at negative offsets, and nothing else but the padding of return values,   *)
(* for every graph and in every order: types are local decisions.            *)
THEOREM LoweringSketchesAreLowered == SpecLowering => []SketchesAreLowered
<1>1. ASSUME Written, NEW n \in grph.nodes, ReturnsAreListed(n)
      PROVE  NodeMeans(n) \subseteq Says(n) /\ Says(n) \ NodeMeans(n) \subseteq Pads(n)
  <2> DEFINE E == {e \in grph.edges : e[1] = n}
  <2>1. TypeMeans(ctx, n, types[n])
    BY <1>1 DEF Written, WireOK, LInv, TypesOK
  <2>2. CASE E = {}
    <3> DEFINE ty == PrimitiveType(grph.upper[n])
    <3>1. types[n] \in DOMAIN ctx.ephemeral /\ ctx.ephemeral[types[n]] = ty
      BY <2>1, <2>2 DEF TypeMeans
    <3>2. ty.kind = "primitive" /\ ty.name = grph.upper[n]
      BY DEF PrimitiveType
    <3> HIDE DEF ty
    <3>3. wire[types[n]] = ty
      BY <1>1, <3>1, <3>2, WireOfOthers
    <3>4. Says(n) = TypeSays(ty)
      BY <3>2, <3>3 DEF Says
    <3>5. TypeSays(ty) = {<<"is", 0, grph.upper[n]>>}
      BY <3>2 DEF TypeSays
    <3>6. NodeMeans(n) = {<<"is", 0, grph.upper[n]>>}
      BY <2>2 DEF NodeMeans
    <3> QED  BY <3>4, <3>5, <3>6
  <2>3. CASE E # {}
    <3> DEFINE tys == Parts(ctx, types[n])
    <3>1. HasParts(ctx, types[n]) /\ (\A ty \in tys : PartMeans(ctx, n, ty)) /\ AllIsSaid(ctx, n, tys)
      BY <2>1, <2>3 DEF TypeMeans
    <3>2. Says(n) = UNION {TypeSays(InnerType(ty)) : ty \in tys}
      BY <1>1, <3>1, SaysOfParts
    <3>3. NodeMeans(n) = UNION {EdgeMeans(e) : e \in E}
      BY <2>3 DEF NodeMeans
    <3> HIDE DEF tys
    <3>4. \A e \in E : EdgeMeans(e) \subseteq Says(n)
      BY <1>1, <3>1, <3>2, EdgeIsSaid
    <3>5. \A ty \in tys : TypeSays(InnerType(ty)) \subseteq NodeMeans(n) \cup Pads(n)
      BY <1>1, <3>1, PartSaysRightly
    <3>6. NodeMeans(n) \subseteq Says(n)
      <4> HIDE DEF E
      <4> QED  BY <3>3, <3>4
    <3>7. Says(n) \subseteq NodeMeans(n) \cup Pads(n)
      BY <3>2, <3>5
    <3> QED  BY <3>6, <3>7
  <2> QED  BY <2>2, <2>3
<1>2. LInv /\ WireOK => SketchesAreLowered
  BY <1>1 DEF SketchesAreLowered, Written
<1>3. InitLowering => WireOK
  BY DEF InitLowering, WireOK
<1>4. SpecLowering => []WireOK
  BY <1>3, WireNext, PTL DEF SpecLowering
<1> QED  BY <1>2, <1>4, LoweringInvariance, PTL

-----------------------------------------------------------------------------
(* Endless is the greatest set whose members all lead back into it.         *)
LEMMA RoundsAre ==
  ASSUME NEW next
  PROVE  /\ Rounds(next)[0] = DOMAIN next
         /\ \A n \in Nat : /\ Rounds(next)[n] \subseteq DOMAIN next
                           /\ Rounds(next)[n+1] = Onward(next, Rounds(next)[n])
<1> DEFINE A == DOMAIN next
           S == SUBSET A
           step == [X \in S |-> Onward(next, X)]
           Eq(f) == f = [n \in Nat |-> IF n = 0 THEN A ELSE Onward(next, f[n-1])]
<1>1. A \in S /\ step \in [S -> S] /\ \A X \in S : Onward(next, X) \in S
  BY DEF Onward
<1>2. PICK g \in [Nat -> S] : IsIteration(g, A, step)
  <2> HIDE DEF S, A, step
  <2> QED  BY <1>1, IterationExists
<1>3. \E f : Eq(f)
  <2>1. \A n \in Nat : n # 0 => n-1 \in Nat /\ (n-1)+1 = n
    OBVIOUS
  <2>2. \A n \in Nat : g[n] = IF n = 0 THEN A ELSE Onward(next, g[n-1])
    <3> HIDE DEF A, S
    <3> QED  BY <1>2, <2>1 DEF IsIteration
  <2> HIDE DEF A
  <2>3. g = [n \in Nat |-> g[n]]
    BY <1>2
  <2> QED  BY <2>2, <2>3
<1> DEFINE h == Rounds(next)
<1>4. h = CHOOSE f : Eq(f)
  BY DEF Rounds
<1>5. Eq(h)
  <2> HIDE DEF Eq, h
  <2> QED  BY <1>3, <1>4
<1>6. h[0] = A /\ \A n \in Nat : h[n+1] = Onward(next, h[n])
  <2> HIDE DEF A, h
  <2> QED  BY <1>5
<1> HIDE DEF h, step, Eq
<1> DEFINE T == {n \in Nat : h[n] \in S}
<1>7. \A n \in Nat : n \in T
  <2>1. 0 \in T
    BY <1>6
  <2>2. \A n \in Nat : n \in T => n + 1 \in T
    <3> HIDE DEF S
    <3> QED  BY <1>1, <1>6
  <2> HIDE DEF T
  <2> QED  BY <2>1, <2>2, NatSetInduction
<1> QED  BY <1>6, <1>7 DEF h

LEMMA EndlessIsGreatest ==
  ASSUME NEW next, IsFiniteSet(DOMAIN next)
  PROVE  /\ Endless(next) \subseteq DOMAIN next
         /\ \A x \in Endless(next) : next[x] \cap Endless(next) # {}
         /\ \A X \in SUBSET DOMAIN next :
              (\A x \in X : next[x] \cap X # {}) => X \subseteq Endless(next)
<1> DEFINE U == DOMAIN next
           f == Rounds(next)
           N == Cardinality(U)
           gone == [n \in Nat |-> U \ f[n]]
<1>1. /\ f[0] = U
      /\ \A n \in Nat : f[n] \subseteq U /\ f[n+1] = Onward(next, f[n])
  BY RoundsAre
<1>2. N \in Nat
  BY FS_CardinalityType
<1> HIDE DEF f
<1>3. \A n \in Nat : f[n+1] \subseteq f[n]
  BY <1>1 DEF Onward
<1>4. PICK k \in 0 .. N : f[k] = f[k+1]
  <2>1. \A n \in Nat : gone[n] \subseteq U /\ gone[n] \subseteq gone[n+1]
    BY <1>3
  <2>2. \E n \in 0 .. N : gone[n] = gone[n+1]
    <3> HIDE DEF gone, U
    <3> QED  BY <2>1, ChainSettles DEF U
  <2>3. PICK n \in 0 .. N : gone[n] = gone[n+1]
    BY <2>2
  <2>4. n \in Nat /\ n+1 \in Nat
    BY <1>2, <2>3
  <2>5. f[n] \subseteq U /\ f[n+1] \subseteq U
    BY <1>1, <2>4
  <2>6. f[n] = f[n+1]
    BY <2>3, <2>4, <2>5
  <2> QED  BY <2>6
<1> DEFINE T == {n \in Nat : n >= k => f[n] = f[k]}
<1>5. \A n \in Nat : n \in T
  <2>1. 0 \in T
    BY <1>2
  <2>2. \A n \in Nat : n \in T => n + 1 \in T
    <3> SUFFICES ASSUME NEW n \in Nat, n \in T, n + 1 >= k PROVE f[n+1] = f[k]
      OBVIOUS
    <3>1. CASE n >= k
      <4>1. f[n] = f[k]
        BY <3>1
      <4>2. k \in Nat
        BY <1>2
      <4> QED  BY <1>1, <1>4, <4>1, <4>2
    <3>2. CASE ~(n >= k)
      <4>1. n + 1 = k
        BY <1>2, <3>2
      <4> QED  BY <4>1
    <3> QED  BY <3>1, <3>2
  <2> HIDE DEF T
  <2> QED  BY <2>1, <2>2, NatSetInduction
<1>6. f[N] = f[k] /\ f[N] = Onward(next, f[N])
  <2>1. N >= k /\ N + 1 >= k /\ N + 1 \in Nat
    BY <1>2
  <2>2. f[N] = f[k] /\ f[N+1] = f[k]
    BY <1>2, <1>5, <2>1
  <2> QED  BY <1>1, <1>2, <2>2
<1>7. ASSUME NEW X \in SUBSET U, \A x \in X : next[x] \cap X # {}
      PROVE  X \subseteq f[N]
  <2> DEFINE R == {n \in Nat : X \subseteq f[n]}
  <2>1. 0 \in R
    BY <1>1
  <2>2. \A n \in Nat : n \in R => n + 1 \in R
    BY <1>1, <1>7 DEF Onward
  <2>3. \A n \in Nat : n \in R
    <3> HIDE DEF R
    <3> QED  BY <2>1, <2>2, NatSetInduction
  <2> QED  BY <1>2, <2>3
<1>8. Endless(next) = f[N]
  BY DEF Endless, f
<1>9. \A x \in f[N] : next[x] \cap f[N] # {}
  BY <1>6 DEF Onward
<1> QED  BY <1>1, <1>2, <1>7, <1>8, <1>9

-----------------------------------------------------------------------------
(* A set of types of which each contains another has an alias in it, as a   *)
(* type holds only older ones; the nodes whose types are in the set are     *)
(* then a set in which each has a field that leads to another.              *)
LEMMA ContainedIsHeld ==
  ASSUME Written, NEW id \in DOMAIN wire, NEW t \in ContainedTypes(id)
  PROVE  /\ id \in DOMAIN ctx.ephemeral
         /\ IF ctx.ephemeral[id].kind = "alias"
            THEN \/ t = None
                 \/ /\ ctx.ephemeral[id].node \in DOMAIN types
                    /\ t = types[ctx.ephemeral[id].node]
            ELSE t \in Holds(ctx.ephemeral[id])
<1>1. id \in DOMAIN ctx.ephemeral /\ wire[id] = InnerType(ctx.ephemeral[id])
  BY DEF Written, WireOK
<1>2. CASE ctx.ephemeral[id].kind = "alias"
  <2> DEFINE m == ctx.ephemeral[id].node
  <2>1. wire[id] = [kind |-> "alias", to |-> IF m \in DOMAIN types THEN types[m] ELSE None]
    BY <1>1, <1>2 DEF InnerType
  <2>2. t = IF m \in DOMAIN types THEN types[m] ELSE None
    <3> HIDE DEF m
    <3> QED  BY <2>1 DEF ContainedTypes
  <2> QED  BY <1>1, <1>2, <2>2
<1>3. CASE ctx.ephemeral[id].kind # "alias"
  <2>1. wire[id] = ctx.ephemeral[id]
    BY <1>1, <1>3 DEF InnerType
  <2>2. t \in Holds(ctx.ephemeral[id])
    BY <1>3, <2>1 DEF ContainedTypes, Holds
  <2> QED  BY <1>1, <1>3, <2>2
<1> QED  BY <1>2, <1>3

\* The part of a node's type that contains another type of T holds, by an
\* alias, a node that a field leads to.
LEMMA PartContainsTarget ==
  ASSUME Written, NEW T \in SUBSET DOMAIN wire, \A i \in T : ContainedTypes(i) \cap T # {},
         NEW n \in grph.nodes, NEW id \in T, PartMeans(ctx, n, ctx.ephemeral[id])
  PROVE  \E k \in FieldTargets(n) : k \in grph.nodes /\ types[k] \in T
<1> DEFINE ty == ctx.ephemeral[id]
<1>1. None \notin T
  <2>1. \A i \in DOMAIN wire : i \in Nat \ {0}
    BY DEF Written, WireOK, LInv, TypesOK, IsContext
  <2> QED  BY <2>1 DEF None
<1>2. ASSUME NEW i \in T, NEW k, ctx.ephemeral[i] = Alias(k)
      PROVE  k \in grph.nodes /\ types[k] \in T
  <2>1. PICK t \in T : t \in ContainedTypes(i)
    OBVIOUS
  <2>2. Alias(k).kind = "alias" /\ Alias(k).node = k
    BY DEF Alias
  <2>3. k \in DOMAIN types /\ t = types[k]
    BY <1>1, <1>2, <2>1, <2>2, ContainedIsHeld
  <2> QED  BY <2>1, <2>3 DEF Written, WireOK
<1>3. PICK t \in T : t \in ContainedTypes(id)
  OBVIOUS
<1>4. ty.kind # "alias" => t \in Holds(ty)
  BY <1>3, ContainedIsHeld
<1>5. CASE StructureMeans(ctx, n, ty)
  <2>1. t \in {f.type_index : f \in Range(ty.fields)}
    BY <1>4, <1>5 DEF StructureMeans, Holds
  <2>2. PICK f \in Range(ty.fields) : t = f.type_index
    BY <2>1
  <2>3. PICK g \in TranslatedFields(grph.edges, n) : FieldMeans(ctx, f, g)
    BY <1>5 DEF StructureMeans
  <2>4. g.node \in FieldTargets(n)
    BY DEF TranslatedFields, FieldTargets, Targets, EdgesOfKind
  <2>5. ctx.ephemeral[t] = Alias(g.node)
    BY <2>2, <2>3 DEF FieldMeans, AliasFor
  <2> QED  BY <1>2, <2>4, <2>5
<1>6. CASE ty \in BuildAliasTypes(n)
  <2>1. PICK k \in FieldTargets(n) : ty = Alias(k)
    BY <1>6 DEF BuildAliasTypes, FieldTargets
  <2> QED  BY <1>2, <2>1
<1>7. CASE ty.kind \in {"pointer", "function"}
  BY <1>4, <1>7 DEF Holds
<1> QED  BY <1>5, <1>6, <1>7 DEF PartMeans, FunctionMeans

LEMMA NodeContainsTarget ==
  ASSUME Written, NEW T \in SUBSET DOMAIN wire, \A i \in T : ContainedTypes(i) \cap T # {},
         NEW n \in grph.nodes, types[n] \in T
  PROVE  \E k \in FieldTargets(n) : k \in grph.nodes /\ types[k] \in T
<1> DEFINE id == types[n]
           ty == ctx.ephemeral[id]
<1>1. TypeMeans(ctx, n, id)
  BY DEF Written, WireOK, LInv, TypesOK
<1>2. PICK t \in T : t \in ContainedTypes(id)
  OBVIOUS
<1>3. id \in DOMAIN wire /\ (ty.kind # "alias" => t \in Holds(ty))
  BY <1>2, ContainedIsHeld
<1>4. CASE {e \in grph.edges : e[1] = n} = {}
  <2>1. ty.kind = "primitive"
    BY <1>1, <1>4 DEF TypeMeans, PrimitiveType
  <2> QED  BY <1>3, <2>1 DEF Holds
<1>5. CASE {e \in grph.edges : e[1] = n} # {}
  <2>1. \A part \in Parts(ctx, id) : PartMeans(ctx, n, part)
    BY <1>1, <1>5 DEF TypeMeans
  <2>2. CASE ty.kind = "union"
    <3>1. t \in ty.members
      BY <1>3, <2>2 DEF Holds
    <3>2. PartMeans(ctx, n, ctx.ephemeral[t])
      BY <2>1, <2>2, <3>1 DEF Parts
    <3> QED  BY <3>2, PartContainsTarget
  <2>3. CASE ty.kind # "union"
    <3>1. PartMeans(ctx, n, ty)
      BY <2>1, <2>3 DEF Parts
    <3> QED  BY <3>1, PartContainsTarget
  <2> QED  BY <2>2, <2>3
<1> QED  BY <1>4, <1>5

(* A recursive type is recursive through a pointer or a function: aliases,  *)
(* unions and structures contain themselves only if the fields of the       *)
(* sketches do, for all graphs, however many types are shared.              *)
THEOREM LoweringNoTypeContainsItself == SpecLowering => []NoTypeContainsItself
<1>1. ASSUME Written, Endless([n \in grph.nodes |-> FieldTargets(n)]) = {}
      PROVE  Endless([id \in DOMAIN wire |-> ContainedTypes(id)]) = {}
  <2> DEFINE W == DOMAIN wire
             contained == [id \in W |-> ContainedTypes(id)]
             targets == [n \in grph.nodes |-> FieldTargets(n)]
             T == Endless(contained)
             N == {n \in grph.nodes : types[n] \in T}
  <2>1. /\ W = DOMAIN ctx.ephemeral
        /\ W \subseteq Nat \ {0}
        /\ ctx.next \in Nat
        /\ \A id \in W : id < ctx.next
        /\ \A id \in W : \A i \in Holds(ctx.ephemeral[id]) : i < id
    BY <1>1 DEF Written, WireOK, LInv, TypesOK, IsContext
  <2>2. IsFiniteSet(W)
    <3>1. W \subseteq 0 .. ctx.next
      BY <2>1
    <3>2. IsFiniteSet(0 .. ctx.next)
      BY <2>1, FS_Interval
    <3> HIDE DEF W
    <3> QED  BY <3>1, <3>2, FS_Subset
  <2>3. DOMAIN contained = W /\ DOMAIN targets = grph.nodes
    OBVIOUS
  <2>4. IsFiniteSet(grph.nodes)
    BY <1>1, GraphFacts DEF Written, LInv
  <2>5. T \subseteq W /\ \A id \in T : ContainedTypes(id) \cap T # {}
    <3>1. T \subseteq DOMAIN contained /\ \A id \in T : contained[id] \cap T # {}
      <4> HIDE DEF contained
      <4> QED  BY <2>2, <2>3, EndlessIsGreatest
    <3> HIDE DEF T
    <3> QED  BY <2>3, <3>1
  <2> HIDE DEF T, W
  <2>6. N = {}
    <3>1. \A n \in N : targets[n] \cap N # {}
      <4> SUFFICES ASSUME NEW n \in N PROVE targets[n] \cap N # {}
        OBVIOUS
      <4>1. \E k \in FieldTargets(n) : k \in grph.nodes /\ types[k] \in T
        BY <1>1, <2>5, NodeContainsTarget DEF W
      <4> QED  BY <4>1
    <3>2. N \in SUBSET DOMAIN targets
      OBVIOUS
    <3> HIDE DEF N, targets
    <3>3. N \subseteq Endless(targets)
      BY <2>3, <2>4, <3>1, <3>2, EndlessIsGreatest
    <3> QED  BY <1>1, <3>3 DEF targets
  <2>7. ASSUME NEW id \in T PROVE FALSE
    <3> DEFINE P == {n \in Nat : \A i \in T : i > n}
    <3>1. ASSUME NEW n \in Nat, \A i \in T : i > n
          PROVE  n + 1 \notin T
      <4> SUFFICES ASSUME n + 1 \in T PROVE FALSE
        OBVIOUS
      <4>1. PICK t \in T : t \in ContainedTypes(n + 1)
        BY <2>5
      <4>2. n + 1 \in W /\ t > n /\ t \in Nat \ {0}
        BY <2>1, <2>5, <3>1
      <4>3. IF ctx.ephemeral[n + 1].kind = "alias"
            THEN \/ t = None
                 \/ /\ ctx.ephemeral[n + 1].node \in DOMAIN types
                    /\ t = types[ctx.ephemeral[n + 1].node]
            ELSE t \in Holds(ctx.ephemeral[n + 1])
        BY <1>1, <4>1, <4>2, ContainedIsHeld DEF W
      <4>4. CASE ctx.ephemeral[n + 1].kind = "alias"
        <5>1. PICK k \in DOMAIN types : t = types[k]
          BY <4>2, <4>3, <4>4 DEF None
        <5>2. k \in grph.nodes
          BY <1>1 DEF Written, WireOK
        <5>3. k \in N
          BY <5>1, <5>2
        <5> QED  BY <2>6, <5>3
      <4>5. CASE ctx.ephemeral[n + 1].kind # "alias"
        <5>1. t < n + 1
          BY <2>1, <4>2, <4>3, <4>5
        <5> QED  BY <4>2, <5>1
      <4> QED  BY <4>4, <4>5
    <3>2. \A n \in Nat : n \in P
      <4>1. 0 \in P
        BY <2>1, <2>5
      <4>2. \A n \in Nat : n \in P => n + 1 \in P
        <5> SUFFICES ASSUME NEW n \in Nat, n \in P, NEW i \in T PROVE i > n + 1
          OBVIOUS
        <5>1. i \in Nat /\ i > n
          BY <2>1, <2>5
        <5>2. i # n + 1
          BY <3>1
        <5> QED  BY <5>1, <5>2
      <4> HIDE DEF P
      <4> QED  BY <4>1, <4>2, NatSetInduction
    <3>3. id \in Nat
      BY <2>1, <2>5
    <3>4. id > id
      BY <3>2, <3>3
    <3> QED  BY <3>3, <3>4
  <2>8. T = {}
    BY <2>7
  <2> QED  BY <2>8 DEF T, W
<1>2. LInv /\ WireOK => NoTypeContainsItself
  BY <1>1 DEF NoTypeContainsItself, Written
<1>3. InitLowering => WireOK
  BY DEF InitLowering, WireOK
<1>4. SpecLowering => []WireOK
  BY <1>3, WireNext, PTL DEF SpecLowering
<1> QED  BY <1>2, <1>4, LoweringInvariance, PTL
=============================================================================

------------------------------ MODULE Lowering ------------------------------
(***************************************************************************)
(* LoweringContext of lowering/mod.rs: every node of the global sketch     *)
(* graph gets a C type, which refers to other types by their ids and to    *)
(* other nodes by aliases; the result is written as a protobuf mapping.    *)
(*                                                                         *)
(* Nodes are lowered in any order; FieldSchedule shares out the fields of  *)
(* a node among its structures.  A graph has nodes, edges <<source, label, *)
(* target>>, and upper, the name of each node's upper bound; tids gives    *)
(* the interesting procedures their nodes and outs the sizes of a          *)
(* procedure's return values.  A C type is a record with a kind.  The ids  *)
(* of the types one step adds follow one another in no particular order.   *)
(***************************************************************************)
EXTENDS FieldSchedule, Integers, SequencesExt

CONSTANTS
  Graphs,        \* the graphs to lower: [nodes, edges, upper, tids, outs]
  DefaultName,   \* the name of default_lattice_elem's upper bound
  MaxU32         \* the greatest number the protobuf mapping can hold

(* translate_field: fields at negative offsets have no place in a          *)
(* structure.  A field is here known by the node it leads to.              *)
TranslatedFields(edges, n) ==
  {[byte_offset |-> e[2].offset, bit_sz |-> e[2].size, node |-> e[3]] :
     e \in {x \in edges : x[1] = n /\ x[2].kind = "field" /\ x[2].offset >= 0}}

None == 0      \* an absent id or node

(* A sketch graph is finite, its edges lead from node to node and are       *)
(* labelled by the cases of FieldLabel; formal_rets are sizes in bits.      *)
ASSUME GraphsAssumption ==
  /\ UNION {{TranslatedFields(G.edges, n) : n \in G.nodes} : G \in Graphs} \subseteq FieldSets
  /\ \A G \in Graphs :
       /\ IsFiniteSet(G.nodes) /\ None \notin G.nodes
       /\ IsFiniteSet(G.edges)
       /\ \A e \in G.edges :
            /\ e[1] \in G.nodes /\ e[3] \in G.nodes
            /\ e[2].kind \in {"field", "load", "store", "in", "out", "add"}
            /\ e[2].kind = "field" => e[2].offset \in Int
       /\ \A t \in DOMAIN G.outs : G.outs[t] \in Seq(Nat)

VARIABLES
  grph,        \* the graph
  outParams,   \* out_params: node -> sizes in bits of the return values
  types,       \* node -> id of its type
  ctx,         \* [ephemeral, primitives, next]: the types by id, the ids of
               \* the primitive types by name, and curr_id
  wire,        \* the protobuf mapping, empty until all nodes have types
  current      \* the node whose fields are being scheduled, or None

loweringVars == <<grph, outParams, types, ctx, wire, current>>

EdgesOfKind(n, kinds) == {e \in grph.edges : e[1] = n /\ e[2].kind \in kinds}
Targets(E) == {e[3] : e \in E}

-----------------------------------------------------------------------------
Alias(n) == [kind |-> "alias", node |-> n]
Pointer(id) == [kind |-> "pointer", target |-> id]
Structure(fields) == [kind |-> "structure", fields |-> fields]
Union(ids) == [kind |-> "union", members |-> ids]

\* add_type for each of a sequence of types: the ids and the new context.
AddTypes(c, tys) ==
  LET ids == [i \in DOMAIN tys |-> c.next + i - 1]
      ephemeral == [id \in DOMAIN c.ephemeral \cup Range(ids) |->
                      IF id < c.next THEN c.ephemeral[id] ELSE tys[id - c.next + 1]]
  IN  [ids |-> ids,
       ctx |-> [ephemeral |-> ephemeral, primitives |-> c.primitives,
                next |-> c.next + Len(tys)]]

AddType(c, ty) ==
  LET added == AddTypes(c, <<ty>>)
  IN  [id |-> added.ids[1], ctx |-> added.ctx]

\* An alias for each node of N: node -> id.
AddAliases(c, N) ==
  LET order == SetToSeq(N)
      added == AddTypes(c, [i \in DOMAIN order |-> Alias(order[i])])
  IN  [idOf |-> [n \in N |-> added.ids[CHOOSE i \in DOMAIN order : order[i] = n]],
       ctx |-> added.ctx]

\* build_terminal_type
BuildTerminalType(c, name) ==
  LET added == AddType(c, [kind |-> "primitive", name |-> name])
      primitives == [x \in DOMAIN c.primitives \cup {name} |->
                       IF x = name THEN added.id ELSE c.primitives[x]]
  IN  IF name \in DOMAIN c.primitives THEN [id |-> c.primitives[name], ctx |-> c]
      ELSE [id |-> added.id, ctx |-> [added.ctx EXCEPT !.primitives = primitives]]

-----------------------------------------------------------------------------
(* The parts of a node's type.  Each operator takes a context and returns  *)
(* the types it builds with the new context.                               *)

HasNonZeroFields(n) == \E e \in EdgesOfKind(n, {"field"}) : e[2].offset # 0

\* build_structure_types, for the classrooms that the scheduling ends with.
BuildStructureTypes(c, n, classrooms) ==
  LET aliases == AddAliases(c, Targets(EdgesOfKind(n, {"field"})))
      field(f) == [byte_offset |-> f.byte_offset, bit_sz |-> f.bit_sz,
                   type_index |-> aliases.idOf[f.node]]
  IN  IF ~HasNonZeroFields(n) THEN [types |-> {}, ctx |-> c]
      ELSE [types |-> {Structure([i \in DOMAIN room |-> field(room[i])]) : room \in classrooms},
            ctx |-> aliases.ctx]

\* Faulty: a type that can be loaded or stored through is taken for its contents.
BuildAliasesOfContents(n) ==
  IF HasNonZeroFields(n) THEN {}
  ELSE {Alias(m) : m \in Targets(EdgesOfKind(n, {"field", "load", "store"}))}

BuildAliasTypes(n) ==
  IF HasNonZeroFields(n) THEN {}
  ELSE {Alias(m) : m \in Targets(EdgesOfKind(n, {"field"}))}

BuildPointerTypes(c, n) ==
  LET N == Targets(EdgesOfKind(n, {"load", "store"}))
      aliases == AddAliases(c, N)
  IN  [types |-> {Pointer(aliases.idOf[m]) : m \in N}, ctx |-> aliases.ctx]

\* collect_params: one parameter per index, a union if it has several targets.
CollectParams(c, n, kind) ==
  LET E == EdgesOfKind(n, {kind})
      aliases == AddAliases(c, Targets(E))
      at(i) == {aliases.idOf[m] : m \in Targets({e \in E : e[2].index = i})}
      several == SetToSeq({i \in {e[2].index : e \in E} : Cardinality(at(i)) > 1})
      unions == AddTypes(aliases.ctx, [j \in DOMAIN several |-> Union(at(several[j]))])
      idAt(i) == IF i \in Range(several)
                 THEN unions.ids[CHOOSE j \in DOMAIN several : several[j] = i]
                 ELSE CHOOSE id \in at(i) : TRUE
  IN  [params |-> {[index |-> i, type_index |-> idAt(i)] : i \in {e[2].index : e \in E}},
       ctx |-> unions.ctx]

\* Bytes before the i-th return value.
OffsetOf(sizes, i) == FoldLeft(LAMBDA sum, size : sum + size \div 8, 0, SubSeq(sizes, 1, i))

\* Faulty: the i-th parameter found is the i-th return value.
ReturnFieldsInOrder(sizes, params, default) ==
  LET rank(i) == CHOOSE p \in params : Cardinality({q \in params : q.index < p.index}) = i
  IN  {[byte_offset |-> OffsetOf(sizes, i), bit_sz |-> sizes[i + 1],
        type_index |-> IF i < Cardinality(params) THEN rank(i).type_index ELSE default] :
         i \in 0 .. Len(sizes) - 1}

\* build_return_type_structure: a field per return value of the procedure,
\* padded with the default type where the sketch has no parameter.
ReturnFields(sizes, params, default) ==
  {[byte_offset |-> OffsetOf(sizes, i), bit_sz |-> sizes[i + 1],
    type_index |-> IF \E p \in params : p.index = i
                   THEN (CHOOSE p \in params : p.index = i).type_index
                   ELSE default] :
     i \in 0 .. Len(sizes) - 1}

BuildReturnType(c, sizes, outs) ==
  LET padded == \E i \in 0 .. Len(sizes) - 1 : \A p \in outs : p.index # i
      pad == BuildTerminalType(c, DefaultName)
      c2 == IF padded THEN pad.ctx ELSE c
      fields == ReturnFields(sizes, outs, IF padded THEN pad.id ELSE None)
      added == AddType(c2, Structure(SetToSeq(fields)))
  IN  IF Cardinality(outs) > 1 \/ Len(sizes) > 1
      THEN [return_ty |-> added.id, ctx |-> added.ctx]
      ELSE [return_ty |-> IF outs = {} THEN None ELSE (CHOOSE p \in outs : TRUE).type_index,
            ctx |-> c]

\* build_function_types
BuildFunctionTypes(c, n) ==
  LET ins == CollectParams(c, n, "in")
      outs == CollectParams(ins.ctx, n, "out")
      sizes == IF n \in DOMAIN outParams THEN outParams[n] ELSE <<>>
      ret == BuildReturnType(outs.ctx, sizes, outs.params)
  IN  [types |-> IF ins.params \cup outs.params = {} THEN {}
                 ELSE {[kind |-> "function", params |-> ins.params,
                        return_ty |-> ret.return_ty]},
       ctx |-> ret.ctx]

\* The type of a node of which nothing but its bounds is known, or else of
\* the one type or the union of the types that describe its parts.
Combined(c, tys) ==
  LET members == AddTypes(c, SetToSeq(tys))
  IN  IF Cardinality(tys) = 1 THEN AddType(c, CHOOSE ty \in tys : TRUE)
      ELSE AddType(members.ctx, Union(Range(members.ids)))

\* build_type
BuiltType(c, n, classrooms) ==
  LET structures == BuildStructureTypes(c, n, classrooms)
      pointers == BuildPointerTypes(structures.ctx, n)
      functions == BuildFunctionTypes(pointers.ctx, n)
  IN  IF Targets({e \in grph.edges : e[1] = n}) = {}
      THEN BuildTerminalType(c, grph.upper[n])
      ELSE Combined(functions.ctx, UNION {structures.types, BuildAliasTypes(n),
                                          pointers.types, functions.types})

-----------------------------------------------------------------------------
\* LoweringContext::new.  Two procedures on one node: the last one counts.
InitLowering ==
  /\ grph \in Graphs
  /\ LET known == {t \in DOMAIN grph.outs : t \in DOMAIN grph.tids}
         owners == {grph.tids[t] : t \in known}
     IN  outParams \in [owners -> {grph.outs[t] : t \in known}]
  /\ \A n \in DOMAIN outParams :
       \E t \in DOMAIN grph.tids \cap DOMAIN grph.outs :
         grph.tids[t] = n /\ grph.outs[t] = outParams[n]
  /\ types = <<>>
  /\ ctx = [ephemeral |-> <<>>, primitives |-> <<>>, next |-> Cardinality(grph.nodes) + 1]
  /\ wire = <<>>
  /\ current = None /\ todo = {} /\ rooms = {}

\* schedule_structures is called for a node that has the fields of a structure.
StartSchedule(n) ==
  /\ current = None
  /\ n \in grph.nodes \ DOMAIN types
  /\ HasNonZeroFields(n)
  /\ current' = n
  /\ todo' = TranslatedFields(grph.edges, n)
  /\ UNCHANGED <<grph, outParams, types, ctx, wire, rooms>>

ScheduleField(f) ==
  /\ Visit(f)
  /\ UNCHANGED loweringVars

\* One iteration of collect_ctypes, once the fields of the node are scheduled.
BuildType(n) ==
  /\ n \in grph.nodes \ DOMAIN types
  /\ current = IF HasNonZeroFields(n) THEN n ELSE None
  /\ todo = {}
  /\ \E built \in {BuiltType(ctx, n, rooms)} :
       /\ types' = [m \in DOMAIN types \cup {n} |-> IF m = n THEN built.id ELSE types[m]]
       /\ ctx' = built.ctx
  /\ current' = None /\ rooms' = {}
  /\ UNCHANGED <<grph, outParams, wire, todo>>

\* produce_inner_types
InnerType(ty) ==
  IF ty.kind = "alias"
  THEN [kind |-> "alias", to |-> IF ty.node \in DOMAIN types THEN types[ty.node] ELSE None]
  ELSE ty

\* The numbers that field_to_protobuf and param_to_protofbuf convert.
Numbers(ty) ==
  CASE ty.kind = "structure" -> UNION {{f.byte_offset, f.bit_sz} : f \in Range(ty.fields)}
    [] ty.kind = "function" -> {p.index : p \in ty.params}
    [] OTHER -> {}

\* "dont unwrap u32s": the conversion of an id or a number that is greater panics.
FitsU32 ==
  \A id \in DOMAIN ctx.ephemeral : \A n \in {id} \cup Numbers(ctx.ephemeral[id]) : n <= MaxU32

\* convert_mapping_to_profobuf; after a panic nothing more happens.
ConvertMapping ==
  /\ DOMAIN types = grph.nodes /\ wire = <<>>
  /\ FitsU32
  /\ wire' = [id \in DOMAIN ctx.ephemeral |-> InnerType(ctx.ephemeral[id])]
  /\ UNCHANGED <<vars, grph, outParams, types, ctx, current>>

NextLowering ==
  \/ \E n \in grph.nodes : StartSchedule(n)
  \/ \E f \in todo : ScheduleField(f)
  \/ \E n \in grph.nodes : BuildType(n)
  \/ ConvertMapping

SpecLowering == InitLowering /\ [][NextLowering]_<<vars, loweringVars>>

-----------------------------------------------------------------------------
(* What the protobuf mapping says of a type, as statements <<part, where,  *)
(* what>>: a value is a primitive type, has at a byte offset or behind a   *)
(* pointer a value of some type, takes or returns one.                     *)

\* The types a field, pointer or parameter leads to.
LeadsTo(id) ==
  {IF wire[i].kind = "alias" THEN wire[i].to ELSE i :
     i \in IF wire[id].kind = "union" THEN wire[id].members ELSE {id}}

AtFields(part, ty) ==
  UNION {{<<part, f.byte_offset, t>> : t \in LeadsTo(f.type_index)} : f \in Range(ty.fields)}

ReturnSays(id) ==
  IF id = None THEN {}
  ELSE IF wire[id].kind = "structure" THEN AtFields("returns", wire[id])
  ELSE {<<"returns", 0, t>> : t \in LeadsTo(id)}

TypeSays(ty) ==
  CASE ty.kind = "primitive" -> {<<"is", 0, ty.name>>}
    [] ty.kind = "alias" -> {<<"has", 0, ty.to>>}
    [] ty.kind = "structure" -> AtFields("has", ty)
    [] ty.kind = "pointer" -> {<<"points to", 0, t>> : t \in LeadsTo(ty.target)}
    [] ty.kind = "function" ->
         ReturnSays(ty.return_ty) \cup
           UNION {{<<"takes", p.index, t>> : t \in LeadsTo(p.type_index)} : p \in ty.params}

Says(n) ==
  LET ty == wire[types[n]]
  IN  UNION {TypeSays(part) :
               part \in IF ty.kind = "union" THEN {wire[i] : i \in ty.members} ELSE {ty}}

\* What the sketch says of the node.
SizesAt(n) == IF n \in DOMAIN outParams THEN outParams[n] ELSE <<>>

Returns(n) == {e[2].index : e \in EdgesOfKind(n, {"out"})}

ReturnOffset(n, i) == IF Len(SizesAt(n)) <= 1 THEN 0 ELSE OffsetOf(SizesAt(n), i)

EdgeMeans(e) ==
  CASE e[2].kind = "field" ->
         IF e[2].offset < 0 THEN {} ELSE {<<"has", e[2].offset, types[e[3]]>>}
    [] e[2].kind \in {"load", "store"} -> {<<"points to", 0, types[e[3]]>>}
    [] e[2].kind = "in" -> {<<"takes", e[2].index, types[e[3]]>>}
    [] e[2].kind = "out" -> {<<"returns", ReturnOffset(e[1], e[2].index), types[e[3]]>>}
    [] e[2].kind = "add" -> {}

NodeMeans(n) ==
  LET E == {e \in grph.edges : e[1] = n}
  IN  IF E = {} THEN {<<"is", 0, grph.upper[n]>>} ELSE UNION {EdgeMeans(e) : e \in E}

Pads(n) ==
  {<<"returns", OffsetOf(SizesAt(n), i), ctx.primitives[DefaultName]>> :
     i \in {j \in 0 .. Len(SizesAt(n)) - 1 : j \notin Returns(n) /\ Len(SizesAt(n)) > 1}}

(* A procedure returns no more values than formal_rets lists; beyond these *)
(* return values have no place in the return structure.                    *)
ReturnsAreListed(n) ==
  \/ Cardinality(Returns(n)) <= 1 /\ Len(SizesAt(n)) <= 1
  \/ Returns(n) \subseteq 0 .. Len(SizesAt(n)) - 1

(* "types are local decisions so we dont care what order types are built": *)
(* in every order of the nodes and of the edges, and with primitive types  *)
(* shared, the mapping says of each node what its sketch says, but for     *)
(* negative offsets, and nothing else but padding.                         *)
SketchesAreLowered ==
  wire # <<>> =>
    \A n \in grph.nodes :
      ReturnsAreListed(n) =>
        /\ NodeMeans(n) \subseteq Says(n)
        /\ Says(n) \ NodeMeans(n) \subseteq Pads(n)

-----------------------------------------------------------------------------
\* What of X leads back into X.
Onward(next, X) == {x \in X : next[x] \cap X # {}}

Rounds(next) ==
  LET left[i \in Nat] == IF i = 0 THEN DOMAIN next ELSE Onward(next, left[i-1])
  IN  left

\* The elements from which one can follow next for ever.
Endless(next) == Rounds(next)[Cardinality(DOMAIN next)]

\* The types of which a value contains a value.
ContainedTypes(id) ==
  CASE wire[id].kind = "alias" -> {wire[id].to}
    [] wire[id].kind = "union" -> wire[id].members
    [] wire[id].kind = "structure" -> {f.type_index : f \in Range(wire[id].fields)}
    [] OTHER -> {}

FieldTargets(n) == Targets(EdgesOfKind(n, {"field"}))

(* A recursive type is recursive through a pointer or a function: aliases, *)
(* unions and structures never contain themselves, unless the fields of    *)
(* the sketches do.                                                        *)
NoTypeContainsItself ==
  wire # <<>> /\ Endless([n \in grph.nodes |-> FieldTargets(n)]) = {} =>
    Endless([id \in DOMAIN wire |-> ContainedTypes(id)]) = {}
=============================================================================

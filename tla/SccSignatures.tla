---------------------------- MODULE SccSignatures ----------------------------
(***************************************************************************)
(* The two passes of solver/scc_constraint_generation.rs over the condensed *)
(* call graph: bottom up every SCC of procedures gets a signature, then     *)
(* every SCC's constraints are simplified again with all the interesting    *)
(* variables kept.  A callsite instantiates the signature of its callee.    *)
(*                                                                         *)
(* What the generated constraints relate are the formals of the procedures *)
(* (tagged with the callsite when they are actuals), globals, lattice      *)
(* elements and local variables; field labels behind a formal are left out, *)
(* and so are additions, without which infer_pointers returns what it is    *)
(* given.  The automaton is represented by the constraints its walk yields, *)
(* which the runs of SimplifyGraph compare with those that hold.           *)
(***************************************************************************)
EXTENDS Naturals, Sequences, FiniteSets

CONSTANTS
  Procs,            \* the procedures and extern symbols, by Tid
  Globals,          \* names of global variables
  LatticeElements,  \* names of type constants
  Locals,           \* names of the other variables
  InterestingTids,  \* all_interesting_variables, without the lattice
  Tags,             \* callsites
  Ports,            \* in and out parameters
  NoTag, NoPort,    \* no callsite; no parameter
  Programs          \* the programs analysed

TypeVars == [name : Procs \cup Globals \cup LatticeElements \cup Locals,
             tag : Tags \cup {NoTag},
             port : Ports \cup {NoPort}]

\* A program: who calls whom, the constraints generated for each procedure,
\* and those the user adds to it.
ProgramType ==
  [calls : SUBSET (Procs \X Procs),
   code : [Procs -> SUBSET (TypeVars \X TypeVars)],
   additional : [Procs -> SUBSET (TypeVars \X TypeVars)]]

\* CGContext::get_graph
Calls(prog) == prog.calls

Mentioned(cs) == {c[1] : c \in cs} \cup {c[2] : c \in cs}

ASSUME ProcsAssumption == IsFiniteSet(Procs)

\* Only a call leaves a callsite's tag.
ASSUME ProgramAssumption ==
  /\ Programs \subseteq ProgramType
  /\ \A prog \in Programs, p \in Procs :
       \A v \in Mentioned(prog.code[p]) :
         v.tag # NoTag => <<p, v.name>> \in Calls(prog)

\* The names of procedures are no others, and no fresh variables.
ASSUME NamesAssumption ==
  /\ Procs \cap (Globals \cup LatticeElements) = {}
  /\ \A p \in Procs : p \notin Nat

\* create_formal_tvar: a procedure is mentioned by its parameters only, without
\* a callsite just in its own constraints; and the user adds no callsites.
ASSUME FormalsAssumption ==
  \A prog \in Programs, p \in Procs :
    /\ IsFiniteSet(prog.code[p]) /\ IsFiniteSet(prog.additional[p])
    /\ \A v \in Mentioned(prog.code[p] \cup prog.additional[p]) :
         /\ v.name \in Procs <=> v.port # NoPort
         /\ v.name \in Procs /\ v.tag = NoTag => v.name = p
    /\ \A v \in Mentioned(prog.additional[p]) : v.tag = NoTag

\* A callsite is the block that ends in the call.
ASSUME CallSitesAssumption ==
  \A prog \in Programs, p, q \in Procs :
    \A v \in Mentioned(prog.code[p]), w \in Mentioned(prog.code[q]) :
      v.tag = w.tag /\ v.tag # NoTag => v.name = w.name

VARIABLES
  program,
  order,         \* CGOrdering::topo_order
  signatures,    \* state: a signature for the procedures handled so far
  constraints,   \* the result: the constraints of the SCCs handled so far
  left,          \* the SCCs the current pass has left to handle
  cons,          \* the constraints of the SCC being simplified
  names,         \* its interesting variables
  fresh,         \* VariableManager::curr_id, as far as loop breakers count it
  pass,          \* "signatures" or "constraints"
  pc             \* "order", "instantiate", "simplify", "done" or "panicked"

vars == <<program, order, signatures, constraints, left, cons, names, fresh, pass, pc>>
results == <<signatures, constraints>>

-----------------------------------------------------------------------------
(* Relations: constraint sets and call graphs are sets of pairs. *)

OutOf(v, R) == {r[2] : r \in {x \in R : x[1] = v}}

\* What R relates directly or through elements of V.
Through(R, V) ==
  LET chains[n \in Nat] ==
        IF n = 0 THEN R
        ELSE UNION {{c} \cup (IF c[2] \in V THEN {c[1]} \X OutOf(c[2], R) ELSE {}) :
                      c \in chains[n-1]}
  IN  chains[Cardinality(V)]

Closure(R) == Through(R, Mentioned(R))

-----------------------------------------------------------------------------
(* callgraph::CGOrdering *)

SccOf(p) ==
  LET reach == Closure(Calls(program))
  IN  {q \in Procs : q = p \/ (<<p, q>> \in reach /\ <<q, p>> \in reach)}

Sccs == {SccOf(p) : p \in Procs}

CallsInto(A, B) == \E p \in A, q \in B : <<p, q>> \in Calls(program)

\* Faulty: the callees come first.
IsReverseOrder(s) ==
  \A i, j \in 1..Len(s) : i < j => ~CallsInto(s[i], s[j])

\* petgraph::algo::toposort: callers come first.
IsTopoOrder(s) ==
  \A i, j \in 1..Len(s) : i < j => ~CallsInto(s[j], s[i])

Orderings ==
  LET S == Sccs
      n == Cardinality(S)
  IN  {s \in [1..n -> S] : {s[i] : i \in 1..n} = S /\ IsTopoOrder(s)}

-----------------------------------------------------------------------------
(* Type variables *)

\* tid_to_tvar
Base(name) == [name |-> name, tag |-> NoTag, port |-> NoPort]

\* create_formal_tvar: a parameter inside its procedure, and at a callsite.
Formal(p, port) == [name |-> p, tag |-> NoTag, port |-> port]
Actual(p, t, port) == [name |-> p, tag |-> t, port |-> port]

IsGlobal(v) == v.name \in Globals

\* is_formal_dtv, and refers_to_in_parameter or refers_to_out_parameter
IsFormal(v) == v.tag = NoTag /\ ~IsGlobal(v) /\ v.port # NoPort

\* Faulty: leaves the calls within the SCC tagged.
KeepTag(v, scc) == v

\* remove_cs_tags_for_tids_in_dtv
RemoveTag(v, scc) ==
  IF v.tag # NoTag /\ v.name \in scc THEN [v EXCEPT !.tag = NoTag] ELSE v

\* Signature::retag_dtv
Retag(v, t) == IF IsFormal(v) THEN [v EXCEPT !.tag = t] ELSE v

\* Signature::instantiate
Instantiate(sig, t) == {<<Retag(c[1], t), Retag(c[2], t)>> : c \in sig}

-----------------------------------------------------------------------------
(* simplify_scc *)

\* generate_constraints, with the SCC as the function filter
GeneratedCons(scc) == UNION {program.code[p] : p \in scc}

\* remove_cs_tags_for_tids_in_constraint
BasicCons(scc) == {<<RemoveTag(c[1], scc), RemoveTag(c[2], scc)>> : c \in GeneratedCons(scc)}

\* identify_called_formals: callee and callsite.
CalledFormals(cs) == {<<v.name, v.tag>> : v \in {x \in Mentioned(cs) : x.tag # NoTag}}

\* instantiate_callee_signatures
WithCalleeSignatures(cs) ==
  cs \cup UNION {Instantiate(signatures[f[1]], f[2]) : f \in CalledFormals(cs)}

ResolvedCons(scc) ==
  WithCalleeSignatures(BasicCons(scc)) \cup UNION {program.additional[p] : p \in scc}

\* Faulty: the globals are not interesting.
InterestingFormals(scc, cs, base) == base \cup scc \cup LatticeElements

\* The names of the variables that are kept.
InterestingNames(scc, cs, base) ==
  base \cup scc \cup {v.name : v \in {x \in Mentioned(cs) : IsGlobal(x)}} \cup LatticeElements

\* Faulty: the signatures keep all the interesting variables too.
SameBaseNames == InterestingTids

\* The base set of the second pass: all_interesting_variables
BaseNames == IF pass = "signatures" THEN {} ELSE InterestingTids

Inner == {v \in Mentioned(cons) : v.name \notin names}

\* What the constraints relate through inner variables.
Chains == Through(cons, Inner)

\* remove_unreachable leaves inner variables between variables that are kept.
IsBetween(v, chains) ==
  /\ \E c \in chains : c[2] = v /\ c[1].name \in names
  /\ \E c \in chains : c[1] = v /\ c[2].name \in names

\* The strongly connected component of an inner variable.
LoopOf(v, chains) ==
  {v} \cup {c[1] : c \in {x \in chains : /\ x[2] = v /\ x[1].name \notin names
                                       /\ <<v, x[1]>> \in chains}}

\* get_entries_to_scc, of a component that is a loop.
LoopEntries(chains) ==
  {v \in Inner : /\ IsBetween(v, chains)
                 /\ LoopOf(v, chains) # {v}
                 /\ \E c \in cons : c[2] = v /\ c[1] \notin LoopOf(v, chains)}

\* VariableManager::fresh_loop_breaker
LoopBreaker(n) == Base(n)

\* replace_nodes_with_interesting_variable
Replaced(v, by) ==
  {<<IF c[1] = v THEN by ELSE c[1], IF c[2] = v THEN by ELSE c[2]>> : c \in cons}

\* FSA::walk_constraints
WalkConstraints(chains) == {c \in chains : {c[1].name, c[2].name} \subseteq names}

\* get_formals_in
FormalsIn(cs) == {v \in Mentioned(cs) : IsFormal(v)}

\* Faulty: forgets the formals that nothing visible relates to.
KeepRelatedFormals(simplified, original) == simplified

\* insert_missed_formals
InsertMissedFormals(simplified, original) ==
  simplified \cup {<<v, v>> : v \in FormalsIn(original) \ FormalsIn(simplified)}

-----------------------------------------------------------------------------
Init ==
  /\ program \in Programs
  /\ order = <<>> /\ left = 0
  /\ signatures = <<>> /\ constraints = <<>>
  /\ cons = {} /\ names = {}
  /\ fresh = 0
  /\ pass = "signatures" /\ pc = "order"

Order ==
  /\ pc = "order"
  /\ order' \in Orderings
  /\ left' = Len(order')
  /\ pc' = "instantiate"
  /\ UNCHANGED <<program, results, cons, names, fresh, pass>>

\* get_signatures goes from the callees up, get_simplified_constraints down.
CurrentScc ==
  IF pass = "signatures" THEN order[left] ELSE order[Len(order) + 1 - left]

\* instantiate_callee_signatures: "A callee should have a sig"
CalleesSigned == \A f \in CalledFormals(BasicCons(CurrentScc)) : f[1] \in DOMAIN signatures

\* The first half of simplify_scc
InstantiateCallees ==
  /\ pc = "instantiate" /\ left > 0
  /\ IF CalleesSigned
     THEN /\ cons' = ResolvedCons(CurrentScc)
          /\ names' = InterestingNames(CurrentScc, cons', BaseNames)
          /\ pc' = "simplify"
     ELSE pc' = "panicked" /\ UNCHANGED <<cons, names>>
  /\ UNCHANGED <<program, order, results, left, fresh, pass>>

\* A step of generate_recursive_type_variables
BreakLoop ==
  /\ pc = "simplify"
  /\ \E chains \in {Chains} : \E v \in LoopEntries(chains) :
       cons' = Replaced(v, LoopBreaker(fresh))
  /\ names' = names \cup {fresh}
  /\ fresh' = fresh + 1
  /\ UNCHANGED <<program, order, results, left, pass, pc>>

\* The entry of a result for every member of the SCC
Recorded(r, cs) == [p \in CurrentScc \cup DOMAIN r |-> IF p \in CurrentScc THEN cs ELSE r[p]]

\* The second half of simplify_scc
Simplify ==
  /\ pc = "simplify"
  /\ \E chains \in {Chains} :
       LET simplified == InsertMissedFormals(WalkConstraints(chains), ResolvedCons(CurrentScc))
       IN  /\ LoopEntries(chains) = {}
           /\ IF pass = "signatures"
              THEN signatures' = Recorded(signatures, simplified) /\ UNCHANGED constraints
              ELSE constraints' = Recorded(constraints, simplified) /\ UNCHANGED signatures
  /\ left' = left - 1
  /\ pc' = "instantiate"
  /\ UNCHANGED <<program, order, cons, names, fresh, pass>>

\* get_simplified_constraints, once get_signatures has returned
StartConstraints ==
  /\ pc = "instantiate" /\ left = 0 /\ pass = "signatures"
  /\ left' = Len(order)
  /\ pass' = "constraints"
  /\ UNCHANGED <<program, order, results, cons, names, fresh, pc>>

Finish ==
  /\ pc = "instantiate" /\ left = 0 /\ pass = "constraints"
  /\ pc' = "done"
  /\ UNCHANGED <<program, order, results, left, cons, names, fresh, pass>>

Next ==
  \/ Order \/ InstantiateCallees \/ BreakLoop \/ Simplify
  \/ StartConstraints \/ Finish

Spec == Init /\ [][Next]_vars
=============================================================================

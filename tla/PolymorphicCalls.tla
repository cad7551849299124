-------------------------- MODULE PolymorphicCalls --------------------------
(***************************************************************************)
(* What the signatures of SccSignatures promise: every callsite between     *)
(* SCCs gets a fresh copy of the callee, so that what a type is related to  *)
(* through one callsite never shows at another.  The reference is the       *)
(* program with every call between SCCs expanded in place, to any depth:    *)
(* a variable belongs to the string of callsites it was expanded along.     *)
(***************************************************************************)
EXTENDS SccSignatures

\* The callsites out of an SCC: callee and tag.
CallSites(scc) == CalledFormals(BasicCons(scc))

\* The copies of SCCs an expansion from root makes, n calls deep at most.
Copies(root, n) ==
  LET copies[k \in Nat] ==
        IF k = 0 THEN {<<<<>>, root>>}
        ELSE UNION {{<<Append(c[1], s[2]), SccOf(s[1])>> : s \in CallSites(c[2])} :
                      c \in copies[k-1]}
  IN  UNION {copies[k] : k \in 0 .. n}

\* A variable of the copy along the callsites ctx.
Placed(v, ctx) ==
  IF IsGlobal(v) \/ v.name \in LatticeElements THEN [v EXCEPT !.tag = <<>>]
  ELSE IF v.tag = NoTag THEN [v EXCEPT !.tag = ctx]
       ELSE [v EXCEPT !.tag = Append(ctx, v.tag)]

CopyCons(c) ==
  {<<Placed(x[1], c[1]), Placed(x[2], c[1])>> :
     x \in BasicCons(c[2]) \cup UNION {program.additional[p] : p \in c[2]}}

\* The relation the expanded program determines.
Expanded(root) == Closure(UNION {CopyCons(c) : c \in Copies(root, Cardinality(Sccs))})

\* What a caller of the SCC sees of it.
IsVisible(v, scc) ==
  \/ v.name \in scc /\ v.tag = <<>>
  \/ IsGlobal(v) \/ v.name \in LatticeElements

\* What the later stages see of it: also the formals of interesting callees.
IsSolvedFor(v, scc) ==
  \/ IsVisible(v, scc)
  \/ v.name \in InterestingTids \cap Procs /\ Len(v.tag) = 1

\* What a result says of distinct variables, in the terms of the expansion.
Says(cs) ==
  {<<Placed(c[1], <<>>), Placed(c[2], <<>>)>> : c \in {x \in Closure(cs) : x[1] # x[2]}}

-----------------------------------------------------------------------------
TypeOK ==
  /\ program \in Programs
  /\ \A i \in 1 .. Len(order) : order[i] \in SUBSET Procs
  /\ DOMAIN signatures \subseteq Procs /\ DOMAIN constraints \subseteq Procs
  /\ left \in 0 .. Len(order)
  /\ fresh \in Nat
  /\ pass \in {"signatures", "constraints"}
  /\ pc \in {"order", "instantiate", "simplify", "done", "panicked"}

(* instantiate_callee_signatures never misses the signature of a callee:     *)
(* the order of the SCCs, the calls of the call graph and the tags that were *)
(* removed agree.                                                            *)
NoPanic == pc # "panicked"

(* Everything the expanded program relates through any chain of calls is in  *)
(* the signature, and in the constraints the later stages get.               *)
NothingLost ==
  /\ \A p \in DOMAIN signatures :
       LET scc == SccOf(p)
       IN  {c \in Expanded(scc) : c[1] # c[2] /\ IsVisible(c[1], scc) /\ IsVisible(c[2], scc)}
             \subseteq Says(signatures[p])
  /\ \A p \in DOMAIN constraints :
       LET scc == SccOf(p)
       IN  {c \in Expanded(scc) : c[1] # c[2] /\ IsSolvedFor(c[1], scc) /\ IsSolvedFor(c[2], scc)}
             \subseteq Says(constraints[p])

\* Nothing is related that the expanded program keeps apart.
Sound(result, scc) ==
  {c \in Says(result) : IsSolvedFor(c[1], scc) /\ IsSolvedFor(c[2], scc)} \subseteq Expanded(scc)

(* A signature and the constraints say nothing of a type through another      *)
(* callsite's instance of a callee: constraints of variables without a name   *)
(* that outlives the SCC.                                                     *)
CallsitesStayApart ==
  /\ \A p \in DOMAIN signatures : Sound(signatures[p], SccOf(p))
  /\ \A p \in DOMAIN constraints : Sound(constraints[p], SccOf(p))

(* The same as long as no loop of constraints had to be broken.               *)
ApartWithoutLoops == fresh = 0 => CallsitesStayApart

(* A formal that the constraints of its procedure mention is still known in   *)
(* what the later stages get, related to anything visible or not.             *)
FormalsRemembered ==
  \A p \in DOMAIN constraints :
    \A v \in FormalsIn(BasicCons(SccOf(p))) : v \in Mentioned(constraints[p])

=============================================================================

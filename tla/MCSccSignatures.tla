--------------------------- MODULE MCSccSignatures ---------------------------
(* h calls f twice; f may call g; g may call f back, or the extern symbol e  *)
(* for which the user may add constraints.  A program is one body for each   *)
(* procedure.                                                                *)
EXTENDS PolymorphicCalls

CONSTANTS h, f, g, e, glb, int, ptr, x, y, z, t1, t2, t3, t4, t5, in, out

MCProcs == {h, f, g, e}
MCGlobals == {glb}
MCLatticeElements == {int, ptr}
MCLocals == {x, y, z}
MCTags == {t1, t2, t3, t4, t5}
MCPorts == {in, out}

HBodies ==
  {{<<Formal(h, in), Actual(f, t1, in)>>, <<Actual(f, t1, out), Formal(h, out)>>,
    <<Base(int), Actual(f, t2, in)>>, <<Actual(f, t2, out), Base(glb)>>},
   {<<Formal(h, in), Actual(f, t1, in)>>, <<Actual(f, t2, out), Formal(h, out)>>,
    <<Base(glb), Actual(f, t2, in)>>},
   {<<Actual(f, t1, out), Base(z)>>, <<Base(z), Actual(f, t1, in)>>, <<Formal(h, in), Base(z)>>,
    <<Base(int), Actual(f, t2, in)>>, <<Actual(f, t2, out), Formal(h, out)>>}}

FBodies ==
  {{<<Formal(f, in), Base(x)>>, <<Base(x), Formal(f, out)>>},
   {<<Formal(f, in), Base(x)>>, <<Base(x), Base(y)>>, <<Base(y), Base(x)>>,
    <<Base(y), Formal(f, out)>>},
   {<<Formal(f, in), Actual(g, t3, in)>>, <<Actual(g, t3, out), Formal(f, out)>>},
   {<<Formal(f, in), Actual(g, t3, in)>>, <<Base(glb), Formal(f, out)>>},
   {<<Formal(f, in), Base(glb)>>, <<Base(ptr), Formal(f, out)>>},
   {<<Formal(f, in), Base(x)>>, <<Base(x), Actual(g, t3, in)>>, <<Actual(g, t3, out), Base(x)>>,
    <<Base(x), Formal(f, out)>>}}

GBodies ==
  {{<<Formal(g, in), Formal(g, out)>>},
   {<<Formal(g, in), Base(glb)>>, <<Base(glb), Formal(g, out)>>},
   {<<Formal(g, in), Actual(f, t4, in)>>, <<Actual(f, t4, out), Formal(g, out)>>},
   {<<Formal(g, in), Actual(e, t5, in)>>, <<Actual(e, t5, out), Formal(g, out)>>},
   {<<Formal(g, in), Base(int)>>},
   {<<Formal(g, in), Base(y)>>, <<Base(ptr), Formal(g, out)>>}}

EAdditions ==
  {{}, {<<Formal(e, in), Base(int)>>, <<Base(ptr), Formal(e, out)>>},
   {<<Formal(e, in), Formal(e, out)>>}}

\* The calls that leave a trace in the constraints of the caller, and others.
CallsOf(code) ==
  {<<h, f>>, <<f, g>>} \cup
    UNION {{<<p, v.name>> : v \in {w \in Mentioned(code[p]) : w.tag # NoTag}} : p \in MCProcs}

MCPrograms ==
  {LET code == [p \in MCProcs |->
                  CASE p = h -> b[1] [] p = f -> b[2] [] p = g -> b[3] [] p = e -> {}]
   IN  [code |-> code,
        calls |-> CallsOf(code),
        additional |-> [p \in MCProcs |->
                          IF p = e /\ <<g, e>> \in CallsOf(code) THEN b[4] ELSE {}]] :
     b \in HBodies \X FBodies \X GBodies \X EAdditions}
=============================================================================

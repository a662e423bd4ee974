---------------------------- MODULE MCExecution ----------------------------
(* Programs of a handler and three callables, for TLC. *)
EXTENDS Execution

CONSTANTS h, a, b, c

\* The first parameter deep or shallow, a callable shared by two or three
\* parameters, at one depth or at several.
Programs ==
  {(h :> top) @@ (a :> mid) @@ (b :> <<c>>) @@ (c :> <<>>) :
     top \in {<<a, b>>, <<b, a>>, <<a, a>>, <<c, b, a>>, <<a, b, c>>},
     mid \in {<<b>>, <<c, b>>}}
=============================================================================

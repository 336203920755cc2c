------------------------------- MODULE MCTools -------------------------------
(* Turns for Tools: each puts other neighbours next to each other. *)
EXTENDS ToolsProps

Of(t, n) == [tool |-> t, size |-> n]
ManyTurns == {<<Of("read", 1), Of("web", 2), Of("read", 1), Of("edit", 1)>>,
              <<Of("shell", 2), Of("read", 1), Of("risky", 1)>>,
              <<Of("bad", 1), Of("shell", 1), Of("shell", 1)>>}
=============================================================================

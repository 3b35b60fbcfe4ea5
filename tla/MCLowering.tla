----------------------------- MODULE MCLowering -----------------------------
(***************************************************************************)
(* Every function of a few statements in one of the small grammars below.  *)
(***************************************************************************)
EXTENDS LoweredRuns

CONSTANTS Languages   \* names of the grammars to read

Grammar(lang, kinds, size) ==
  [lang |-> lang, kinds |-> kinds, size |-> size]

Named ==
  [branches |-> Grammar("ts", {"call", "if", "return", "while"}, 5),
   loops    |-> Grammar("ts", {"if", "while", "cfor", "do", "break", "continue"}, 5),
   tries    |-> Grammar("ts", {"call", "if", "try", "throw"}, 6),
   rounds   |-> Grammar("ts", {"call", "while", "try", "break", "return"}, 6),
   python   |-> Grammar("py", {"call", "while", "for", "break", "continue"}, 5),
   raises   |-> Grammar("py", {"call", "try", "if", "throw"}, 6),
   arms     |-> Grammar("ts", {"call", "switch", "break", "while"}, 5),
   finally  |-> Grammar("ts", {"call", "try", "return"}, 5),
   switch   |-> Grammar("ts", {"call", "switch", "if", "return"}, 5)]

MCGrammars == {Named[l] : l \in Languages}
=============================================================================

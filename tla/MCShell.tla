------------------------------ MODULE MCShell ------------------------------
(* A small shell: what the user may type.                                  *)
EXTENDS Shell

Line(word, arg, bg, redirect) ==
  [args |-> [word |-> word, arg |-> arg], bg |-> bg, redirect |-> redirect]

HistoryLines ==
  {Line("ls", 0, 0, 0), Line("xx", 0, 0, 0), Line("history", 0, 0, 0),
   Line("xx", 0, 1, 0), Line("ls", 0, 0, 1), Line("xx", 0, 0, 1)}
    \union {Line("number", n, 0, 0) : n \in 1 .. 4}

JobLines ==
  {Line("ls", 0, bg, 0) : bg \in {0, 1}} \union
  {Line("jobs", 0, 0, 0), Line("exit", 0, 0, 0), Line("xx", 0, 1, 0)}
    \union {Line("fg", p, 0, 0) : p \in {0, 1}}

AllLines == HistoryLines \union JobLines
=============================================================================

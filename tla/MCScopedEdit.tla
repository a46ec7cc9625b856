---------------------------- MODULE MCScopedEdit ----------------------------
(* A TypeScript file with imports, one without, a Go file with a group of  *)
(* imports, a script with a comment on top, and one of nothing but that.   *)
EXTENDS ScopedEdit

CONSTANTS comment, import1, code1, typed1

File(r, t) == [rules |-> r, text |-> t]

MCFiles ==
    {File("jsts", <<import1, code1, Blank>>),
     File("jsts", <<code1, Blank>>),
     File("go", <<Open, Close, code1, Blank>>),
     File("other", <<comment, code1, Blank>>),
     File("other", <<comment, Blank>>)}

=============================================================================

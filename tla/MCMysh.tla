------------------------------- MODULE MCMysh -------------------------------
(***************************************************************************)
(* Mysh on every script of three lines of these: lines that end well, that *)
(* redirect a descriptor twice, that fail in one of the ways there are.    *)
(***************************************************************************)
EXTENDS Mysh

Word(name) == [form |-> "word", name |-> name]
Arg(form) == [form |-> form, name |-> "f"]

Lines ==
  { <<>>,
    <<[form |-> "#", name |-> ""]>>,
    <<Word("pwd")>>,
    <<Word("nosuch"), Arg(">")>>,
    <<Word("ls"), Arg(">"), Arg("2>"), Arg(">>")>>,
    <<Word("ls"), Word("a"), Word("b"), Arg("<")>>,
    <<Word("ls"), Arg(">"), Word("a"), Arg("<")>>,
    <<Word("ls"), Arg("2>>")>> }

MCScripts == {<<a, b, c>> : a \in Lines, b \in Lines, c \in Lines}

=============================================================================

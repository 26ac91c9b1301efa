----------------------------- MODULE MCCopyCat -----------------------------
(***************************************************************************)
(* CopyCat on files of one, two and no bytes and an input of three, called *)
(* with every choice of up to four arguments (options behind the inputs,   *)
(* without a value, with one that is no size; the output among the inputs) *)
(* and with some more.                                                     *)
(***************************************************************************)
EXTENDS CopyCat

MCContents ==
  [f \in {"a", "b", "empty", "out", "stdin", "-", "-o", "-b", "0", "1", "2", "-1", "9999"} |->
     CASE f = "a" -> <<1, 2>> [] f = "b" -> <<3>> [] f = "out" -> <<9>> [] f = "stdin" -> <<4, 5, 6>>
       [] OTHER -> <<>>]

MCAtoi == [v \in {"4096", "2", "1", "0", "-1", "9999"} |->
             CASE v = "4096" -> 4096 [] v = "2" -> 2 [] v = "1" -> 1 [] v = "0" -> 0
               [] v = "-1" -> -1 [] v = "9999" -> 9999]

Arguments == {"a", "out", "-", "-o", "-b", "2", "0"}

MCCommandLines ==
  UNION {[1 .. n -> Arguments] : n \in 0 .. 4} \cup
  { <<"-o", "out", "a", "-", "b", "-">>, <<"-b", "2", "-o", "out", "-", "a">>,
    <<"-o", "a", "-o", "out", "-b", "1", "b", "a">>, <<"a", "empty", "b", "a", "empty">>,
    <<"-b", "-1", "a", "b">>, <<"-b", "9999", "a">>, <<"-o", "out", "empty", "out", "b">> }

=============================================================================

------------------------------ MODULE MCWalker ------------------------------
(***************************************************************************)
(* Walker on three trees of five nodes below "top": one with a hidden      *)
(* directory, a link and a file of a group without a name, one that is     *)
(* deeper than the paths the code has room for, one that is flat.          *)
(***************************************************************************)
EXTENDS Walker

Below == {"a", "b", "c", "d", "e"}

TreeOf(above, directories, links, concealed, untyped) ==
  [above |-> [n \in Below \cup {"top"} |-> IF n = "top" THEN "top" ELSE above[n]],
   kind |-> [n \in Below \cup {"top"} |->
               IF n \in directories \cup {"top"} THEN "dir" ELSE IF n \in links THEN "link" ELSE "file"],
   hidden |-> [n \in Below \cup {"top"} |-> n \in concealed],
   grouped |-> [n \in Below \cup {"top"} |-> n # "e"],
   typed |-> [n \in Below \cup {"top"} |-> n \notin untyped],
   uid |-> [n \in Below \cup {"top"} |-> IF n \in {"b", "d"} THEN 2 ELSE 1],
   mtime |-> [n \in Below \cup {"top"} |-> IF n \in {"a", "b", "c"} THEN -1 ELSE 0]]

\* A uid, a name, a uid that is nobody's, and 0, which is read as a name.
MCUserFilters == {"1", "other", "9", "0"}
MCatoi == [u \in MCUserFilters |-> CASE u = "1" -> 1 [] u = "9" -> 9 [] OTHER -> 0]
MCgetpwnam == [u \in MCUserFilters |-> IF u = "other" THEN 2 ELSE NoUser]

MCTimeFilters == {1, -1}

MCTrees ==
  { TreeOf([a |-> "top", b |-> "a", c |-> "a", d |-> "top", e |-> "d"], {"a", "d"}, {"b"}, {"d"}, {}),
    TreeOf([a |-> "top", b |-> "a", c |-> "b", d |-> "c", e |-> "b"], {"a", "b", "c"}, {}, {}, {}),
    TreeOf([a |-> "top", b |-> "top", c |-> "b", d |-> "b", e |-> "top"], {"a", "b"}, {"d"}, {"c"}, {"b"}) }

=============================================================================

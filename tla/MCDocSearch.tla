----------------------------- MODULE MCDocSearch -----------------------------
(* An index of two types, one inside the other, and four members.         *)
EXTENDS DocSearch

Term(mod, owner, word) ==
  [mod |-> mod, owner |-> owner, word |-> word, upper |-> mod = "#"]

List == TypeEntry(<<<<"list">>>>, 1, {"node"})
Node == TypeEntry(<<<<"list">>, <<"node">>>>, 2, {})

TheTypes == {List, Node}

(* list : List, and node : List::Node *)
NoArgs == <<>>
ListArgs == Term(None, None, "list") :> 1
NodeArgs == Term(None, None, "node") :> 1

TheMembers ==
  {MemberEntry(List, "instance_method", <<"node">>, 2, <<>>, NoArgs, {}),
   MemberEntry(Node, "constructor", <<"new">>, 3, <<"list">>, ListArgs, {}),
   MemberEntry(Node, "instance_method", <<"insert", "list">>, 0, <<"node">>,
               NodeArgs, {}),
   MemberEntry(Node, "constant", <<"size">>, 4, <<>>, NoArgs, {"node"})}

TheQueries ==
  [t \in {"", "list node", "List#node ::node", "new list list::node",
         "0"} |->
    CASE t = "" -> <<>>
      [] t = "list node" -> <<Term(None, None, "list"), Term(None, None, "node")>>
      [] t = "List#node ::node" ->
           <<Term("#", "list", "node"), Term("::", None, "node")>>
      [] t = "new list list::node" ->
           <<Term(None, None, "new"), Term(None, None, "list"),
             Term("::", "list", "node")>>
      [] t = "0" -> <<Term(None, None, "0")>>]

TheTexts == DOMAIN TheQueries

TheLikeFalse == {"", "0"}
=============================================================================

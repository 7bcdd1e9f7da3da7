------------------------ MODULE MCJsonRpcTransactions ------------------------
(***************************************************************************)
(* Three sessions: a new item with a default, after which the page is left,*)
(* and a deletion at any moment of it; the form of an action filled in; a  *)
(* service created by a button that leaves the page at once.               *)
(***************************************************************************)
EXTENDS JsonRpcTransactions

CONSTANTS item, default, link, field

newItem == [first |-> {item}, then |-> {default}, leaves |-> "after"]
remove  == [first |-> {link}, then |-> {}, leaves |-> "never"]
fillIn  == [first |-> {field}, then |-> {}, leaves |-> "after"]
service == [first |-> {item}, then |-> {}, leaves |-> "at once"]

MCGestures == {newItem, remove, fillIn, service}

MCScenarios == {{newItem, remove}, {service}, {fillIn}}
==============================================================================

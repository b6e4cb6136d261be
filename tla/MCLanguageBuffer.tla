-------------------------- MODULE MCLanguageBuffer --------------------------
(* Model-checking instances of LanguageBuffer. *)
EXTENDS LanguageBuffer

(* A budget that allows what `some` says and nothing else. *)
Only(some) == [op \in Ops |-> IF op \in DOMAIN some THEN some[op] ELSE 0]

(* Parsing and indenting. *)
Parsing ==
    Only([edit |-> 3, undo |-> 1, remote_edit |-> 1, selections |-> 1, language |-> 2,
          ranges |-> 1, wait |-> 1])

(* Saves that overlap, *)
Saving == Only([edit |-> 2, undo |-> 1, save |-> 2])

(* and that a reload meets. *)
Reloading == Only([edit |-> 1, undo |-> 1, save |-> 2, reload |-> 1])

(* Somebody else writes the file too. *)
Sharing ==
    Only([edit |-> 2, undo |-> 1, save |-> 1, reload |-> 1, reload_needed |-> 1, disk_write |-> 1])

(* Twice, and the buffer is reloaded by itself. *)
Following == Only([edit |-> 1, undo |-> 1, save |-> 1, reload_needed |-> 1, disk_write |-> 2])

(* A reload of a buffer that is parsed and indented. *)
Indenting == Only([edit |-> 1, language |-> 1, save |-> 1, reload |-> 1, disk_write |-> 1])

MCBudgets == {Parsing, Saving, Reloading, Sharing, Following, Indenting}
=============================================================================

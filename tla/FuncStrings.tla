---------------------------- MODULE FuncStrings ----------------------------
(***************************************************************************)
(* What KDSKBSENT and KDGKBSENT promise a program: every function key has  *)
(* a string of its own, which only its own request changes.                *)
(***************************************************************************)
CONSTANTS
  Functions,     \* the function keys
  Texts,         \* strings
  NULL           \* no string

VARIABLE strings \* strings[f]: the string of function key f

SetString(f) == strings'[f] \in Texts /\ strings' = [strings EXCEPT ![f] = strings'[f]]

Init == strings \in [Functions -> Texts \cup {NULL}]
Next == \E f \in Functions : SetString(f)
Spec == Init /\ [][Next]_strings
=============================================================================

---------------------------- MODULE StringTable ----------------------------
(***************************************************************************)
(* What an interner promises: one handle per string, chosen once and given *)
(* to everybody who asks, and after freezing a resolution of every handle  *)
(* that was given out back to its string.                                  *)
(***************************************************************************)
EXTENDS Naturals

CONSTANTS Strings, Handles

VARIABLES table, answers, resolution

vars == <<table, answers, resolution>>

Init == table = {} /\ answers = {} /\ resolution = {}

Assign(s, h) ==
  /\ \A p \in table : p[1] # s /\ p[2] # h
  /\ table' = table \cup {<<s, h>>}
  /\ UNCHANGED <<answers, resolution>>

Answer(p) ==
  /\ answers' = answers \cup {p}
  /\ UNCHANGED <<table, resolution>>

Freeze ==
  /\ resolution' = answers
  /\ UNCHANGED <<table, answers>>

Next ==
  \/ resolution = {} /\ \E s \in Strings, h \in Handles : Assign(s, h)
  \/ resolution = {} /\ \E p \in table : Answer(p)
  \/ Freeze

Spec == Init /\ [][Next]_vars
=============================================================================

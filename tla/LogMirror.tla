----------------------------- MODULE LogMirror ------------------------------
(***************************************************************************)
(* What the procurement consumer promises of one partition: the messages   *)
(* are settled strictly in the order of the log, each one once as far as   *)
(* the tables can tell, so that a row shows the newest settled event of    *)
(* its opportunity.  Once two processes have worked on the partition at    *)
(* the same time a row may show an older event again, and nothing else is  *)
(* given up.                                                               *)
(***************************************************************************)
EXTENDS Integers, Sequences

CONSTANTS Keys, Events

VARIABLES log, rows, deadLetters, persisted, overlapped

mirror == <<log, rows, deadLetters, persisted, overlapped>>

Init ==
  /\ log = <<>>
  /\ rows = [k \in Keys |-> 0]
  /\ deadLetters = {}
  /\ persisted = {}
  /\ overlapped = FALSE

Publish ==
  /\ \E e \in Events : log' = Append(log, e)
  /\ UNCHANGED <<rows, deadLetters, persisted, overlapped>>

\* o is the first message that is not settled.
IsNext(o) == o \in 1..Len(log) /\ persisted \cup deadLetters = 1..(o - 1)

Apply(o) ==
  /\ IsNext(o)
  /\ log[o].kind = "valid"
  /\ rows' = [rows EXCEPT ![log[o].key] = o]
  /\ persisted' = persisted \cup {o}
  /\ UNCHANGED <<log, deadLetters, overlapped>>

SetAside(o) ==
  /\ IsNext(o)
  /\ log[o].kind = "invalid"
  /\ deadLetters' = deadLetters \cup {o}
  /\ UNCHANGED <<log, rows, persisted, overlapped>>

Overlap ==
  /\ overlapped' = TRUE
  /\ UNCHANGED <<log, rows, deadLetters, persisted>>

Repeat(o) ==
  /\ overlapped
  /\ o \in persisted
  /\ rows' = [rows EXCEPT ![log[o].key] = o]
  /\ UNCHANGED <<log, deadLetters, persisted, overlapped>>

Next ==
  \/ Publish
  \/ Overlap
  \/ \E o \in 1..Len(log) : Apply(o) \/ SetAside(o) \/ Repeat(o)

Spec == Init /\ [][Next]_mirror
=============================================================================

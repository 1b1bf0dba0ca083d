------------------------------- MODULE Quota -------------------------------
(***************************************************************************)
(* What a limiter promises, whichever algorithm it runs: requests are      *)
(* decided one at a time, each admitted exactly when the history of        *)
(* admissions leaves room for it.  Nothing is ever forgotten, no request   *)
(* is refused while there is room, and a refusal costs nothing.  The       *)
(* promise binds for as long as binding says: until the clock is set back. *)
(***************************************************************************)
EXTENDS Integers

CONSTANTS Request, Room(_, _)

VARIABLES now, binding, admitted, verdict

Init ==
  /\ now = 0
  /\ binding \in BOOLEAN
  /\ admitted = {}
  /\ verdict = [allowed |-> TRUE, at |-> 0]

Tick ==
  /\ now' = now + 1
  /\ UNCHANGED <<binding, admitted, verdict>>

Admit(r) ==
  /\ Room(admitted, now)
  /\ admitted' = admitted \cup {[id |-> r, at |-> now]}
  /\ verdict' = [allowed |-> TRUE, at |-> now]
  /\ UNCHANGED <<now, binding>>

Refuse ==
  /\ ~Room(admitted, now)
  /\ verdict' = [allowed |-> FALSE, at |-> now]
  /\ UNCHANGED <<now, binding, admitted>>

Next == Tick \/ Refuse \/ \E r \in Request : Admit(r)

vars == <<now, binding, admitted, verdict>>

Spec == Init /\ [][binding' => Next]_vars
=============================================================================

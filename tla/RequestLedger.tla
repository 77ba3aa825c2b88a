--------------------------- MODULE RequestLedger ---------------------------
(***************************************************************************)
(* What the client services, WebSocket and REST, promise the code that     *)
(* makes requests: every call is held until its callback runs, and the     *)
(* callback runs at most once.  A call leaves "outstanding" only by being  *)
(* completed.                                                              *)
(***************************************************************************)
EXTENDS Naturals, Sequences

CONSTANTS
  Calls,      \* the identities of the calls
  Outcomes    \* what a callback can be given

VARIABLES
  issued,       \* calls made so far
  outstanding,  \* calls whose callback is still owed
  completions   \* for each call, the callbacks it has received, in order

ledgerVars == <<issued, outstanding, completions>>

Init ==
  /\ issued = {}
  /\ outstanding = {}
  /\ completions = [c \in Calls |-> <<>>]

\* The service takes the call and owes it a callback.
Accept(c) ==
  /\ c \in Calls \ issued
  /\ issued' = issued \cup {c}
  /\ outstanding' = outstanding \cup {c}
  /\ UNCHANGED completions

\* The service refuses the call and says so before it returns.
Refuse(c, outcome) ==
  /\ c \in Calls \ issued
  /\ issued' = issued \cup {c}
  /\ completions' = [completions EXCEPT ![c] = <<outcome>>]
  /\ UNCHANGED outstanding

\* The callback of an outstanding call runs.
Complete(c, outcome) ==
  /\ c \in outstanding
  /\ outstanding' = outstanding \ {c}
  /\ completions' = [completions EXCEPT ![c] = Append(@, outcome)]
  /\ UNCHANGED issued

Next ==
  \E c \in Calls :
    \/ Accept(c)
    \/ \E outcome \in Outcomes : Refuse(c, outcome) \/ Complete(c, outcome)

Spec == Init /\ [][Next]_ledgerVars
=============================================================================

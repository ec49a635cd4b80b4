------------------------------- MODULE Ledger -------------------------------
(***************************************************************************)
(* What the governance receipt log promises its callers, without saying    *)
(* how: a log that only grows, that holds at most one entry per action,    *)
(* and that answers every caller who asks about an action with the one     *)
(* entry the log holds for it.  ReceiptChain implements it.                *)
(***************************************************************************)
EXTENDS Naturals, Sequences

CONSTANTS
  Actions,    \* action identifiers
  AgentNames, \* agent names as the callers spell them
  Decisions   \* decisions a receipt can record

VARIABLES
  log,        \* the entries, oldest first
  answers     \* every entry ever handed back to a caller

vars == <<log, answers>>

Entry == [action: Actions, agent: AgentNames, decision: Decisions]

Logged(a) == \E i \in DOMAIN log : log[i].action = a

Init ==
  /\ log = <<>>
  /\ answers = {}

\* An action that is not in the log yet is recorded at its end.
Record(e) ==
  /\ ~Logged(e.action)
  /\ log' = Append(log, e)
  /\ UNCHANGED answers

\* A caller is handed an entry of the log.
Answer(i) ==
  /\ answers' = answers \cup {log[i]}
  /\ UNCHANGED log

Next ==
  \/ \E e \in Entry : Record(e)
  \/ \E i \in DOMAIN log : Answer(i)

Spec == Init /\ [][Next]_vars

=============================================================================

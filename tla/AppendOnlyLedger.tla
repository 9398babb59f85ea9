-------------------------- MODULE AppendOnlyLedger --------------------------
(***************************************************************************)
(* What the custody log promises its callers: calls are recorded one after *)
(* another, each at most once, nothing recorded is ever changed, and a     *)
(* caller is told the truth about its call.  A caller that dies is told    *)
(* nothing; its call may or may not have been recorded.                    *)
(***************************************************************************)
EXTENDS Sequences

CONSTANT Call

VARIABLES ledger,   \* the recorded calls, oldest first
          told      \* what the caller of each call has been told

Recorded(c) == \E i \in DOMAIN ledger : ledger[i] = c

Init == /\ ledger = << >>
        /\ told = [c \in Call |-> "nothing"]

Record(c) == /\ told[c] = "nothing"
             /\ ~Recorded(c)
             /\ ledger' = Append(ledger, c)
             /\ UNCHANGED told

Confirm(c) == /\ told[c] = "nothing"
              /\ Recorded(c)
              /\ told' = [told EXCEPT ![c] = "ok"]
              /\ UNCHANGED ledger

Refuse(c) == /\ told[c] = "nothing"
             /\ ~Recorded(c)
             /\ told' = [told EXCEPT ![c] = "error"]
             /\ UNCHANGED ledger

Next == \E c \in Call : Record(c) \/ Confirm(c) \/ Refuse(c)

Spec == Init /\ [][Next]_<<ledger, told>>
=============================================================================

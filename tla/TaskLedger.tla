----------------------------- MODULE TaskLedger -----------------------------
(***************************************************************************)
(* What the event queue and its workers promise together: an accepted      *)
(* event is started once, in the order of acceptance, is finished after it *)
(* was started, and the process ends only when every accepted event is     *)
(* finished.                                                               *)
(***************************************************************************)
EXTENDS Naturals, Sequences

CONSTANT Items

VARIABLES
    accepted,       \* the accepted events, in order
    started,        \* how many of them have been started
    active,         \* those that are being processed
    done,           \* those that are finished
    over            \* the process has ended

ledgerVars == <<accepted, started, active, done, over>>

LedgerInit ==
    /\ accepted = <<>>
    /\ started = 0
    /\ active = {}
    /\ done = {}
    /\ over = FALSE

Accept(x) ==
    /\ ~over
    /\ \A i \in DOMAIN accepted : accepted[i] # x
    /\ accepted' = Append(accepted, x)
    /\ UNCHANGED <<started, active, done, over>>

Start ==
    /\ started < Len(accepted)
    /\ started' = started + 1
    /\ active' = active \cup {accepted[started + 1]}
    /\ UNCHANGED <<accepted, done, over>>

Complete(x) ==
    /\ x \in active
    /\ active' = active \ {x}
    /\ done' = done \cup {x}
    /\ UNCHANGED <<accepted, started, over>>

End ==
    /\ started = Len(accepted)
    /\ active = {}
    /\ over' = TRUE
    /\ UNCHANGED <<accepted, started, active, done>>

LedgerNext ==
    \/ \E x \in Items : Accept(x) \/ Complete(x)
    \/ Start
    \/ End

LedgerSpec == LedgerInit /\ [][LedgerNext]_ledgerVars
=============================================================================

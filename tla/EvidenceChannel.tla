--------------------------- MODULE EvidenceChannel ---------------------------
(***************************************************************************)
(* What the evidence writer queue promises to the monitor, without its     *)
(* lock, its condition variables and its worker: a bounded channel that    *)
(* settles the accepted events one at a time, in order.  Each is persisted *)
(* until one fails; from then on nothing is accepted and what was accepted *)
(* is discarded, and counted.  A closed channel is drained when every      *)
(* accepted event is settled.                                              *)
(***************************************************************************)
EXTENDS Naturals, Sequences

CONSTANTS Events, Capacity

VARIABLES
    log,       \* the accepted events, in order
    settled,   \* how many of them were settled
    persisted, \* how many of those are known to be in the reports
    healthy,   \* no event failed
    open,      \* the channel was not closed
    drained    \* the close has completed

vars == <<log, settled, persisted, healthy, open, drained>>

Init ==
    /\ log = <<>>
    /\ settled = 0
    /\ persisted = 0
    /\ healthy = TRUE
    /\ open = TRUE
    /\ drained = FALSE

\* One event may be in the writer's hand besides the Capacity queued ones.
Accept(e) ==
    /\ open /\ healthy
    /\ Len(log) - settled <= Capacity
    /\ log' = Append(log, e)
    /\ UNCHANGED <<settled, persisted, healthy, open, drained>>

Persist ==
    /\ healthy /\ settled < Len(log)
    /\ settled' = settled + 1
    /\ persisted' = persisted + 1
    /\ UNCHANGED <<log, healthy, open, drained>>

Break ==
    /\ healthy /\ settled < Len(log)
    /\ settled' = settled + 1
    /\ healthy' = FALSE
    /\ UNCHANGED <<log, persisted, open, drained>>

Discard ==
    /\ ~healthy /\ settled < Len(log)
    /\ settled' = settled + 1
    /\ UNCHANGED <<log, persisted, healthy, open, drained>>

Close ==
    /\ open
    /\ open' = FALSE
    /\ UNCHANGED <<log, settled, persisted, healthy, drained>>

Drain ==
    /\ ~open /\ ~drained /\ settled = Len(log)
    /\ drained' = TRUE
    /\ UNCHANGED <<log, settled, persisted, healthy, open>>

Next ==
    \/ \E e \in Events : Accept(e)
    \/ Persist \/ Break \/ Discard
    \/ Close \/ Drain

SafeSpec == Init /\ [][Next]_vars

\* Settling never stops for good while there is something to settle.
Spec == SafeSpec /\ WF_vars(Persist \/ Break \/ Discard) /\ WF_vars(Drain)
=============================================================================

-------------------------- MODULE EditionLifecycle --------------------------
(***************************************************************************)
(* What an edition run promises to everybody who reads edition_runs: it    *)
(* moves only along _EDITION_TRANSITIONS (src/rss_zen/db.py), except that  *)
(* an operator may put a terminal edition back in the queue with           *)
(* edition-redeliver.  Several editions may move in one transaction,       *)
(* because a delivery claim covers a batch.                                *)
(*                                                                         *)
(* The detailed modules implement this one: DeliveryOutbox from "rendered" *)
(* and "degraded" onwards, EditionBuild up to "queued".                    *)
(***************************************************************************)

CONSTANT Editions

VARIABLE status

Status == { "planned", "refreshing", "selecting", "frozen", "editorial",
            "rendered", "degraded", "queued", "delivering", "delivered",
            "terminal" }

\* _EDITION_TRANSITIONS: the statuses each status may be left for.
Transitions ==
  [ planned    |-> {"refreshing"},
    refreshing |-> {"selecting", "degraded", "terminal"},
    selecting  |-> {"frozen", "degraded", "terminal"},
    frozen     |-> {"editorial", "rendered", "degraded", "terminal"},
    editorial  |-> {"rendered", "degraded", "terminal"},
    rendered   |-> {"queued"},
    degraded   |-> {"queued"},
    queued     |-> {"delivering", "terminal"},
    delivering |-> {"queued", "delivered", "terminal"},
    delivered  |-> {},
    terminal   |-> {} ]

\* The raw UPDATE of redeliver_terminal, which does not consult the table.
Redelivery(old, new) == old = "terminal" /\ new = "queued"

MayMove(old, new) == \/ new = old
                     \/ new \in Transitions[old]
                     \/ Redelivery(old, new)

Init == status \in [Editions -> {"planned", "rendered", "degraded"}]

Next == /\ status' \in [Editions -> Status]
        /\ \A e \in Editions : MayMove(status[e], status'[e])

Spec == Init /\ [][Next]_status

=============================================================================

------------------------------- MODULE MCPages --------------------------------
(* Small instances of Pages for TLC, and Format on bounded inputs. *)
EXTENDS Pages, Format, TLC

CONSTANTS short, long, orders

MCSamples == (short :> 2) @@ (long :> 3)
\* Format's definitions, on all statuses, and on the numbers around the borders
\* between units.
Around == UNION {b-120..b+120 : b \in {120, Hour, Day, 3 * Day, K, 10 * K, 11 * K, M, M + 5 * K}}

ASSUME FormatChecked ==
    /\ \A status \in 0..700 : FiltersPartition(status)
    /\ \A s \in Around : UptimeExact(s)
    /\ \A v \in Around : CompactIsClose(v)
    /\ \A v, w \in Around : CompactGrows(v, w)

MCDefault == <<"GET", orders>>

==============================================================================

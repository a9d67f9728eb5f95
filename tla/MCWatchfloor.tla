---------------------------- MODULE MCWatchfloor ----------------------------
(* One generated case and one that tick() may add, the first close to a     *)
(* severity threshold that decides whether the one filter box shows it.     *)
EXTENDS Watchfloor

CONSTANTS a, n

MCSeedIds == <<a>>
MCFreshIds == {n}
MCProfile ==
    [id \in {a, n} |->
        [tenant |-> "tenant-alpha", tactics |-> {"execution"},
         assignee |-> IF id = n THEN "j.nguyen" ELSE Null]]
MCSeedScore == [id \in {a, n} |-> IF id = a THEN 1400 ELSE 3600]
MCSeedStatus == [id \in {a, n} |-> IF id = a THEN "open" ELSE "investigating"]
MCDeltas == {150}
MCFilterOptions == {<<"severity", "low">>}
=============================================================================

---------------------------- MODULE MCAutomation ----------------------------
EXTENDS Automation

CONSTANTS r1, r2

OneShot == [trigger |-> "one_shot", cooldown |-> FALSE, max |-> None]
Twice == [trigger |-> "interval", cooldown |-> FALSE, max |-> 2]
Endless == [trigger |-> "interval", cooldown |-> FALSE, max |-> None]
Above(c) == [trigger |-> "gte", cooldown |-> c, max |-> None]
CrossUp(c) == [trigger |-> "cross_above", cooldown |-> c, max |-> 1]

(* One relayer and every fault, two relayers that keep running, two of     *)
(* which one may crash or lose a confirmation, two with calls to the table *)
(* that fail and claims that go stale at work, or one relayer with more    *)
(* due jobs than a tick may queue.                                         *)
OneOrTwo ==
    {[relayers |-> {r1}, jobs |-> {1}, faults |-> FaultClasses,
      kinds |-> {OneShot, Twice, Endless, Above(FALSE), CrossUp(FALSE)}],
     [relayers |-> {r1, r2}, jobs |-> {1}, faults |-> {},
      kinds |-> {OneShot, Twice, Endless, Above(FALSE), Above(TRUE)}],
     [relayers |-> {r1, r2}, jobs |-> {1}, faults |-> {"crash", "unconfirmed"},
      kinds |-> {OneShot}],
     [relayers |-> {r1, r2}, jobs |-> {1}, faults |-> {"claim", "patch", "record", "stall"},
      kinds |-> {OneShot}],
     [relayers |-> {r1}, jobs |-> {1, 2}, faults |-> {"unconfirmed"},
      kinds |-> {OneShot}]}

(* With two relayers the price stays as it was at the start: above the     *)
(* threshold both see the trigger met.                                     *)
UpkeepNext == Next /\ (Cardinality(crew.relayers) > 1 => UNCHANGED price)

UpkeepSpec == Init /\ [][UpkeepNext]_vars /\ Fairness

(* Two relayers without faults and a price job without a cooldown. *)
PricePair ==
    {[relayers |-> {r1, r2}, jobs |-> {1}, faults |-> {}, kinds |-> {Above(FALSE)}]}

(* One relayer without faults and one price job with a cooldown. *)
PriceJob ==
    {[relayers |-> {r1}, jobs |-> {1}, faults |-> {}, kinds |-> {Above(TRUE)}]}

(* One relayer and a broadcast whose confirmation times out. *)
Unconfirmed ==
    {[relayers |-> {r1}, jobs |-> {1}, faults |-> {"unconfirmed"}, kinds |-> {Endless}]}

=============================================================================

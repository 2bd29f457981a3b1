----------------------------- MODULE AtMostOnce -----------------------------
(***************************************************************************)
(* What a delivery pipeline of this system promises of each item it is     *)
(* given: the effect behind the item (a Telegram message, a handled job, a *)
(* published event) happens at most once; an item is reported done only    *)
(* after the effect; once reported done or dropped it stays so.  Nothing   *)
(* is promised about an item that waits: it may wait for ever, and the     *)
(* effect may have happened without a report.                              *)
(*                                                                         *)
(* One database commit can settle several items, so a step moves every     *)
(* item by one of the alternatives below or leaves it alone.               *)
(***************************************************************************)
EXTENDS Naturals

CONSTANTS Items

VARIABLES
    stage,    \* item -> where it is in its life
    effects   \* item -> how often its effect has happened

Stages == {"absent", "waiting", "done", "dropped"}
Final == {"done", "dropped"}

AbsInit ==
    /\ stage = [i \in Items |-> "absent"]
    /\ effects = [i \in Items |-> 0]

\* The alternatives of one item, from (s, n) to (t, m).
Submit(s, n, t, m)  == s = "absent" /\ t = "waiting" /\ m = n
Refuse(s, n, t, m)  == s = "absent" /\ t = "dropped" /\ m = n
Perform(s, n, t, m) == s = "waiting" /\ t = "waiting" /\ n = 0 /\ m = 1
Drop(s, n, t, m)    == s = "waiting" /\ t = "dropped" /\ m = n
Report(s, n, t, m)  == s = "waiting" /\ t = "done" /\ m = 1 /\ n \in {0, 1}
Rest(s, n, t, m)    == t = s /\ m = n

AbsNext ==
    /\ stage' \in [Items -> Stages]
    /\ effects' \in [Items -> {0, 1}]
    /\ \A i \in Items :
        \/ Submit(stage[i], effects[i], stage'[i], effects'[i])
        \/ Refuse(stage[i], effects[i], stage'[i], effects'[i])
        \/ Perform(stage[i], effects[i], stage'[i], effects'[i])
        \/ Drop(stage[i], effects[i], stage'[i], effects'[i])
        \/ Report(stage[i], effects[i], stage'[i], effects'[i])
        \/ Rest(stage[i], effects[i], stage'[i], effects'[i])

AbsSpec == AbsInit /\ [][AbsNext]_<<stage, effects>>
=============================================================================

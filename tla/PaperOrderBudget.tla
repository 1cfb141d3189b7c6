-------------------------- MODULE PaperOrderBudget --------------------------
(***************************************************************************)
(* What durable paper trading promises about one run's order budget, with  *)
(* none of its machinery: every order the venue may still execute is held  *)
(* against the budget, a hold is given back once, and only when the venue  *)
(* can execute nothing more and all it executed has been booked.           *)
(* PaperBroker implements it (module PaperBrokerProps).                    *)
(***************************************************************************)
EXTENDS Integers, FiniteSets

CONSTANTS Orders, MaxOpen, Qty

VARIABLES hold,    \* "free" before submission, then "held", then "settled"
          world,   \* "quiet": nothing at the venue; "live": it may execute; "closed"
          done,    \* quantity executed by the venue
          booked   \* quantity booked locally
bvars == <<hold, world, done, booked>>

Held == {o \in Orders : hold[o] = "held"}

BudgetTypeOK ==
    /\ hold \in [Orders -> {"free", "held", "settled"}]
    /\ world \in [Orders -> {"quiet", "live", "closed"}]
    /\ done \in [Orders -> 0 .. Qty]
    /\ booked \in [Orders -> 0 .. Qty]

BudgetInit ==
    /\ hold = [o \in Orders |-> "free"]
    /\ world = [o \in Orders |-> "quiet"]
    /\ done = [o \in Orders |-> 0]
    /\ booked = [o \in Orders |-> 0]

\* A new order enters the budget, within its limit.
Take(o) ==
    /\ hold[o] = "free" /\ Cardinality(Held) < MaxOpen
    /\ hold' = [hold EXCEPT ![o] = "held"]
    /\ UNCHANGED <<world, done, booked>>

\* Only a held order may come alive at the venue.
Enter(o) ==
    /\ hold[o] = "held" /\ world[o] = "quiet"
    /\ world' = [world EXCEPT ![o] = "live"]
    /\ UNCHANGED <<hold, done, booked>>

\* A live order executes some more, is closed, or both.
Execute(o) ==
    /\ world[o] = "live"
    /\ world' \in {world, [world EXCEPT ![o] = "closed"]}
    /\ \E q \in done[o] .. Qty : done' = [done EXCEPT ![o] = q]
    /\ UNCHANGED <<hold, booked>>

\* Executions are booked and orders settled, of several orders at once.
Final(o) == world[o] # "live" /\ booked'[o] = done[o]
Book ==
    /\ booked' \in [Orders -> 0 .. Qty]
    /\ hold' \in [Orders -> {"free", "held", "settled"}]
    /\ \A o \in Orders :
          /\ booked'[o] \in booked[o] .. done[o]
          /\ \/ hold'[o] = hold[o]
             \/ hold[o] = "held" /\ hold'[o] = "settled" /\ Final(o)
    /\ UNCHANGED <<world, done>>

BudgetNext == Book \/ \E o \in Orders : Take(o) \/ Enter(o) \/ Execute(o)
BudgetSpec == BudgetInit /\ [][BudgetNext]_bvars
=============================================================================

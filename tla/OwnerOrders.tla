----------------------------- MODULE OwnerOrders -----------------------------
(***************************************************************************)
(* What the owner of the hosted dashboard is promised for each order to    *)
(* the laptop, without calls, claims, histories and files.  An order that  *)
(* was never carried out may expire; any other is closed with the result   *)
(* of the last time it was carried out, and what the owner was told is     *)
(* final.  An order is carried out while it is open only: once, and once   *)
(* more for each death of the laptop's process, until more orders were     *)
(* carried out than it remembers (spilled).  Only when deaths and results  *)
(* it could not keep come on top of that may a result be out of date.      *)
(***************************************************************************)
EXTENDS Naturals

CONSTANTS Orders, Results, None, Expired

VARIABLES
  phase,    \* of each order, as its owner sees it
  told,     \* the result the owner was told, or that the order expired
  times,    \* how often it was carried out
  last,     \* the result of the last time
  spilled,  \* more orders were carried out than are remembered
  deaths,   \* times the process died
  unkept    \* results that could not be kept

vars == <<phase, told, times, last, spilled, deaths, unkept>>

Init ==
  /\ phase = [c \in Orders |-> "none"]
  /\ told = [c \in Orders |-> None] /\ last = [c \in Orders |-> None]
  /\ times = [c \in Orders |-> 0]
  /\ spilled = FALSE /\ deaths = 0 /\ unkept = 0

Give(c) ==
  /\ phase[c] = "none" /\ phase' = [phase EXCEPT ![c] = "open"]
  /\ UNCHANGED <<told, times, last, spilled, deaths, unkept>>

\* Nobody touched the orders in S, and their time has passed.
Expire(S) ==
  /\ \A c \in S : phase[c] = "open" /\ times[c] = 0
  /\ phase' = [c \in Orders |-> IF c \in S THEN "closed" ELSE phase[c]]
  /\ told' = [c \in Orders |-> IF c \in S THEN Expired ELSE told[c]]
  /\ UNCHANGED <<times, last, spilled, deaths, unkept>>

CarryOut(c) ==
  /\ phase[c] = "open"
  /\ spilled' \in {spilled, TRUE} /\ (times[c] <= deaths \/ spilled')
  /\ times' = [times EXCEPT ![c] = @ + 1]
  /\ \E r \in Results : last' = [last EXCEPT ![c] = r]
  /\ UNCHANGED <<phase, told, deaths, unkept>>

Dated == spilled /\ deaths > 0 /\ unkept > 0

Tell(c) ==
  /\ phase[c] = "open" /\ times[c] > 0
  /\ phase' = [phase EXCEPT ![c] = "closed"]
  /\ \E r \in Results : /\ r = last[c] \/ Dated
                        /\ told' = [told EXCEPT ![c] = r]
  /\ UNCHANGED <<times, last, spilled, deaths, unkept>>

Die  == deaths' = deaths + 1 /\ UNCHANGED <<phase, told, times, last, spilled, unkept>>
Lose == unkept' = unkept + 1 /\ UNCHANGED <<phase, told, times, last, spilled, deaths>>

Next ==
  \/ \E c \in Orders : Give(c) \/ CarryOut(c) \/ Tell(c)
  \/ \E S \in SUBSET Orders : Expire(S)
  \/ Die \/ Lose

Spec == Init /\ [][Next]_vars
=============================================================================

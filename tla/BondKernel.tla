------------------------------ MODULE BondKernel ------------------------------
(***************************************************************************)
(* The kernel's bonding driver as the configuration programs use it: the   *)
(* files under /sys/class/net/<bond>/bonding, and the interface flags set  *)
(* by ioctl.  This is not code of the repository; it holds the rules that  *)
(* decide which writes are refused and in which order they have to come.   *)
(***************************************************************************)
EXTENDS Integers

CONSTANTS
  Bond,    \* the bond interface
  Ifs,     \* interfaces that may become slaves
  None     \* no interface

VARIABLES
  bond,       \* [mode, miimon, updelay, downdelay, use_carrier, primary, slaves]
  up,         \* interfaces (the bond's own included) that are up
  present,    \* slave interfaces that exist on this machine
  addressed   \* interfaces that were given the board's address

kernel == <<bond, up, present, addressed>>

DefaultBond ==
  [mode |-> 0, miimon |-> 0, updelay |-> 0, downdelay |-> 0, use_carrier |-> 1,
   primary |-> None, slaves |-> {}]

PrimaryModes == {1, 5, 6}   \* active-backup, balance-tlb, balance-alb

(* The delays are kept as multiples of the monitoring interval.            *)
Multiple(v, interval) == IF interval = 0 THEN 0 ELSE v \div interval
Rounded(v, interval)  == Multiple(v, interval) * interval

-----------------------------------------------------------------------------
(* What a write of value v to an option's file is refused for, and what it *)
(* does otherwise.                                                         *)

InRange(option, v) ==
  CASE option = "mode"        -> v \in 0 .. 6
    [] option = "use_carrier" -> v \in {0, 1}
    [] OTHER                  -> v >= 0

Accepts(option, v) ==
  CASE option = "mode"                     -> InRange(option, v) /\ bond.slaves = {} /\ Bond \notin up
    [] option \in {"miimon", "use_carrier"} -> InRange(option, v)
    [] option \in {"updelay", "downdelay"} -> InRange(option, v) /\ bond.miimon > 0
    [] option = "primary"                  -> bond.mode \in PrimaryModes
    [] option = "+slave"                   -> v \in present \ (up \cup bond.slaves)
    [] option = "-slave"                   -> v \in bond.slaves
    [] OTHER                               -> TRUE

Written(option, v) ==
  CASE option \in {"updelay", "downdelay"} ->
         [bond EXCEPT ![option] = Rounded(v, bond.miimon)]
    [] option = "miimon" ->
         [bond EXCEPT !.miimon = v, !.updelay   = Multiple(@, bond.miimon) * v,
                                    !.downdelay = Multiple(@, bond.miimon) * v]
    [] option = "+slave" -> [bond EXCEPT !.slaves = @ \cup {v}]
    [] option = "-slave" -> [bond EXCEPT !.slaves = @ \ {v}]
    [] OTHER             -> [bond EXCEPT ![option] = v]

(* Enslaving an interface brings it up, releasing it takes it down.        *)
UpAfter(option, v) ==
  CASE option = "+slave" -> up \cup {v}
    [] option = "-slave" -> up \ {v}
    [] OTHER             -> up
=============================================================================

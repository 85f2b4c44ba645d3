------------------------------- MODULE Bonding -------------------------------
(***************************************************************************)
(* A run of bonding1 or bonding0 from its command line to what the kernel  *)
(* holds afterwards: main (BondOptions), dev_bond_config_bond (BondConfig) *)
(* and the kernel's bond (BondKernel).  The machine is sound and the bond  *)
(* not in use; what failures do is in the runs of BondConfig.              *)
(***************************************************************************)
EXTENDS BondOptions

CONSTANTS
  Bond, Ifs, None   \* see BondKernel

ASSUME BondingAssumption ==
  /\ Default = Bond /\ Existing = Ifs \cup {Bond}
  /\ None = "" /\ Bond \notin Ifs /\ None \notin Ifs
  /\ \A a \in Args : a.opt \in {"m", "i", "u", "d", "c"} => a.arg \in Int

VARIABLES
  bond, up, present, addressed,   \* the kernel (BondKernel)
  cmd,                            \* what dev_bond_config_bond was called with
  cpc, i,                         \* where it is: "idle" before it is called
  faulty, running, reported, meddled

Config ==
  INSTANCE BondConfig WITH
    pc <- cpc, Programs <- Progs, Commands <- {}, Bonds <- {"fresh"},
    Missing <- {}, Faulty <- {FALSE}, Meddling <- 0

configuration == <<bond, up, present, addressed, cmd, cpc, i, faulty, running, reported, meddled>>

allvars == <<vars, configuration>>

-----------------------------------------------------------------------------
(* ifn, slave[], mode and if_add are passed, the rest is in variables of   *)
(* the file.                                                               *)
HandedOver ==
  [ifn |-> opts.base_if, slaves |-> opts.salves, mode |-> opts.bonding_mode,
   add |-> opts.add_flag = 1, miimon |-> opts.miimon, updelay |-> opts.updelay,
   downdelay |-> opts.downdelay, use_carrier |-> opts.use_carrier, primary |-> opts.primary]

Call ==
  /\ pc = "configure" /\ cpc = "idle"
  /\ cmd' = HandedOver
  /\ cpc' = Config!Order[1] /\ i' = 1
  /\ UNCHANGED <<vars, bond, up, present, addressed, faulty, running, reported, meddled>>

ConfigStep ==
  /\ Config!config_bond
  /\ UNCHANGED vars

Return ==
  /\ cpc = "done" /\ Configured
  /\ UNCHANGED configuration

(* --no_bonding with -b: the address is set before the program exits.      *)
ChooseIp ==
  /\ Choose /\ pc' = "ip_set"
  /\ Config!SetIfIp(opts.base_if)
  /\ UNCHANGED <<bond, present, cmd, cpc, i, faulty, running, meddled>>

ChooseOther ==
  /\ Choose /\ pc' # "ip_set"
  /\ UNCHANGED configuration

MainStep ==
  /\ getopt_loop \/ Free \/ StartPing
  /\ UNCHANGED configuration

BondingInit ==
  /\ Init
  /\ faulty = FALSE /\ running = FALSE /\ reported = FALSE /\ meddled = 0
  /\ cpc = "idle" /\ i = 1 /\ cmd = HandedOver
  /\ present = Ifs /\ bond = Config!DefaultBond /\ up = {} /\ addressed = {}

BondingExited == pc \in Ends /\ UNCHANGED allvars

BondingNext ==
  MainStep \/ ChooseIp \/ ChooseOther \/ Call \/ ConfigStep \/ Return \/ BondingExited

BondingSpec == BondingInit /\ [][BondingNext]_allvars

-----------------------------------------------------------------------------
(* The last -b, -m, ... of the command line, or what holds without it: its *)
(* argument, and the word main takes for it in -b and -p.                  *)
Last(o)               == args[CHOOSE n \in Places(o) : \A m \in Places(o) : m <= n]
LastOf(o, otherwise)   == IF Given(o) THEN Last(o).arg ELSE otherwise
LastWord(o, otherwise) == IF Given(o) THEN Last(o).word ELSE otherwise

(* The argument stands apart from its option.                              *)
Apart(o) == LastWord(o, None) = LastOf(o, None)

Added == {args[n].arg : n \in Places("a")}

(* -a without -r on the bond itself, with interfaces of the machine and    *)
(* numbers that the kernel knows; delays come with an interval, -p with a  *)
(* mode that has a primary; the names of -b and -p stand apart.            *)
Reasonable ==
  /\ Given("a") /\ ~Given("r") /\ LastOf("b", Bond) = Bond /\ Added \subseteq Ifs
  /\ Apart("b") /\ Apart("p")
  /\ Config!InRange("mode", LastOf("m", 0))
  /\ \A o \in DOMAIN NumberOf : Config!InRange(NumberOf[o], LastOf(o, 0))
  /\ Given("u") \/ Given("d") => LastOf("i", 0) > 0
  /\ Given("p") => LastOf("p", None) \in Ifs /\ LastOf("m", 0) \in Config!PrimaryModes

InForce ==
  /\ bond.slaves = Added /\ Added \cup {Bond} \subseteq up /\ addressed = {Bond}
  /\ bond.mode = LastOf("m", 0) /\ bond.miimon = LastOf("i", 0)
  /\ bond.updelay = Config!Rounded(LastOf("u", 0), bond.miimon)
  /\ bond.downdelay = Config!Rounded(LastOf("d", 0), bond.miimon)
  /\ bond.use_carrier = LastOf("c", 1) /\ bond.primary = LastOf("p", None)
  /\ reported <=> Cardinality(Added) < Times("a")

Untouched == bond = Config!DefaultBond /\ up = {} /\ addressed = {}

(* From the command line to the kernel: what bonding1 was asked to         *)
(* configure is in force when it comes to its check or its end, and it     *)
(* printed that the kernel refused something only if a slave was given     *)
(* twice; an interface given with --no_bonding has the address, and        *)
(* nothing else was done; the help text and a refusal of main leave the    *)
(* machine alone.  A name attached to -b (-bbond0) is not understood: main *)
(* looks for an interface named as the whole option, and while there is    *)
(* none it leaves the machine alone too, whatever else was asked for.      *)
CommandTakesEffect ==
  /\ pc \in {"quiet", "pinging"} /\ prog = "bonding1" /\ Reasonable => InForce
  /\ pc = "ip_set" =>
       /\ bond = Config!DefaultBond /\ up = addressed
       /\ Apart("b") => addressed = {LastOf("b", Bond)} \cap Existing
  /\ pc \in {"help", "no_name", "switched"} => Untouched
  /\ pc \in Ends /\ LastWord("b", Bond) \notin Existing => Untouched
=============================================================================

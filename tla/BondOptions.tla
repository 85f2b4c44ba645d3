----------------------------- MODULE BondOptions -----------------------------
(***************************************************************************)
(* main() of bonding1.c and of bonding0.c: the loop over the command line, *)
(* the choice of what to do, and the freeing of the slaves' names.  What   *)
(* is handed over to dev_bond_config_bond is in module Bonding, the check  *)
(* of the peers in module BondPing.                                        *)
(*                                                                         *)
(* The command line is chosen while it is read: args is what was read.     *)
(* The argument of an option is arg (optarg); word is the last word of the *)
(* option (argv[optind - 1]), which is the argument when it stands apart   *)
(* (-b bond0) and the whole option when it is attached (-bbond0).          *)
(***************************************************************************)
EXTENDS Integers, Sequences, FiniteSets

CONSTANTS
  Progs,     \* the programs: subset of {"bonding0", "bonding1"}
  Args,      \* the options a command line is made of: records [opt, arg, word]
  MaxArgs,   \* bound: how many of them
  Slotids,   \* values of the environment variable slotid, Unset among them
  Unset,
  Existing,  \* interfaces that exist
  Default    \* "bond0"

(* What both programs know, and what only bonding1 does.                   *)
Common   == {"no_bonding", "b", "a", "r", "m", "i", "u", "d", "c"}
NewFlags == {"switch", "no_ping", "no_switch"}

ASSUME OptionsAssumption ==
  /\ Progs \subseteq {"bonding0", "bonding1"}
  /\ MaxArgs \in Nat
  /\ \A a \in Args : a.opt \in Common \cup NewFlags \cup {"p", "unknown"}
  /\ Slotids \subseteq Nat \cup {Unset}

VARIABLES
  prog,              \* the program that runs (constant)
  args,              \* the options read so far
  opts,              \* the variables the options set, by their name in main
  dev_bond_slot_id,
  freed,             \* slots of salves that have been freed, from 1
  pc,                \* "parse", "choose", "configure", "free", "ping", and the ends
  probe              \* what ping() is started with

vars == <<prog, args, opts, dev_bond_slot_id, freed, pc, probe>>

Ends == {"help", "ip_set", "no_name", "switched", "quiet", "pinging"}

-----------------------------------------------------------------------------
(* The loop over getopt_long: one action per kind of option.               *)

(* A flag that bonding0 does not know makes getopt_long run past the end   *)
(* of long_opts, which has no last entry: such command lines are left out. *)
Parsing(kinds) ==
  /\ pc = "parse" /\ Len(args) < MaxArgs
  /\ \E a \in Args :
       /\ a.opt \in kinds /\ (prog = "bonding0" => a.opt \notin NewFlags)
       /\ args' = Append(args, a)
  /\ UNCHANGED <<prog, dev_bond_slot_id, freed, probe>>

Read == args'[Len(args')]   \* the option of this turn

Set(name, value) == opts' = [opts EXCEPT ![name] = value]

CountedOnce(o) == 1                                   \* fault: both options count alike
Weight(o)      == IF o = "no_bonding" THEN 2 ELSE 1   \* no_bondig += 2, no_bondig += 1

TakeNoBonding ==
  /\ Parsing({"no_bonding"})
  /\ Set("no_bondig", opts.no_bondig + Weight("no_bonding"))
  /\ UNCHANGED pc

(* back_switch on the interface known so far, and exit.                    *)
TakeSwitch ==
  /\ Parsing({"switch"})
  /\ pc' = "switched"
  /\ UNCHANGED opts

TakeFlag ==
  /\ Parsing({"no_ping", "no_switch"})
  /\ Set(Read.opt, 1)
  /\ UNCHANGED pc

(* base_if = argv[optind - 1], not optarg; so is primary.                  *)
TakeBond ==
  /\ Parsing({"b"})
  /\ opts' = [opts EXCEPT !.base_if = Read.word, !.no_bondig = @ + Weight("b")]
  /\ UNCHANGED pc

OnlyLast(name)  == <<name>>                    \* fault: salves[0] = strdup(optarg)
WithSlave(name) == Append(opts.salves, name)   \* salves[i++] = strdup(optarg)

(* -r of bonding0 does not touch no_ping.                                  *)
TakeSlave ==
  /\ Parsing({"a", "r"})
  /\ opts' = [opts EXCEPT !.add_flag = IF Read.opt = "a" THEN 1 ELSE 0,
                          !.salves   = WithSlave(Read.arg),
                          !.no_ping  = IF Read.opt = "r" /\ prog = "bonding1" THEN @ + 1 ELSE @]
  /\ UNCHANGED pc

TakeMode ==
  /\ Parsing({"m"})
  /\ Set("bonding_mode", Read.arg)
  /\ UNCHANGED pc

TakePrimary ==
  /\ Parsing({"p"}) /\ prog = "bonding1"
  /\ Set("primary", Read.word)
  /\ UNCHANGED pc

NumberOf == [i |-> "miimon", u |-> "updelay", d |-> "downdelay", c |-> "use_carrier"]

TakeNumber ==
  /\ Parsing(DOMAIN NumberOf)
  /\ Set(NumberOf[Read.opt], Read.arg)
  /\ UNCHANGED pc

TakeUnknown ==
  /\ Parsing({"unknown"} \cup (IF prog = "bonding0" THEN {"p"} ELSE {}))
  /\ pc' = "help"
  /\ UNCHANGED opts

SlotOf(slotid) == IF slotid = Unset THEN 0 ELSE IF slotid = 0 THEN 30 ELSE slotid

(* The loop ends, and the environment is read.                             *)
ParseEnds ==
  /\ pc = "parse"
  /\ \E slotid \in Slotids : dev_bond_slot_id' = SlotOf(slotid)
  /\ pc' = "choose"
  /\ UNCHANGED <<prog, args, opts, freed, probe>>

-----------------------------------------------------------------------------
NeedsHelp ==
  \/ opts.bonding_mode = -1 /\ opts.add_flag = 1
  \/ opts.salves = <<>> \/ opts.add_flag = -1

Choose ==
  /\ pc = "choose"
  /\ pc' = IF opts.no_bondig = 3 THEN "ip_set"
           ELSE IF opts.no_bondig = 2 THEN "no_name"
           ELSE IF NeedsHelp THEN "help"
           ELSE IF opts.base_if \in Existing THEN "configure" ELSE "free"
  /\ UNCHANGED <<prog, args, opts, dev_bond_slot_id, freed, probe>>

(* dev_bond_config_bond and dev_bond_set_if_ip have returned.              *)
Configured ==
  /\ pc = "configure"
  /\ pc' = "free"
  /\ UNCHANGED <<prog, args, opts, dev_bond_slot_id, freed, probe>>

(* bonding1: do free(salves[--i]) while (i); bonding0: free(salves[i--]),  *)
(* which starts at the empty slot behind the last name.                    *)
FirstFreedLate == Len(opts.salves) + 1 - Len(freed)  \* fault: bonding1 does as bonding0
NextFreed      == Len(opts.salves) - Len(freed) + (IF prog = "bonding0" THEN 1 ELSE 0)

AfterFree == IF prog = "bonding1" THEN "ping" ELSE "quiet"

Free ==
  /\ pc = "free"
  /\ freed' = Append(freed, NextFreed)
  /\ pc' = IF Len(freed) + 1 < Len(opts.salves) THEN "free" ELSE AfterFree
  /\ UNCHANGED <<prog, args, opts, dev_bond_slot_id, probe>>

StartPing ==
  /\ pc = "ping"
  /\ IF opts.no_ping # 0 THEN pc' = "quiet" /\ UNCHANGED probe
     ELSE /\ pc' = "pinging"
          /\ probe' = [ifn |-> opts.base_if, self |-> dev_bond_slot_id, no_switch |-> opts.no_switch]
  /\ UNCHANGED <<prog, args, opts, dev_bond_slot_id, freed>>

(* A mode of -1 is the empty string, a primary of "" is NULL.              *)
NothingGiven ==
  [base_if |-> Default, no_bondig |-> 0, no_ping |-> 0, no_switch |-> 0, add_flag |-> -1,
   salves |-> <<>>, bonding_mode |-> -1, primary |-> "",
   miimon |-> -1, updelay |-> -1, downdelay |-> -1, use_carrier |-> -1]

Init ==
  /\ prog \in Progs
  /\ args = <<>> /\ opts = NothingGiven /\ dev_bond_slot_id = 0
  /\ freed = <<>> /\ pc = "parse"
  /\ probe = [ifn |-> "", self |-> 0, no_switch |-> 0]

getopt_loop ==
  \/ TakeNoBonding \/ TakeSwitch \/ TakeFlag \/ TakeBond \/ TakeSlave \/ TakeMode
  \/ TakePrimary \/ TakeNumber \/ TakeUnknown \/ ParseEnds

main == getopt_loop \/ Choose \/ Configured \/ Free \/ StartPing

Exited == pc \in Ends /\ UNCHANGED vars

Next == main \/ Exited

Spec == Init /\ [][Next]_vars

-----------------------------------------------------------------------------
Places(o) == {n \in DOMAIN args : args[n].opt = o}
Times(o)  == Cardinality(Places(o))
Given(o)  == Places(o) # {}

(* What main does is what the command line asks for.  With -b and          *)
(* --no_bonding at most once each, the address is set for the two of them  *)
(* together, --no_bonding alone is refused, and nothing is configured with *)
(* it: their sum no_bondig tells the cases apart.  The configuration gets  *)
(* a slave, and a mode when slaves are added.  The check of the peers,     *)
(* which may move the bond to another slave, is started only by a command  *)
(* that adds slaves and removes none.                                      *)
ChoiceAsAsked ==
  /\ Times("b") <= 1 /\ Times("no_bonding") <= 1 =>
       /\ pc = "ip_set"    => Given("b") /\ Given("no_bonding")
       /\ pc = "no_name"   => ~Given("b") /\ Given("no_bonding")
       /\ pc = "configure" => ~Given("no_bonding")
  /\ pc = "configure" => Given("a") \/ Given("r")
  /\ pc = "configure" /\ ~Given("m") => Given("r")
  /\ pc = "pinging"   => Given("a") /\ ~Given("r") /\ ~Given("no_ping")

(* No copy of a slave's name is freed twice, nor the list overrun by more  *)
(* than the empty slot behind it; bonding1 frees every copy before the     *)
(* check is started, bonding0 all but the first.                           *)
NamesFreedOnce ==
  /\ \A m, n \in 1 .. Len(freed) : freed[m] = freed[n] => m = n
  /\ pc \in {"ping", "quiet", "pinging"} =>
       {freed[n] : n \in 1 .. Len(freed)} =
         IF prog = "bonding1" THEN 1 .. Len(opts.salves) ELSE 2 .. Len(opts.salves) + 1

(* "-a xx, add slave": a slave given with -a is not handed over to be      *)
(* removed.                                                                *)
AddOptionAdds ==
  pc = "configure" =>
    \A n \in Places("a") :
      \E m \in 1 .. Len(opts.salves) : opts.salves[m] = args[n].arg /\ opts.add_flag = 1
=============================================================================

------------------------------ MODULE BondConfig ------------------------------
(***************************************************************************)
(* dev_bond_config_bond and the setting of the bond's address in           *)
(* bonding1.c: the options are written one after the other, each slave is  *)
(* taken down, enslaved and brought up, then the primary is named and the  *)
(* bond gets its address.  bonding0.c, the older program, enslaves first   *)
(* and writes the options afterwards; it does not bring a slave up and     *)
(* knows no primary.  No step looks at what the step before returned: a    *)
(* refusal is printed and the next step is taken.                          *)
(*                                                                         *)
(* Beside the program a network manager may set interfaces up and down.    *)
(***************************************************************************)
EXTENDS BondKernel, Sequences, FiniteSets

CONSTANTS
  Programs,   \* the programs a behaviour may run: subset of {"bonding0", "bonding1"}
  Commands,   \* what main can hand over: see Command
  Bonds,      \* what the bond may be at the start: "fresh" or "running"
  Missing,    \* interfaces that may not exist on a faulty machine
  Faulty,     \* subset of BOOLEAN: whether the machine may be faulty
  Meddling    \* bound: how often the network manager sets an interface up or down

VARIABLES
  prog, cmd, \* the program and what main hands over to dev_bond_config_bond
  faulty,    \* writes may fail, interfaces be missing, the manager meddle
  running,   \* the bond was running already, with all interfaces and these options
  pc,        \* the option written next, "slaves", "enslave", "raise", "primary", "ip", "done"
  i,         \* slave[i], from 1
  reported,  \* something was printed by DEBUG_PRINT
  meddled

given == <<prog, cmd, faulty, running>>
vars  == <<kernel, given, pc, i, reported, meddled>>

Options == {"mode", "miimon", "updelay", "downdelay", "use_carrier"}

(* An option that is not given is -1; main shows the help text instead of  *)
(* adding slaves without a mode.                                           *)
Command ==
  {c \in [ifn : Ifs \cup {Bond}, mode : -1 .. 6, miimon : Int, updelay : Int,
          downdelay : Int, use_carrier : Int, primary : Ifs \cup {None},
          slaves : Seq(Ifs), add : BOOLEAN] : c.add => c.mode # -1}

ASSUME ConfigAssumption ==
  /\ Bond \notin Ifs /\ None \notin Ifs
  /\ Programs \subseteq {"bonding0", "bonding1"}
  /\ Commands \subseteq Command
  /\ Bonds \subseteq {"fresh", "running"}
  /\ Missing \subseteq Ifs
  /\ Faulty \subseteq BOOLEAN
  /\ Meddling \in Nat

SlaveSet == {cmd.slaves[n] : n \in 1 .. Len(cmd.slaves)}

-----------------------------------------------------------------------------
(* dev_bond_write_sysfs: open, write, and compare the number of bytes.     *)
(* There are no files to open when -b names another interface.             *)

RefusalUnseen == FALSE   \* fault: the result of write is not compared
RefusalSeen   == TRUE

WriteSysfs(option, v) ==
  \/ /\ cmd.ifn = Bond /\ Accepts(option, v)
     /\ bond' = Written(option, v) /\ up' = UpAfter(option, v)
     /\ UNCHANGED reported
  \/ /\ cmd.ifn # Bond \/ ~Accepts(option, v) \/ faulty
     /\ reported' = (reported \/ RefusalSeen)
     /\ UNCHANGED <<bond, up>>

(* getifaddrs fails, or the list has the name or not.                      *)
dev_bond_if_exist(ifn) ==
  (IF ifn \in present THEN {0} ELSE {1}) \cup (IF faulty THEN {-1} ELSE {})

(* dev_bond_if_up_down: reads the flags and writes them back.              *)
IfUpDown(ifn, to) ==
  \/ /\ ifn \in present
     /\ up' = IF to THEN up \cup {ifn} ELSE up \ {ifn}
     /\ UNCHANGED reported
  \/ /\ ifn \notin present \/ faulty
     /\ reported' = TRUE /\ UNCHANGED up

(* dev_bond_set_if_ip: the address, then the flag IFF_UP; the first ioctl  *)
(* that fails is the last.                                                 *)
SetIfIp(ifn) ==
  \/ /\ ifn \in present \cup {Bond}
     /\ addressed' = addressed \cup {ifn} /\ up' = up \cup {ifn}
     /\ UNCHANGED reported
  \/ /\ ifn \notin present \cup {Bond} \/ faulty
     /\ addressed' \in {addressed, addressed \cup ({ifn} \cap (present \cup {Bond}))}
     /\ reported' = TRUE /\ UNCHANGED up

-----------------------------------------------------------------------------
(* dev_bond_config_bond                                                    *)

(* Without -m the mode is the empty string, and it is written all the same:*)
(* no byte is taken and none was expected, unless the file cannot be       *)
(* opened.                                                                 *)
EmptyModeFails(option) ==
  /\ option = "mode" /\ cmd.mode = -1 /\ (faulty \/ cmd.ifn # Bond)
  /\ reported' = TRUE /\ UNCHANGED <<bond, up>>

Seq0 == <<"slaves", "mode", "miimon", "updelay", "downdelay", "use_carrier", "ip">>
Seq1 == <<"mode", "miimon", "updelay", "downdelay", "use_carrier", "slaves", "primary", "ip">>
DelayFirst ==  \* fault: the delays are written before the interval
  <<"mode", "updelay", "downdelay", "miimon", "use_carrier", "slaves", "primary", "ip">>

OrderDelayFirst == IF prog = "bonding0" THEN Seq0 ELSE DelayFirst
Order           == IF prog = "bonding0" THEN Seq0 ELSE Seq1

(* The step after the one named, in the order of the program that runs.    *)
After(step) == Order[1 + CHOOSE n \in DOMAIN Order : Order[n] = step]

WriteOption(option) ==
  /\ pc = option
  /\ \/ cmd[option] # -1 /\ WriteSysfs(option, cmd[option])
     \/ /\ cmd[option] = -1 /\ (option # "mode" \/ cmd.ifn = Bond)
        /\ UNCHANGED <<bond, up, reported>>
     \/ EmptyModeFails(option)
  /\ pc' = After(option)
  /\ UNCHANGED <<present, addressed, given, i, meddled>>

SlavesDone ==
  /\ pc = "slaves" /\ i > Len(cmd.slaves)
  /\ pc' = After("slaves")
  /\ UNCHANGED <<kernel, given, i, reported, meddled>>

AdvancedTwice == i + 2   \* fault: the loop counter is incremented in the body too
Advanced      == i + 1

(* After dev_bond_bonding_slave: bonding1 brings the slave up.             *)
SlaveHandled ==
  \/ prog = "bonding1" /\ pc' = "raise" /\ UNCHANGED i
  \/ prog = "bonding0" /\ pc' = "slaves" /\ i' = Advanced

(* dev_bond_bonding_slave, which does nothing to an interface that does    *)
(* not exist or cannot be looked for.                                      *)
SlaveAbsent ==
  /\ pc = "slaves" /\ i <= Len(cmd.slaves)
  /\ \E ret \in dev_bond_if_exist(cmd.slaves[i]) \ {0} : reported' = (reported \/ ret = -1)
  /\ SlaveHandled
  /\ UNCHANGED <<kernel, given, meddled>>

TakenDown == FALSE

SlaveDown ==
  /\ pc = "slaves" /\ i <= Len(cmd.slaves) /\ 0 \in dev_bond_if_exist(cmd.slaves[i])
  /\ IfUpDown(cmd.slaves[i], TakenDown)
  /\ pc' = "enslave"
  /\ UNCHANGED <<bond, present, addressed, given, i, meddled>>

Enslave ==
  /\ pc = "enslave"
  /\ WriteSysfs(IF cmd.add THEN "+slave" ELSE "-slave", cmd.slaves[i])
  /\ SlaveHandled
  /\ UNCHANGED <<present, addressed, given, meddled>>

LeftDown == FALSE   \* fault: the slave is not brought up again
Raised   == TRUE

Raise ==
  /\ pc = "raise"
  /\ IfUpDown(cmd.slaves[i], Raised)
  /\ i' = Advanced /\ pc' = "slaves"
  /\ UNCHANGED <<bond, present, addressed, given, meddled>>

Primary ==
  /\ pc = "primary"
  /\ \/ cmd.primary # None /\ WriteSysfs("primary", cmd.primary)
     \/ cmd.primary = None /\ UNCHANGED <<bond, up, reported>>
  /\ pc' = After("primary")
  /\ UNCHANGED <<present, addressed, given, i, meddled>>

SetIp ==
  /\ pc = "ip"
  /\ SetIfIp(cmd.ifn)
  /\ pc' = "done"
  /\ UNCHANGED <<bond, present, given, i, meddled>>

-----------------------------------------------------------------------------
Meddle ==
  /\ faulty /\ meddled < Meddling /\ pc # "done"
  /\ \E n \in present : up' = IF n \in up THEN up \ {n} ELSE up \cup {n}
  /\ meddled' = meddled + 1
  /\ UNCHANGED <<bond, present, addressed, given, pc, i, reported>>

Given(option) == IF cmd[option] = -1 THEN DefaultBond[option] ELSE cmd[option]

RunningBond ==
  [mode |-> Given("mode"), miimon |-> Given("miimon"),
   updelay |-> Rounded(Given("updelay"), Given("miimon")),
   downdelay |-> Rounded(Given("downdelay"), Given("miimon")),
   use_carrier |-> Given("use_carrier"), primary |-> cmd.primary,
   slaves |-> Ifs]

Legal == \A o \in Options : cmd[o] # -1 => InRange(o, cmd[o])

MachineInit ==
  IF running
  THEN Legal /\ present = Ifs /\ bond = RunningBond /\ up = Ifs \cup {Bond} /\ addressed = {Bond}
  ELSE /\ present \in {Ifs \ m : m \in SUBSET (IF faulty THEN Missing ELSE {})}
       /\ bond = DefaultBond /\ up \in SUBSET present /\ addressed = {}

Init ==
  /\ prog \in Programs /\ faulty \in Faulty
  /\ cmd \in {c \in Commands : prog = "bonding0" => c.primary = None}
  /\ running \in {b = "running" : b \in Bonds}
  /\ MachineInit
  /\ pc = Order[1] /\ i = 1 /\ reported = FALSE /\ meddled = 0

config_bond ==
  \/ \E option \in Options : WriteOption(option)
  \/ SlavesDone \/ SlaveAbsent \/ SlaveDown \/ Enslave \/ Raise
  \/ Primary \/ SetIp

Ending == pc = "done" /\ UNCHANGED vars

Next == config_bond \/ Meddle \/ Ending

Spec == Init /\ [][Next]_vars

-----------------------------------------------------------------------------
TypeOK ==
  /\ bond.mode \in 0 .. 6 /\ bond.miimon \in Nat
  /\ bond.slaves \subseteq Ifs
  /\ up \cup addressed \subseteq Ifs \cup {Bond} /\ present \subseteq Ifs
  /\ i \in 1 .. Len(cmd.slaves) + 1
  /\ reported \in BOOLEAN /\ meddled \in 0 .. Meddling

Asked(o) == IF o \in {"updelay", "downdelay"} THEN Rounded(cmd[o], bond.miimon) ELSE cmd[o]

OptionsInForce == \A o \in Options : cmd[o] # -1 => bond[o] = Asked(o)

SlavesInForce == IF cmd.add THEN SlaveSet \subseteq bond.slaves
                           ELSE SlaveSet \cap bond.slaves = {}

(* What a command asks for that the kernel can carry out: numbers it knows,*)
(* delays only with an interval, a primary only in a mode that has one;    *)
(* and bonding0, which does not bring a slave up, is given each one once.  *)
Feasible ==
  /\ cmd.ifn = Bond /\ Legal
  /\ cmd.updelay # -1 \/ cmd.downdelay # -1 => cmd.miimon > 0
  /\ cmd.primary # None => cmd.mode \in PrimaryModes
  /\ prog = "bonding0" =>
       \A m, n \in 1 .. Len(cmd.slaves) : cmd.slaves[m] = cmd.slaves[n] => m = n

AsAsked ==
  /\ OptionsInForce /\ SlavesInForce
  /\ cmd.primary # None => bond.primary = cmd.primary

(* With every interface present and nobody interfering, a command the      *)
(* kernel can carry out has the effect it asks for on a bond that is down: *)
(* bonding1 writes the options and the slaves in an order in which none is *)
(* refused, and bonding0 does so in the mode the bond has already.         *)
ConfiguredAsAsked ==
  pc = "done" /\ ~faulty /\ ~running /\ Feasible =>
    /\ prog = "bonding1" \/ cmd.mode \in {-1, DefaultBond.mode} => AsAsked
    /\ bond.slaves \cup {Bond} \subseteq up /\ addressed = {Bond}

(* Whatever fails or interferes, neither program ends silently with an     *)
(* option or a slave that is not in force, except that bonding0 skips a    *)
(* slave that does not exist without a word.                               *)
MissIsReported ==
  pc = "done" /\ ~(OptionsInForce /\ SlavesInForce) =>
    reported \/ (prog = "bonding0" /\ ~(SlaveSet \subseteq present))

(* Giving a command to the running bond of a sound machine takes down one  *)
(* slave at a time, so that a bond of two is never without one, and leaves *)
(* all of them up.                                                         *)
RerunKeepsBondUp ==
  running /\ prog = "bonding1" /\ ~faulty =>
    /\ Cardinality(bond.slaves \ up) <= 1
    /\ pc = "done" => bond.slaves \subseteq up

(* "Example 1: base_bonding -b bond0 -a eth0 -a eth1 -i 100 -m 1" of the   *)
(* help text of bonding0.c has the effect it asks for.                     *)
Example1Works == pc = "done" /\ ~faulty /\ ~running => AsAsked
=============================================================================

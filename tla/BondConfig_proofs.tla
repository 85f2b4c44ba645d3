-------------------------- MODULE BondConfig_proofs --------------------------
(***************************************************************************)
(* The configuration of the bond, for any interfaces, any commands and any *)
(* failures: what a program that does not look at what its steps return    *)
(* can still be relied on for.  IInv says what the steps taken so far have *)
(* left behind; there is a lemma for each step.                            *)
(***************************************************************************)
EXTENDS BondConfig, FiniteSetTheorems, TLAPS

-----------------------------------------------------------------------------
(* Why.  The inductive invariant: what the steps taken so far have         *)
(* left behind.                                                            *)

BondType ==
  [mode : 0 .. 6, miimon : Nat, updelay : Int, downdelay : Int, use_carrier : {0, 1},
   primary : Ifs \cup {None}, slaves : SUBSET Ifs]

Types ==
  /\ bond \in BondType
  /\ up \in SUBSET (Ifs \cup {Bond}) /\ addressed \in SUBSET (Ifs \cup {Bond})
  /\ present \in SUBSET Ifs
  /\ cmd \in Command /\ prog \in {"bonding0", "bonding1"}
  /\ faulty \in BOOLEAN /\ running \in BOOLEAN
  /\ reported \in BOOLEAN /\ meddled \in 0 .. Meddling

(* Where the loop counter is in each phase.                                *)
Place ==
  /\ i \in 1 .. Len(cmd.slaves) + 1
  /\ \/ pc \in Options /\ i = IF prog = "bonding0" THEN Len(cmd.slaves) + 1 ELSE 1
     \/ pc = "slaves"
     \/ pc = "enslave" /\ i <= Len(cmd.slaves)
     \/ pc = "raise" /\ prog = "bonding1" /\ i <= Len(cmd.slaves)
     \/ pc \in {"primary", "ip", "done"} /\ i = Len(cmd.slaves) + 1
  /\ prog = "bonding0" => cmd.primary = None /\ pc # "primary"

HandledOptions ==
  CASE pc = "mode"        -> {}
    [] pc = "miimon"      -> {"mode"}
    [] pc = "updelay"     -> {"mode", "miimon"}
    [] pc = "downdelay"   -> {"mode", "miimon", "updelay"}
    [] pc = "use_carrier" -> {"mode", "miimon", "updelay", "downdelay"}
    [] pc \in {"slaves", "enslave"} /\ prog = "bonding0" -> {}
    [] OTHER              -> Options

HandledSlaves == {cmd.slaves[n] : n \in 1 .. IF pc = "raise" THEN i ELSE i - 1}

(* Nothing was refused yet, or nothing can be.                             *)
Smooth    == ~faulty /\ ~running /\ Feasible
Unrefused == ~reported \/ (Smooth /\ (prog = "bonding1" \/ cmd.mode \in {-1, DefaultBond.mode}))

InForceSoFar ==
  Unrefused =>
    /\ \A o \in HandledOptions : cmd[o] # -1 => bond[o] = Asked(o)
    /\ \A s \in HandledSlaves :
         \/ s \in bond.slaves <=> cmd.add
         \/ s \notin present /\ (prog = "bonding0" \/ (pc = "raise" /\ s = cmd.slaves[i]))
    /\ Smooth /\ pc \in {"ip", "done"} /\ cmd.primary # None => bond.primary = cmd.primary

(* The one slave that the program has taken down and not yet brought up.   *)
Pending == IF pc \in {"enslave", "raise"} THEN {cmd.slaves[i]} ELSE {}

UpSoFar ==
  ~faulty =>
    /\ present = Ifs
    /\ prog = "bonding1" \/ Smooth => bond.slaves \ up \subseteq Pending
    /\ pc = "enslave" => cmd.slaves[i] \notin up

(* A bond that was down stays as it was until the steps come to it.        *)
FreshSoFar ==
  Smooth =>
    /\ bond.slaves \subseteq (IF cmd.add THEN HandledSlaves ELSE {})
    /\ IF pc = "done" THEN Bond \in up /\ addressed = {Bond} ELSE Bond \notin up /\ addressed = {}
    /\ "mode" \notin HandledOptions => bond.mode = DefaultBond.mode

IInv == Types /\ Place /\ InForceSoFar /\ UpSoFar /\ FreshSoFar

-----------------------------------------------------------------------------
(* The order of the two programs, one step after the other.                *)
LEMMA NextStep ==
  /\ prog = "bonding1" =>
       /\ Order[1] = "mode"              /\ After("mode") = "miimon"
       /\ After("miimon") = "updelay"    /\ After("updelay") = "downdelay"
       /\ After("downdelay") = "use_carrier"
       /\ After("use_carrier") = "slaves" /\ After("slaves") = "primary"
       /\ After("primary") = "ip"
  /\ prog = "bonding0" =>
       /\ Order[1] = "slaves"            /\ After("slaves") = "mode"
       /\ After("mode") = "miimon"       /\ After("miimon") = "updelay"
       /\ After("updelay") = "downdelay" /\ After("downdelay") = "use_carrier"
       /\ After("use_carrier") = "ip"
<1> DEFINE At(step) == CHOOSE n \in DOMAIN Order : Order[n] = step
<1>1. ASSUME prog = "bonding1", NEW k \in 1 .. 8
      PROVE  At(Seq1[k]) = k
  BY <1>1 DEF Order, Seq1
<1>2. ASSUME prog = "bonding0", NEW k \in 1 .. 7
      PROVE  At(Seq0[k]) = k
  BY <1>2 DEF Order, Seq0
<1>3. \A step : After(step) = Order[1 + At(step)]
  BY DEF After
<1> HIDE DEF At
<1>4. CASE prog = "bonding1"
  <2>1. \A k \in 1 .. 7 : After(Seq1[k]) = Seq1[1 + k]
    BY <1>1, <1>3, <1>4 DEF Order
  <2>2. QED
    BY <2>1, <1>4 DEF Seq1, Order
<1>5. CASE prog = "bonding0"
  <2>1. \A k \in 1 .. 6 : After(Seq0[k]) = Seq0[1 + k]
    BY <1>2, <1>3, <1>5 DEF Order
  <2>2. QED
    BY <2>1, <1>5 DEF Seq0, Order
<1>6. QED
  BY <1>4, <1>5

(* Nothing is handled yet; a running bond has what a legal command gives.  *)
LEMMA InitIInv == Init => IInv
<1> SUFFICES ASSUME Init PROVE IInv
  OBVIOUS
<1> USE ConfigAssumption DEF ConfigAssumption
<1>1. /\ cmd \in Command /\ prog \in {"bonding0", "bonding1"} /\ faulty \in BOOLEAN
      /\ running \in BOOLEAN /\ reported = FALSE /\ meddled = 0 /\ i = 1 /\ present \in SUBSET Ifs
      /\ prog = "bonding0" => cmd.primary = None
      /\ Len(cmd.slaves) \in Nat
  <2>1. cmd \in Command /\ (prog = "bonding0" => cmd.primary = None)
    BY DEF Init
  <2>2. Len(cmd.slaves) \in Nat
    BY <2>1 DEF Command
  <2>3. prog \in {"bonding0", "bonding1"} /\ faulty \in BOOLEAN /\ running \in BOOLEAN
    BY DEF Init
  <2>4. present \in SUBSET Ifs
    BY DEF Init, MachineInit
  <2>5. QED
    BY <2>1, <2>2, <2>3, <2>4 DEF Init
<1>2. pc = IF prog = "bonding0" THEN "slaves" ELSE "mode"
  BY <1>1, NextStep DEF Init
<1>3. ASSUME running
      PROVE  /\ bond \in BondType
             /\ up = Ifs \cup {Bond} /\ addressed = {Bond} /\ present = Ifs
  BY <1>1, <1>3 DEF Init, MachineInit, RunningBond, Legal, InRange, Options, Command, Given, DefaultBond,
        Rounded, Multiple, BondType
<1>4. ASSUME ~running
      PROVE  bond = DefaultBond /\ up \subseteq present /\ addressed = {} /\ (~faulty => present = Ifs)
  BY <1>4 DEF Init, MachineInit
<1>5. reported \in BOOLEAN
  BY <1>1
<1>6. meddled \in 0 .. Meddling
  BY <1>1
<1>7. Types
  <2>1. CASE running
    BY <1>1, <1>3, <1>5, <1>6, <2>1, Zenon DEF Types
  <2>2. CASE ~running
    <3>1. bond \in BondType
      BY <1>4, <2>2 DEF DefaultBond, BondType
    <3>2. QED
      BY <1>1, <1>4, <1>5, <1>6, <2>2, <3>1, Zenon DEF Types
  <2>3. QED
    BY <2>1, <2>2
<1>8. Place
  BY <1>1, <1>2 DEF Place, Options
<1>9. HandledOptions = {} /\ HandledSlaves = {}
  BY <1>1, <1>2 DEF HandledOptions, HandledSlaves
<1>10. InForceSoFar
  BY <1>2, <1>9 DEF InForceSoFar
<1>11. UpSoFar
  <2>1. bond.slaves \ up = {}
    BY <1>1, <1>3, <1>4 DEF DefaultBond, BondType
  <2>2. ~faulty => present = Ifs
    BY <1>3, <1>4
  <2>3. pc # "enslave"
    BY <1>2
  <2>4. QED
    BY <2>1, <2>2, <2>3 DEF UpSoFar
<1>12. FreshSoFar
  BY <1>1, <1>2, <1>4, <1>9 DEF FreshSoFar, Smooth, DefaultBond
<1>13. QED
  BY <1>7, <1>8, <1>10, <1>11, <1>12 DEF IInv

-----------------------------------------------------------------------------
(* What main hands over.                                                   *)
LEMMA CommandTypes ==
  ASSUME IInv
  PROVE  /\ cmd.mode \in -1 .. 6 /\ cmd.miimon \in Int /\ cmd.updelay \in Int
         /\ cmd.downdelay \in Int /\ cmd.use_carrier \in Int
         /\ cmd.primary \in Ifs \cup {None} /\ cmd.slaves \in Seq(Ifs) /\ Len(cmd.slaves) \in Nat
         /\ \A n \in 1 .. Len(cmd.slaves) : cmd.slaves[n] \in Ifs
         /\ \A n \in 1 .. Len(cmd.slaves) : cmd.slaves[n] # Bond
BY ConfigAssumption DEF ConfigAssumption, IInv, Types, Command

(* The write of an option changes that option only, the interval also the  *)
(* delays; what is not refused is in force afterwards.                     *)
LEMMA OptionKeeps ==
  ASSUME IInv, NEW option \in Options, WriteOption(option)
  PROVE  /\ up' = up /\ bond' \in BondType /\ reported' \in BOOLEAN /\ (reported => reported')
         /\ bond'.slaves = bond.slaves /\ bond'.primary = bond.primary
         /\ option # "mode" => bond'.mode = bond.mode
         /\ option # "miimon" => bond'.miimon = bond.miimon
         /\ option \notin {"miimon", "updelay"} => bond'.updelay = bond.updelay
         /\ option \notin {"miimon", "downdelay"} => bond'.downdelay = bond.downdelay
         /\ option # "use_carrier" => bond'.use_carrier = bond.use_carrier
         /\ /\ cmd[option] # -1
            /\ ~reported' \/ (~faulty /\ cmd.ifn = Bond /\ Accepts(option, cmd[option]))
            => bond'[option] = Asked(option)'
         /\ bond' = bond \/ Accepts(option, cmd[option])
<1>1. bond \in BondType /\ reported \in BOOLEAN
  BY DEF IInv, Types
<1>2. UNCHANGED cmd
  BY DEF WriteOption, given
<1>3. CASE UNCHANGED <<bond, up>> 
           /\ \/ cmd[option] = -1 /\ reported' \in {reported, TRUE}
              \/ reported' /\ (cmd.ifn # Bond \/ ~Accepts(option, cmd[option]) \/ faulty)
  BY <1>1, <1>2, <1>3
<1>4. CASE /\ cmd[option] # -1 /\ Accepts(option, cmd[option]) /\ UNCHANGED reported
           /\ bond' = Written(option, cmd[option]) /\ up' = UpAfter(option, cmd[option])
  <2>1. up' = up
    BY <1>4 DEF UpAfter, Options
  <2>2. CASE option = "mode"
    BY <1>1, <1>2, <1>4, <2>1, <2>2, CommandTypes DEF Accepts, InRange, Written, Asked, BondType
  <2>3. CASE option = "miimon"
    <3>1. /\ bond' = [bond EXCEPT !.miimon = cmd.miimon,
                               !.updelay = Multiple(@, bond.miimon) * cmd.miimon,
                               !.downdelay = Multiple(@, bond.miimon) * cmd.miimon]
          /\ cmd.miimon \in Nat
      BY <1>4, <2>3, CommandTypes DEF Accepts, InRange, Written
    <3>2. Multiple(bond.updelay, bond.miimon) \in Int /\ Multiple(bond.downdelay, bond.miimon) \in Int
      BY <1>1 DEF Multiple, BondType
    <3>3. \A m \in Int, n \in Nat : m * n \in Int
      OBVIOUS
    <3>4. QED
      BY <1>1, <1>2, <1>4, <2>1, <2>3, <3>1, <3>2, <3>3 DEF Asked, BondType
  <2>4. CASE option \in {"updelay", "downdelay"}
    <3>1. bond' = [bond EXCEPT ![option] = Rounded(cmd[option], bond.miimon)] /\ cmd[option] \in Int
      BY <1>4, <2>4, CommandTypes DEF Written
    <3>2. Rounded(cmd[option], bond.miimon) \in Int
      BY <1>1, <3>1 DEF Rounded, Multiple, BondType
    <3>3. QED
      BY <1>1, <1>2, <1>4, <2>1, <2>4, <3>1, <3>2 DEF Asked, BondType
  <2>5. CASE option = "use_carrier"
    BY <1>1, <1>2, <1>4, <2>1, <2>5, CommandTypes DEF Accepts, InRange, Written, Asked, BondType
  <2>6. QED
    BY <2>2, <2>3, <2>4, <2>5 DEF Options
<1>5. QED
  BY <1>3, <1>4 DEF WriteOption, WriteSysfs, EmptyModeFails, RefusalSeen

(* Where the program is after an option.                                   *)
LEMMA OptionPlace ==
  ASSUME IInv, NEW option \in Options, WriteOption(option)
  PROVE  /\ pc = option /\ Place' /\ UNCHANGED <<cmd, prog, faulty, running, present, addressed, i, meddled>>
         /\ HandledOptions' = HandledOptions \cup {option} /\ option \notin HandledOptions
         /\ HandledSlaves' = HandledSlaves
         /\ pc' \in Options \cup {"slaves", "ip"}
<1>1. pc = option /\ pc' = After(option)
      /\ UNCHANGED <<cmd, prog, faulty, running, present, addressed, i, meddled>>
  BY DEF WriteOption, given
<1>2. prog \in {"bonding0", "bonding1"} /\ Place /\ Len(cmd.slaves) \in Nat
  BY CommandTypes DEF IInv, Types
<1>3. /\ prog = "bonding1" /\ option = "use_carrier" => pc' = "slaves"
      /\ prog = "bonding0" /\ option = "use_carrier" => pc' = "ip"
      /\ option = "mode" => pc' = "miimon"
      /\ option = "miimon" => pc' = "updelay"
      /\ option = "updelay" => pc' = "downdelay"
      /\ option = "downdelay" => pc' = "use_carrier"
  BY <1>1, <1>2, NextStep
<1>4. Place'
  BY <1>1, <1>2, <1>3 DEF Place, Options
<1>5. HandledOptions' = HandledOptions \cup {option} /\ option \notin HandledOptions
  BY <1>1, <1>2, <1>3 DEF HandledOptions, Options
<1>6. HandledSlaves' = HandledSlaves
  <2>1. pc # "raise" /\ pc' # "raise"
    BY <1>1, <1>2, <1>3 DEF Options
  <2>2. HandledSlaves = {cmd.slaves[n] : n \in 1 .. i - 1}
    BY <2>1 DEF HandledSlaves
  <2>3. HandledSlaves' = {cmd'.slaves[n] : n \in 1 .. i' - 1}
    BY <2>1 DEF HandledSlaves
  <2>4. QED
    BY <1>1, <2>2, <2>3
<1>7. QED
  BY <1>1, <1>2, <1>3, <1>4, <1>5, <1>6 DEF Options

(* What is given does not change, nor what can be refused because of it.   *)
LEMMA GivenKept ==
  ASSUME UNCHANGED <<cmd, prog, faulty, running>>
  PROVE  (Smooth' <=> Smooth) /\ ((Unrefused' /\ (reported => reported')) => Unrefused)
<1>1. Feasible' <=> Feasible
  BY DEF Feasible, Legal, InRange
<1>2. Smooth' <=> Smooth
  BY <1>1 DEF Smooth
<1>3. QED
  BY <1>2 DEF Unrefused, DefaultBond

(* What the kernel can carry out is in force after its write even when an  *)
(* earlier step was refused: only bonding0's mode is refused, and the bond *)
(* has that mode already.                                                  *)
LEMMA OptionTaken ==
  ASSUME IInv, NEW option \in Options, WriteOption(option), Unrefused', reported',
         cmd[option] # -1
  PROVE  bond'[option] = Asked(option)'
<1>1. /\ pc = option /\ UNCHANGED <<cmd, prog, faulty, running>> /\ Unrefused
  BY OptionPlace, OptionKeeps, GivenKept
<1>2. /\ Smooth /\ cmd.ifn = Bond /\ ~faulty
      /\ InRange(option, cmd[option])
      /\ prog = "bonding1" \/ cmd.mode \in {-1, 0}
  BY <1>1, GivenKept DEF Unrefused, Smooth, Feasible, Legal, DefaultBond
<1>3. CASE Accepts(option, cmd[option])
  BY <1>2, <1>3, OptionKeeps
<1>4. CASE ~Accepts(option, cmd[option])
  <2>1. option = "mode"
    <3>1. ASSUME option \in {"updelay", "downdelay"}
          PROVE  bond.miimon > 0
      <4>1. cmd.miimon > 0
        BY <1>2, <3>1 DEF Smooth, Feasible
      <4>2. "miimon" \in HandledOptions
        BY <1>1, <3>1 DEF HandledOptions
      <4>3. bond.miimon = cmd.miimon
        BY <1>1, <4>1, <4>2, CommandTypes DEF IInv, InForceSoFar, Asked
      <4>4. QED
        BY <4>1, <4>3
    <3>2. QED
      BY <3>1, <1>2, <1>4 DEF Accepts, Options
  <2>2. bond.mode = 0 /\ cmd.mode = 0
    <3>1. Bond \notin up /\ bond.mode = 0 /\ bond.slaves \subseteq HandledSlaves
      BY <1>1, <1>2, <2>1 DEF IInv, FreshSoFar, HandledOptions, DefaultBond
    <3>2. prog = "bonding1" => HandledSlaves = {}
      BY <1>1, <2>1 DEF IInv, Place, HandledSlaves, Options
    <3>3. prog = "bonding0"
      BY <1>2, <1>4, <2>1, <3>1, <3>2 DEF Accepts, IInv, Types
    <3>4. QED
      BY <1>2, <2>1, <3>1, <3>3
  <2>3. UNCHANGED bond
    BY <1>4, OptionKeeps
  <2>4. QED
    BY <2>1, <2>2, <2>3, <1>1 DEF Asked
<1>5. QED
  BY <1>3, <1>4

(* The options: each is added to those in force and disturbs none of the   *)
(* earlier ones, because the interval is written before the delays.        *)
LEMMA OptionStep ==
  ASSUME IInv, NEW option \in Options, WriteOption(option)
  PROVE  IInv'
<1>1. /\ pc = option /\ UNCHANGED <<cmd, prog, faulty, running, present, addressed, i, meddled>>
      /\ HandledOptions' = HandledOptions \cup {option} /\ option \notin HandledOptions
      /\ HandledSlaves' = HandledSlaves /\ pc' \in Options \cup {"slaves", "ip"}
  BY OptionPlace
<1>2. /\ up' = up /\ bond' \in BondType /\ bond'.slaves = bond.slaves /\ bond'.primary = bond.primary
      /\ reported' \in BOOLEAN /\ (reported => reported')
  BY OptionKeeps
<1>3. (Smooth' <=> Smooth) /\ (Unrefused' => Unrefused)
  BY <1>1, <1>2, GivenKept
<1>4. Types'
  BY <1>1, <1>2 DEF IInv, Types, Command
<1>5. Place'
  BY OptionPlace
<1>6. InForceSoFar'
  <2> SUFFICES ASSUME Unrefused' PROVE InForceSoFar'
    BY DEF InForceSoFar
  <2>1. InForceSoFar /\ Unrefused
    BY <1>3 DEF IInv
  <2>2. ASSUME NEW o \in HandledOptions', cmd'[o] # -1
        PROVE  bond'[o] = Asked(o)'
    <3>1. CASE o = option
      BY <1>1, <2>2, <3>1, OptionKeeps, OptionTaken
    <3>2. CASE o # option
      <4>1. o \in HandledOptions /\ bond[o] = Asked(o)
        BY <1>1, <2>1, <2>2, <3>2 DEF InForceSoFar
      <4>2. bond'[o] = bond[o] /\ (o \in {"updelay", "downdelay"} => bond'.miimon = bond.miimon)
        BY <1>1, <3>2, <4>1, OptionKeeps DEF HandledOptions, Options
      <4>3. QED
        BY <1>1, <4>1, <4>2 DEF Asked, Rounded, Multiple
    <3>3. QED
      BY <3>1, <3>2
  <2>3. ASSUME NEW s \in HandledSlaves'
        PROVE  \/ s \in bond'.slaves <=> cmd'.add
               \/ s \notin present' /\ (prog' = "bonding0" \/ (pc' = "raise" /\ s = cmd'.slaves[i']))
    BY <1>1, <1>2, <2>1 DEF InForceSoFar, Options
  <2>4. Smooth' /\ pc' \in {"ip", "done"} /\ cmd'.primary # None => bond'.primary = cmd'.primary
    BY <1>1, NextStep, CommandTypes DEF IInv, Types, Place, WriteOption, Options
  <2>5. QED
    BY <2>2, <2>3, <2>4 DEF InForceSoFar
<1>7. UpSoFar'
  BY <1>1, <1>2, <1>3 DEF IInv, UpSoFar, Pending, Options
<1>8. FreshSoFar'
  BY <1>1, <1>2, <1>3, OptionKeeps DEF IInv, FreshSoFar, Options, DefaultBond
<1>9. QED
  BY <1>4, <1>5, <1>6, <1>7, <1>8 DEF IInv

-----------------------------------------------------------------------------
(* The loop over the slaves, after dev_bond_bonding_slave.                 *)
LEMMA SlaveCounted ==
  ASSUME IInv, pc \in {"slaves", "enslave"}, i <= Len(cmd.slaves), SlaveHandled,
         UNCHANGED <<cmd, prog>>
  PROVE  /\ HandledSlaves' = HandledSlaves \cup {cmd.slaves[i]}
         /\ HandledOptions' = HandledOptions
         /\ Place' /\ Pending' \subseteq {cmd.slaves[i]}
         /\ \/ prog = "bonding1" /\ pc' = "raise" /\ i' = i
            \/ prog = "bonding0" /\ pc' = "slaves" /\ i' = i + 1
<1>1. /\ i \in 1 .. Len(cmd.slaves) /\ Len(cmd.slaves) \in Nat /\ prog \in {"bonding0", "bonding1"}
      /\ prog = "bonding0" => cmd.primary = None
  BY CommandTypes DEF IInv, Types, Place
<1>2. \/ prog = "bonding1" /\ pc' = "raise" /\ i' = i
      \/ prog = "bonding0" /\ pc' = "slaves" /\ i' = i + 1
  BY DEF SlaveHandled, Advanced
<1>3. HandledSlaves = {cmd.slaves[n] : n \in 1 .. i - 1}
  BY DEF HandledSlaves
<1>4. HandledSlaves' = {cmd.slaves[n] : n \in 1 .. i}
  BY <1>1, <1>2 DEF HandledSlaves
<1>5. HandledSlaves' = HandledSlaves \cup {cmd.slaves[i]}
  <2>1. 1 .. i = (1 .. i - 1) \cup {i}
    BY <1>1
  <2>2. QED
    BY <2>1, <1>3, <1>4
<1>6. HandledOptions' = HandledOptions
  BY <1>1, <1>2 DEF HandledOptions
<1>7. Place' /\ Pending' \subseteq {cmd.slaves[i]}
  BY <1>1, <1>2 DEF Place, Pending
<1>8. QED
  BY <1>2, <1>5, <1>6, <1>7

(* The end of the loop over the slaves.                                    *)
LEMMA SlavesDoneStep == IInv /\ SlavesDone => IInv'
<1> SUFFICES ASSUME IInv, SlavesDone PROVE IInv'
  OBVIOUS
<1>1. /\ pc = "slaves" /\ pc' = After("slaves") /\ i' = i /\ i = Len(cmd.slaves) + 1
      /\ Len(cmd.slaves) \in Nat /\ prog \in {"bonding0", "bonding1"}
      /\ UNCHANGED <<bond, up, present, addressed, cmd, prog, faulty, running, reported, meddled>>
  BY CommandTypes DEF SlavesDone, given, kernel, IInv, Types, Place
<1>2. pc' = IF prog = "bonding0" THEN "mode" ELSE "primary"
  BY <1>1, NextStep
<1>3. HandledSlaves' = HandledSlaves /\ HandledOptions' = HandledOptions
  <2>1. HandledSlaves = {cmd.slaves[n] : n \in 1 .. i - 1}
    BY <1>1 DEF HandledSlaves
  <2>2. HandledSlaves' = {cmd'.slaves[n] : n \in 1 .. i' - 1}
    BY <1>2 DEF HandledSlaves
  <2>3. QED
    BY <1>1, <1>2, <2>1, <2>2 DEF HandledOptions
<1>4. (Smooth' <=> Smooth) /\ (Unrefused' => Unrefused)
  BY <1>1, GivenKept
<1>5. Types' /\ Place'
  BY <1>1, <1>2 DEF IInv, Types, Place, Options, Command
<1>6. InForceSoFar'
  BY <1>1, <1>2, <1>3, <1>4 DEF IInv, InForceSoFar, Asked, Rounded, Multiple
<1>7. UpSoFar' /\ FreshSoFar'
  BY <1>1, <1>2, <1>3, <1>4 DEF IInv, UpSoFar, FreshSoFar, Pending
<1>8. QED
  BY <1>5, <1>6, <1>7 DEF IInv

(* Only on a faulty machine is a slave not found.                          *)
LEMMA SlaveAbsentStep == IInv /\ SlaveAbsent => IInv'
<1> SUFFICES ASSUME IInv, SlaveAbsent PROVE IInv'
  OBVIOUS
<1> DEFINE s == cmd.slaves[i]
<1>1. /\ pc = "slaves" /\ i <= Len(cmd.slaves) /\ SlaveHandled /\ reported \in BOOLEAN
      /\ UNCHANGED <<bond, up, present, addressed, cmd, prog, faulty, running, meddled>>
  BY DEF SlaveAbsent, given, kernel, IInv, Types
<1>2. s \in Ifs
  BY <1>1, CommandTypes DEF IInv, Place
<1>3. faulty /\ reported' \in BOOLEAN /\ (reported => reported') /\ (reported' \/ s \notin present)
  BY <1>1, <1>2 DEF SlaveAbsent, dev_bond_if_exist, IInv, UpSoFar
<1>4. /\ HandledSlaves' = HandledSlaves \cup {s} /\ HandledOptions' = HandledOptions /\ Place'
      /\ prog = "bonding0" \/ (pc' = "raise" /\ i' = i)
      /\ pc' \in {"raise", "slaves"}
  BY <1>1, SlaveCounted
<1>5. ~Smooth' /\ (Unrefused' => Unrefused /\ s \notin present)
  BY <1>1, <1>3, GivenKept DEF Smooth, Unrefused
<1>6. Types'
  BY <1>1, <1>3 DEF IInv, Types, Command
<1>7. InForceSoFar'
  BY <1>1, <1>4, <1>5 DEF IInv, InForceSoFar, Asked, Rounded, Multiple
<1>8. UpSoFar' /\ FreshSoFar'
  BY <1>1, <1>3, <1>5 DEF UpSoFar, FreshSoFar
<1>9. QED
  BY <1>4, <1>6, <1>7, <1>8 DEF IInv

(* The slave that is taken down is the pending one.                        *)
LEMMA SlaveDownStep == IInv /\ SlaveDown => IInv'
<1> SUFFICES ASSUME IInv, SlaveDown PROVE IInv'
  OBVIOUS
<1> DEFINE s == cmd.slaves[i]
<1>1. /\ pc = "slaves" /\ pc' = "enslave" /\ i <= Len(cmd.slaves) /\ i' = i
      /\ UNCHANGED <<bond, present, addressed, cmd, prog, faulty, running, meddled>>
  BY DEF SlaveDown, given
<1>2. s \in Ifs /\ s # Bond
  BY <1>1, CommandTypes DEF IInv, Place
<1>3. /\ reported' \in BOOLEAN /\ (reported => reported')
      /\ up' \in {up, up \ {s}} /\ (~faulty => up' = up \ {s})
  <2>1. reported \in BOOLEAN /\ (~faulty => s \in present)
    BY <1>2 DEF IInv, Types, UpSoFar
  <2>2. \/ up' = up \ {s} /\ UNCHANGED reported
        \/ (s \notin present \/ faulty) /\ reported' = TRUE /\ UNCHANGED up
    BY DEF SlaveDown, IfUpDown, TakenDown
  <2>3. QED
    BY <2>1, <2>2
<1>4. HandledSlaves' = HandledSlaves /\ HandledOptions' = HandledOptions
  BY <1>1 DEF HandledSlaves, HandledOptions
<1>5. (Smooth' <=> Smooth) /\ (Unrefused' => Unrefused)
  BY <1>1, <1>3, GivenKept
<1>6. Types' /\ Place'
  BY <1>1, <1>3 DEF IInv, Types, Place, Options, Command
<1>7. InForceSoFar'
  BY <1>1, <1>4, <1>5 DEF IInv, InForceSoFar, Asked, Rounded, Multiple
<1>8. UpSoFar'
  BY <1>1, <1>3, <1>5 DEF IInv, UpSoFar, Pending
<1>9. FreshSoFar'
  BY <1>1, <1>2, <1>3, <1>4, <1>5 DEF IInv, FreshSoFar
<1>10. QED
  BY <1>6, <1>7, <1>8, <1>9 DEF IInv

(* bonding1 brings the pending slave up, or says that it cannot: an absent *)
(* slave that was skipped without a word is reported here.                 *)
LEMMA RaiseStep == IInv /\ Raise => IInv'
<1> SUFFICES ASSUME IInv, Raise PROVE IInv'
  OBVIOUS
<1> DEFINE s == cmd.slaves[i]
<1>1. /\ pc = "raise" /\ pc' = "slaves" /\ i' = i + 1 /\ prog = "bonding1" /\ i \in 1 .. Len(cmd.slaves)
      /\ UNCHANGED <<bond, present, addressed, cmd, prog, faulty, running, meddled>>
  BY CommandTypes DEF Raise, given, Advanced, IInv, Place, Options
<1>2. s \in Ifs /\ s # Bond /\ Len(cmd.slaves) \in Nat
  BY <1>1, CommandTypes
<1>3. /\ reported' \in BOOLEAN /\ (reported => reported')
      /\ up' \in {up, up \cup {s}} /\ (~faulty => up' = up \cup {s})
      /\ reported' \/ s \in present
  BY <1>1, <1>2 DEF Raise, IfUpDown, Raised, IInv, Types, UpSoFar
<1>4. HandledSlaves' = HandledSlaves /\ HandledOptions' = HandledOptions
  <2>1. HandledSlaves = {cmd.slaves[n] : n \in 1 .. i}
    BY <1>1 DEF HandledSlaves
  <2>2. HandledSlaves' = {cmd'.slaves[n] : n \in 1 .. i' - 1}
    BY <1>1 DEF HandledSlaves
  <2>3. QED
    BY <1>1, <2>1, <2>2 DEF HandledOptions
<1>5. (Smooth' <=> Smooth) /\ (Unrefused' => Unrefused)
  BY <1>1, <1>3, GivenKept
<1>6. Types' /\ Place'
  BY <1>1, <1>2, <1>3 DEF IInv, Types, Place, Options, Command
<1>7. Unrefused' => s \in present
  BY <1>1, <1>2, <1>3, <1>5 DEF Unrefused, Smooth, IInv, UpSoFar
<1>8. InForceSoFar'
  <2> SUFFICES ASSUME Unrefused' PROVE InForceSoFar'
    BY DEF InForceSoFar
  <2>1. InForceSoFar /\ Unrefused /\ s \in present
    BY <1>5, <1>7 DEF IInv
  <2>2. \A o \in HandledOptions' : cmd'[o] # -1 => bond'[o] = Asked(o)'
    BY <1>1, <1>4, <2>1 DEF InForceSoFar, Asked
  <2>3. \A t \in HandledSlaves :
          (t \in bond.slaves <=> cmd.add) \/ (t \notin present /\ prog = "bonding0")
    BY <1>1, <2>1 DEF InForceSoFar
  <2>4. QED
    BY <1>1, <1>4, <2>2, <2>3 DEF InForceSoFar
<1>9. UpSoFar'
  BY <1>1, <1>3, <1>5 DEF IInv, UpSoFar, Pending
<1>10. FreshSoFar'
  BY <1>1, <1>2, <1>3, <1>4, <1>5 DEF IInv, FreshSoFar
<1>11. QED
  BY <1>6, <1>8, <1>9, <1>10 DEF IInv

(* The write of +slave or -slave: a slave that is down and not yet of the  *)
(* bond is taken, and one that is refused is there already.                *)
LEMMA EnslaveStep == IInv /\ Enslave => IInv'
<1> SUFFICES ASSUME IInv, Enslave PROVE IInv'
  OBVIOUS
<1> DEFINE s == cmd.slaves[i]
           op == IF cmd.add THEN "+slave" ELSE "-slave"
<1>1. /\ pc = "enslave" /\ i \in 1 .. Len(cmd.slaves) /\ SlaveHandled
      /\ UNCHANGED <<present, addressed, cmd, prog, faulty, running, meddled>>
  BY DEF Enslave, given, IInv, Place, Options
<1>2. /\ s \in Ifs /\ s # Bond /\ bond \in BondType /\ reported \in BOOLEAN /\ cmd.add \in BOOLEAN
      /\ prog \in {"bonding0", "bonding1"} /\ up \subseteq Ifs \cup {Bond}
  BY <1>1, CommandTypes DEF IInv, Types, Command
<1>3. /\ HandledSlaves' = HandledSlaves \cup {s} /\ HandledOptions' = HandledOptions /\ Place'
      /\ Pending' \subseteq {s}
      /\ \/ prog = "bonding1" /\ pc' = "raise" /\ i' = i
         \/ prog = "bonding0" /\ pc' = "slaves" /\ i' = i + 1
  BY <1>1, SlaveCounted
<1>4. \/ /\ Accepts(op, s) /\ UNCHANGED reported
         /\ bond' = [bond EXCEPT !.slaves = IF cmd.add THEN @ \cup {s} ELSE @ \ {s}]
         /\ up' = IF cmd.add THEN up \cup {s} ELSE up \ {s}
      \/ /\ cmd.ifn # Bond \/ ~Accepts(op, s) \/ faulty
         /\ reported' /\ reported' \in BOOLEAN /\ UNCHANGED <<bond, up>>
  BY <1>2 DEF Enslave, WriteSysfs, Written, UpAfter, RefusalSeen
<1>5. Accepts(op, s) <=> IF cmd.add THEN s \in present \ (up \cup bond.slaves) ELSE s \in bond.slaves
  BY <1>2 DEF Accepts
<1>6. /\ reported' \in BOOLEAN /\ (reported => reported') /\ bond' \in BondType
      /\ up' \subseteq Ifs \cup {Bond}
      /\ \A f \in {"mode", "miimon", "updelay", "downdelay", "use_carrier", "primary"} : bond'[f] = bond[f]
      /\ \A t : t # s => (t \in bond'.slaves <=> t \in bond.slaves) /\ (t \in up' <=> t \in up)
      /\ ~cmd.add => bond'.slaves \subseteq bond.slaves
  <2>1. CASE UNCHANGED <<bond, up>> /\ reported' /\ reported' \in BOOLEAN
    BY <1>2, <2>1
  <2>2. CASE /\ UNCHANGED reported
             /\ bond' = [bond EXCEPT !.slaves = IF cmd.add THEN @ \cup {s} ELSE @ \ {s}]
             /\ up' = IF cmd.add THEN up \cup {s} ELSE up \ {s}
    BY <1>2, <2>2 DEF BondType
  <2>3. QED
    BY <1>4, <2>1, <2>2
<1>7. (Smooth' <=> Smooth) /\ (Unrefused' => Unrefused)
  BY <1>1, <1>6, GivenKept
<1>8. Smooth => /\ cmd.ifn = Bond /\ ~faulty /\ s \in present /\ s \notin up
                /\ (prog = "bonding0" => s \notin HandledSlaves)
  <2>1. Smooth /\ prog = "bonding0" =>
          \A m, n \in 1 .. Len(cmd.slaves) : cmd.slaves[m] = cmd.slaves[n] => m = n
    BY DEF Smooth, Feasible
  <2>2. HandledSlaves = {cmd.slaves[n] : n \in 1 .. i - 1}
    BY <1>1 DEF HandledSlaves
  <2>3. Smooth /\ prog = "bonding0" => s \notin HandledSlaves
    BY <1>1, <2>1, <2>2, CommandTypes
  <2>4. QED
    BY <1>1, <1>2, <2>3 DEF IInv, UpSoFar, Smooth, Feasible
<1>9. Unrefused' => (s \in bond'.slaves <=> cmd.add)
  <2>1. CASE Accepts(op, s) /\ bond' = [bond EXCEPT !.slaves = IF cmd.add THEN @ \cup {s} ELSE @ \ {s}]
    BY <1>2, <2>1 DEF BondType
  <2>2. CASE (cmd.ifn # Bond \/ ~Accepts(op, s) \/ faulty) /\ reported' /\ UNCHANGED bond
    <3> SUFFICES ASSUME Unrefused' PROVE s \in bond'.slaves <=> cmd.add
      OBVIOUS
    <3>1. Smooth
      BY <2>2, <1>7 DEF Unrefused
    <3>2. ~Accepts(op, s)
      BY <3>1, <2>2, <1>8
    <3>3. QED
      BY <3>1, <3>2, <1>2, <1>5, <1>8, <2>2
  <2>3. QED
    BY <1>4, <2>1, <2>2
<1>10. Types'
  BY <1>1, <1>6 DEF IInv, Types, Command
<1>11. InForceSoFar'
  <2> SUFFICES ASSUME Unrefused' PROVE InForceSoFar'
    BY DEF InForceSoFar
  <2>1. InForceSoFar /\ Unrefused /\ (s \in bond'.slaves <=> cmd.add)
    BY <1>7, <1>9 DEF IInv
  <2>2. \A o \in HandledOptions' : cmd'[o] # -1 => bond'[o] = Asked(o)'
    <3>1. HandledOptions \subseteq Options
      BY DEF HandledOptions, Options
    <3>2. QED
      BY <1>1, <1>3, <1>6, <2>1, <3>1 DEF InForceSoFar, Asked, Options, Rounded, Multiple
  <2>3. \A t \in HandledSlaves :
          (t \in bond.slaves <=> cmd.add) \/ (t \notin present /\ prog = "bonding0")
    BY <1>1, <2>1 DEF InForceSoFar
  <2>4. QED
    BY <1>1, <1>3, <1>6, <2>1, <2>2, <2>3 DEF InForceSoFar
<1>12. UpSoFar'
  <2> SUFFICES ASSUME ~faulty PROVE UpSoFar'
    BY <1>1 DEF UpSoFar
  <2>1. present = Ifs /\ (prog = "bonding1" \/ Smooth => bond.slaves \ up \subseteq {s})
    BY <1>1 DEF IInv, UpSoFar, Pending
  <2>2. prog = "bonding1" => Pending' = {s}
    BY <1>1, <1>3 DEF Pending
  <2>3. prog = "bonding1" \/ Smooth => bond'.slaves \ up' \subseteq {s}
    BY <1>6, <2>1
  <2>4. Smooth /\ prog = "bonding0" => s \notin bond'.slaves \ up'
    <3>1. Smooth => bond.slaves \subseteq (IF cmd.add THEN HandledSlaves ELSE {})
      BY DEF IInv, FreshSoFar
    <3>2. QED
      BY <1>2, <1>4, <1>5, <1>6, <1>8, <3>1
  <2>5. pc' # "enslave"
    BY <1>3
  <2>6. QED
    BY <1>1, <1>3, <1>7, <2>1, <2>2, <2>3, <2>4, <2>5 DEF UpSoFar
<1>13. FreshSoFar'
  <2> SUFFICES ASSUME Smooth PROVE FreshSoFar'
    BY <1>7 DEF FreshSoFar
  <2>1. /\ bond.slaves \subseteq (IF cmd.add THEN HandledSlaves ELSE {})
        /\ Bond \notin up /\ addressed = {}
        /\ "mode" \notin HandledOptions => bond.mode = DefaultBond.mode
    BY <1>1 DEF IInv, FreshSoFar
  <2>2. bond'.slaves \subseteq (IF cmd.add THEN HandledSlaves \cup {s} ELSE {})
    BY <1>6, <2>1
  <2>3. Bond \notin up' /\ bond'.mode = bond.mode
    BY <1>2, <1>6, <2>1
  <2>4. QED
    BY <1>1, <1>3, <2>1, <2>2, <2>3 DEF FreshSoFar, DefaultBond
<1>14. QED
  BY <1>3, <1>10, <1>11, <1>12, <1>13 DEF IInv

(* The primary is written in the mode that has one.                        *)
LEMMA PrimaryStep == IInv /\ Primary => IInv'
<1> SUFFICES ASSUME IInv, Primary PROVE IInv'
  OBVIOUS
<1>1. /\ pc = "primary" /\ pc' = "ip" /\ prog = "bonding1" /\ i = Len(cmd.slaves) + 1 /\ i' = i
      /\ UNCHANGED <<present, addressed, cmd, prog, faulty, running, meddled>>
  BY NextStep DEF Primary, given, IInv, Place, Types, Options
<1>2. bond \in BondType /\ reported \in BOOLEAN /\ cmd.primary \in Ifs \cup {None}
  BY CommandTypes DEF IInv, Types
<1>3. /\ up' = up /\ reported' \in BOOLEAN /\ (reported => reported')
      /\ \/ cmd.primary # None /\ bond' = [bond EXCEPT !.primary = cmd.primary]
         \/ bond' = bond
      /\ Smooth /\ cmd.primary # None => bond' = [bond EXCEPT !.primary = cmd.primary]
  <2>1. CASE cmd.primary = None
    BY <1>2, <2>1 DEF Primary
  <2>2. CASE cmd.primary # None
    <3>1. \/ /\ bond' = [bond EXCEPT !.primary = cmd.primary]
             /\ up' = up /\ UNCHANGED reported
          \/ /\ cmd.ifn # Bond \/ ~Accepts("primary", cmd.primary) \/ faulty
             /\ reported' = TRUE /\ UNCHANGED <<bond, up>>
      BY <1>2, <2>2 DEF Primary, WriteSysfs, Written, UpAfter, RefusalSeen
    <3>2. Smooth => cmd.ifn = Bond /\ ~faulty /\ Accepts("primary", cmd.primary)
      <4>1. Smooth => Unrefused /\ cmd.mode \in PrimaryModes /\ cmd.ifn = Bond /\ ~faulty
        BY <1>1, <2>2 DEF Smooth, Unrefused, Feasible
      <4>2. "mode" \in HandledOptions
        BY <1>1 DEF HandledOptions, Options
      <4>3. Smooth => bond.mode \in PrimaryModes
        BY <4>1, <4>2 DEF IInv, InForceSoFar, Asked, PrimaryModes
      <4>4. QED
        BY <4>1, <4>3 DEF Accepts
    <3>3. QED
      BY <1>2, <2>2, <3>1, <3>2
  <2>3. QED
    BY <2>1, <2>2
<1>4. /\ bond' \in BondType /\ (Smooth /\ cmd.primary # None => bond'.primary = cmd.primary)
      /\ \A f \in {"mode", "miimon", "updelay", "downdelay", "use_carrier", "slaves"} : bond'[f] = bond[f]
  BY <1>2, <1>3 DEF BondType
<1>5. HandledSlaves' = HandledSlaves /\ HandledOptions' = HandledOptions
  <2>1. HandledSlaves = {cmd.slaves[n] : n \in 1 .. i - 1}
    BY <1>1 DEF HandledSlaves
  <2>2. HandledSlaves' = {cmd'.slaves[n] : n \in 1 .. i' - 1}
    BY <1>1 DEF HandledSlaves
  <2>3. QED
    BY <1>1, <2>1, <2>2 DEF HandledOptions
<1>6. (Smooth' <=> Smooth) /\ (Unrefused' => Unrefused)
  BY <1>1, <1>3, GivenKept
<1>7. Types' /\ Place'
  BY <1>1, <1>3, <1>4 DEF IInv, Types, Place, Command
<1>8. InForceSoFar'
  <2> SUFFICES ASSUME Unrefused' PROVE InForceSoFar'
    BY DEF InForceSoFar
  <2>1. InForceSoFar /\ Unrefused
    BY <1>6 DEF IInv
  <2>2. \A o \in HandledOptions' : cmd'[o] # -1 => bond'[o] = Asked(o)'
    <3>1. HandledOptions \subseteq Options
      BY DEF HandledOptions, Options
    <3>2. QED
      BY <1>1, <1>4, <1>5, <2>1, <3>1 DEF InForceSoFar, Asked, Options, Rounded, Multiple
  <2>3. QED
    BY <1>1, <1>4, <1>5, <1>6, <2>1, <2>2 DEF InForceSoFar
<1>9. UpSoFar'
  BY <1>1, <1>3, <1>4, <1>6 DEF IInv, UpSoFar, Pending
<1>10. FreshSoFar'
  BY <1>1, <1>3, <1>4, <1>5, <1>6 DEF IInv, FreshSoFar, DefaultBond
<1>11. QED
  BY <1>7, <1>8, <1>9, <1>10 DEF IInv

(* The address, and with it the bond comes up.                             *)
LEMMA SetIpStep == IInv /\ SetIp => IInv'
<1> SUFFICES ASSUME IInv, SetIp PROVE IInv'
  OBVIOUS
<1>1. /\ pc = "ip" /\ pc' = "done" /\ i = Len(cmd.slaves) + 1 /\ i' = i
      /\ UNCHANGED <<bond, present, cmd, prog, faulty, running, meddled>>
  BY DEF SetIp, given, IInv, Place, Options
<1>2. cmd.ifn \in Ifs \cup {Bond} /\ reported \in BOOLEAN
  BY DEF IInv, Types, Command
<1>3. \/ /\ addressed' = addressed \cup {cmd.ifn} /\ up' = up \cup {cmd.ifn} /\ UNCHANGED reported
      \/ /\ cmd.ifn \notin present \cup {Bond} \/ faulty
         /\ addressed' \in {addressed, addressed \cup ({cmd.ifn} \cap (present \cup {Bond}))}
         /\ reported' = TRUE /\ up' = up
  BY DEF SetIp, SetIfIp
<1>4. /\ reported' \in BOOLEAN /\ (reported => reported')
      /\ up' \in {up, up \cup {cmd.ifn}}
      /\ addressed' \subseteq addressed \cup {cmd.ifn}
      /\ Smooth => up' = up \cup {Bond} /\ addressed' = addressed \cup {Bond}
  BY <1>2, <1>3 DEF Smooth, Feasible
<1>5. HandledSlaves' = HandledSlaves /\ HandledOptions' = HandledOptions
  <2>1. HandledSlaves = {cmd.slaves[n] : n \in 1 .. i - 1}
    BY <1>1 DEF HandledSlaves
  <2>2. HandledSlaves' = {cmd'.slaves[n] : n \in 1 .. i' - 1}
    BY <1>1 DEF HandledSlaves
  <2>3. QED
    BY <1>1, <2>1, <2>2 DEF HandledOptions
<1>6. (Smooth' <=> Smooth) /\ (Unrefused' => Unrefused)
  BY <1>1, <1>4, GivenKept
<1>7. Types' /\ Place'
  BY <1>1, <1>2, <1>4 DEF IInv, Types, Place, Command
<1>8. InForceSoFar'
  BY <1>1, <1>5, <1>6 DEF IInv, InForceSoFar, Asked, Rounded, Multiple
<1>9. UpSoFar'
  BY <1>1, <1>4, <1>6 DEF IInv, UpSoFar, Pending
<1>10. FreshSoFar'
  BY <1>1, <1>4, <1>5, <1>6 DEF IInv, FreshSoFar, DefaultBond
<1>11. QED
  BY <1>7, <1>8, <1>9, <1>10 DEF IInv

(* The network manager only acts where no claim is made about up.          *)
LEMMA MeddleStep == IInv /\ Meddle => IInv'
<1> SUFFICES ASSUME IInv, Meddle PROVE IInv'
  OBVIOUS
<1>1. /\ faulty /\ UNCHANGED <<bond, present, addressed, cmd, prog, faulty, running, pc, i, reported>>
      /\ meddled' = meddled + 1 /\ meddled < Meddling
      /\ up' \subseteq up \cup present
  BY DEF Meddle, given
<1>2. HandledSlaves' = HandledSlaves /\ HandledOptions' = HandledOptions
  BY <1>1 DEF HandledSlaves, HandledOptions
<1>3. ~Smooth' /\ (Unrefused' => Unrefused)
  BY <1>1, GivenKept DEF Smooth
<1>4. Types' /\ Place'
  BY <1>1, ConfigAssumption DEF ConfigAssumption, IInv, Types, Place, Options, Command
<1>5. InForceSoFar'
  BY <1>1, <1>2, <1>3 DEF IInv, InForceSoFar, Asked, Rounded, Multiple
<1>6. UpSoFar' /\ FreshSoFar'
  BY <1>1, <1>3 DEF UpSoFar, FreshSoFar
<1>7. QED
  BY <1>4, <1>5, <1>6 DEF IInv

(* A step that changes nothing.                                            *)
LEMMA StutterKeepsIInv == IInv /\ UNCHANGED vars => IInv'
<1> SUFFICES ASSUME IInv, UNCHANGED vars PROVE IInv'
  OBVIOUS
<1>1. UNCHANGED <<bond, up, present, addressed, cmd, prog, faulty, running, pc, i, reported, meddled>>
  BY DEF vars, given, kernel
<1>2. HandledSlaves' = HandledSlaves /\ HandledOptions' = HandledOptions
  BY <1>1 DEF HandledSlaves, HandledOptions
<1>3. (Smooth' <=> Smooth) /\ (Unrefused' => Unrefused)
  BY <1>1, GivenKept
<1>4. Types' /\ Place'
  BY <1>1 DEF IInv, Types, Place, Options, Command
<1>5. InForceSoFar'
  BY <1>1, <1>2, <1>3 DEF IInv, InForceSoFar, Asked, Rounded, Multiple
<1>6. UpSoFar' /\ FreshSoFar'
  BY <1>1, <1>2, <1>3 DEF IInv, UpSoFar, FreshSoFar, Pending
<1>7. QED
  BY <1>4, <1>5, <1>6 DEF IInv

(* Every step keeps the inductive invariant.                               *)
LEMMA IInvStep == IInv /\ [Next]_vars => IInv'
  BY OptionStep, SlavesDoneStep, SlaveAbsentStep, SlaveDownStep, EnslaveStep, RaiseStep, PrimaryStep,
     SetIpStep, MeddleStep, StutterKeepsIInv DEF Next, config_bond, Ending

(* So it holds in every state.                                             *)
THEOREM IInvAlways == Spec => []IInv
  BY InitIInv, IInvStep, PTL DEF Spec

(* The bond only ever holds values the kernel knows, and slave[i] is read  *)
(* inside the list of slaves, whatever command is handed over.             *)
THEOREM TypeCorrect == Spec => []TypeOK
<1>1. IInv => TypeOK
  BY DEF IInv, Types, Place, TypeOK, BondType
<1>2. QED
  BY <1>1, IInvAlways, PTL

(* Whatever fails, no option and no slave is missing at the end without a  *)
(* word, but for the slave that does not exist and bonding0 skips.         *)
THEOREM MissReported == Spec => []MissIsReported
<1>1. IInv => MissIsReported
  <2> SUFFICES ASSUME IInv, pc = "done", ~reported, ~(prog = "bonding0" /\ ~(SlaveSet \subseteq present))
      PROVE  OptionsInForce /\ SlavesInForce
    BY DEF MissIsReported
  <2>1. HandledOptions = Options /\ HandledSlaves = SlaveSet
    BY DEF HandledOptions, HandledSlaves, SlaveSet, IInv, Place, Options
  <2>2. Unrefused
    BY DEF Unrefused
  <2>3. OptionsInForce
    BY <2>1, <2>2 DEF IInv, InForceSoFar, OptionsInForce
  <2>4. \A s \in SlaveSet : s \in bond.slaves <=> cmd.add
    BY <2>1, <2>2 DEF IInv, InForceSoFar
  <2>5. QED
    BY <2>3, <2>4 DEF SlavesInForce, IInv, Types, Command
<1>2. QED
  BY <1>1, IInvAlways, PTL

(* A command given to a running bond never takes two slaves down at once,  *)
(* however many slaves there are and whatever the command names.           *)
THEOREM RerunSafe == Spec => []RerunKeepsBondUp
<1>1. IInv => RerunKeepsBondUp
  <2> SUFFICES ASSUME IInv, running, prog = "bonding1", ~faulty
      PROVE  /\ Cardinality(bond.slaves \ up) <= 1
             /\ pc = "done" => bond.slaves \subseteq up
    BY DEF RerunKeepsBondUp
  <2>1. bond.slaves \ up \subseteq Pending
    BY DEF IInv, UpSoFar
  <2>2. CASE bond.slaves \ up = {}
    <3>1. Cardinality({}) = 0
      BY FS_EmptySet
    <3>2. QED
      BY <2>2, <3>1
  <2>3. CASE bond.slaves \ up # {}
    <3>1. bond.slaves \ up = {cmd.slaves[i]} /\ pc # "done"
      BY <2>1, <2>3 DEF Pending
    <3>2. Cardinality({cmd.slaves[i]}) = 1
      BY FS_Singleton
    <3>3. QED
      BY <3>1, <3>2
  <2>4. QED
    BY <2>2, <2>3
<1>2. QED
  BY <1>1, IInvAlways, PTL

(* A command the kernel can carry out has its effect on a bond that is     *)
(* down, for any list of slaves and any legal numbers.                     *)
THEOREM ConfigEffective == Spec => []ConfiguredAsAsked
<1>1. IInv => ConfiguredAsAsked
  <2> SUFFICES ASSUME IInv, pc = "done", Smooth
      PROVE  /\ prog = "bonding1" \/ cmd.mode \in {-1, DefaultBond.mode} => AsAsked
             /\ bond.slaves \cup {Bond} \subseteq up /\ addressed = {Bond}
    BY DEF ConfiguredAsAsked, Smooth
  <2>1. bond.slaves \cup {Bond} \subseteq up /\ addressed = {Bond}
    BY DEF IInv, UpSoFar, FreshSoFar, Pending, Smooth, Types
  <2>2. ASSUME prog = "bonding1" \/ cmd.mode \in {-1, DefaultBond.mode}
        PROVE  AsAsked
    <3>1. Unrefused
      BY <2>2 DEF Unrefused
    <3>2. HandledOptions = Options /\ HandledSlaves = SlaveSet
      BY DEF HandledOptions, HandledSlaves, SlaveSet, IInv, Place, Options
    <3>3. OptionsInForce /\ (cmd.primary # None => bond.primary = cmd.primary)
      BY <3>1, <3>2 DEF IInv, InForceSoFar, OptionsInForce
    <3>4. SlaveSet \subseteq present
      BY CommandTypes DEF SlaveSet, IInv, UpSoFar, Smooth
    <3>5. \A s \in SlaveSet : s \in bond.slaves <=> cmd.add
      BY <3>1, <3>2, <3>4 DEF IInv, InForceSoFar
    <3>6. QED
      BY <3>3, <3>5 DEF AsAsked, SlavesInForce, IInv, Types, Command
  <2>3. QED
    BY <2>1, <2>2
<1>2. QED
  BY <1>1, IInvAlways, PTL

-----------------------------------------------------------------------------
(* What a command does not ask for, and what the kernel refuses.           *)

(* On a bond that was down, an option that is not given stays as it was.   *)
LeftAlone ==
  ~running =>
    /\ \A o \in Options : cmd[o] = -1 => bond[o] = DefaultBond[o]
    /\ cmd.primary = None => bond.primary = None

(* One of the first so many slaves has come before.                        *)
Repeated(count) == \E n \in 1 .. count : \E m \in 1 .. n - 1 : cmd.slaves[m] = cmd.slaves[n]

Offered == IF pc = "raise" THEN i ELSE i - 1

(* The one thing of a sound command to bonding1 that the kernel refuses is *)
(* to take a slave that it has already.                                    *)
RefusedTwice ==
  Smooth /\ prog = "bonding1" /\ cmd.add => (reported <=> Repeated(Offered))

EffectInv == IInv /\ LeftAlone /\ RefusedTwice

(* Before its first step on a sound machine whose bond is down.            *)
Untried ==
  /\ cmd \in Command /\ prog \in {"bonding0", "bonding1"} /\ (prog = "bonding0" => cmd.primary = None)
  /\ faulty = FALSE /\ running = FALSE /\ reported = FALSE /\ meddled = 0
  /\ present = Ifs /\ bond = DefaultBond /\ up = {} /\ addressed = {}
  /\ pc = Order[1] /\ i = 1

LEMMA UntriedEffect == Untried => EffectInv
<1> SUFFICES ASSUME Untried PROVE EffectInv
  OBVIOUS
<1>1. cmd \in Command /\ prog \in {"bonding0", "bonding1"} /\ Len(cmd.slaves) \in Nat
      /\ faulty = FALSE /\ running = FALSE /\ reported = FALSE /\ meddled = 0
      /\ present = Ifs /\ bond = DefaultBond /\ up = {} /\ addressed = {} /\ i = 1
      /\ (prog = "bonding0" => cmd.primary = None)
  BY DEF Untried, Command
<1>2. pc = IF prog = "bonding0" THEN "slaves" ELSE "mode"
  BY <1>1, NextStep DEF Untried
<1>3. Types
  <2>1. bond \in BondType
    BY <1>1 DEF DefaultBond, BondType
  <2>2. meddled \in 0 .. Meddling
    BY <1>1, ConfigAssumption DEF ConfigAssumption
  <2>3. up \in SUBSET (Ifs \cup {Bond}) /\ addressed \in SUBSET (Ifs \cup {Bond}) /\ present \in SUBSET Ifs
    BY <1>1
  <2>4. QED
    BY <1>1, <2>1, <2>2, <2>3, Zenon DEF Types
<1>4. Place
  BY <1>1, <1>2 DEF Place, Options
<1>5. HandledOptions = {} /\ HandledSlaves = {}
  BY <1>1, <1>2 DEF HandledOptions, HandledSlaves
<1>6. InForceSoFar
  BY <1>2, <1>5 DEF InForceSoFar
<1>7. UpSoFar
  <2>1. bond.slaves = {} /\ pc # "enslave"
    BY <1>1, <1>2 DEF DefaultBond
  <2>2. QED
    BY <1>1, <2>1 DEF UpSoFar
<1>8. FreshSoFar
  BY <1>1, <1>2, <1>5 DEF FreshSoFar, DefaultBond
<1>9. LeftAlone
  BY <1>1 DEF LeftAlone, DefaultBond
<1>10. RefusedTwice
  <2>1. Offered = 0
    BY <1>1, <1>2 DEF Offered
  <2>2. ~Repeated(0)
    BY DEF Repeated
  <2>3. QED
    BY <1>1, <2>1, <2>2 DEF RefusedTwice
<1>11. QED
  BY <1>3, <1>4, <1>6, <1>7, <1>8, <1>9, <1>10 DEF EffectInv, IInv

(* A step that leaves the bond as it is.                                   *)
LEMMA LeftAloneKept ==
  ASSUME LeftAlone, UNCHANGED <<cmd, running>>,
         \A o \in Options : cmd[o] = -1 => bond'[o] = bond[o],
         cmd.primary = None => bond'.primary = bond.primary
  PROVE  LeftAlone'
BY DEF LeftAlone, DefaultBond

LEMMA OptionLeavesAlone ==
  ASSUME IInv, LeftAlone, NEW option \in Options, WriteOption(option)
  PROVE  LeftAlone'
<1>1. UNCHANGED <<cmd, running>> /\ bond \in BondType /\ bond'.primary = bond.primary
  BY OptionKeeps DEF WriteOption, given, IInv, Types
<1>2. CASE cmd[option] = -1
  <2>1. bond' = bond
    BY <1>2 DEF WriteOption, EmptyModeFails
  <2>2. QED
    BY <1>1, <2>1, LeftAloneKept
<1>3. CASE cmd[option] # -1 /\ option # "miimon"
  <2>1. \A o \in Options : cmd[o] = -1 => bond'[o] = bond[o]
    BY <1>3, OptionKeeps DEF Options
  <2>2. QED
    BY <1>1, <2>1, LeftAloneKept
<1>4. CASE cmd[option] # -1 /\ option = "miimon"
  <2>1. \A o \in Options : cmd[o] = -1 /\ o \notin {"updelay", "downdelay"} => bond'[o] = bond[o]
    BY <1>4, OptionKeeps DEF Options
  <2>2. CASE bond' = bond
    BY <1>1, <2>2, LeftAloneKept
  <2>3. CASE bond' # bond
    <3>1. bond' = [bond EXCEPT !.miimon = cmd.miimon,
                               !.updelay = Multiple(@, bond.miimon) * cmd.miimon,
                               !.downdelay = Multiple(@, bond.miimon) * cmd.miimon]
      BY <1>4, <2>3 DEF WriteOption, WriteSysfs, Written, EmptyModeFails
    <3>2. bond'.updelay = Multiple(bond.updelay, bond.miimon) * cmd.miimon
          /\ bond'.downdelay = Multiple(bond.downdelay, bond.miimon) * cmd.miimon
      BY <1>1, <3>1 DEF BondType
    <3>3. Multiple(0, bond.miimon) = 0
      <4>1. bond.miimon \in Nat
        BY <1>1 DEF BondType
      <4>2. bond.miimon # 0 => 0 \div bond.miimon = 0
        BY <4>1
      <4>3. QED
        BY <4>1, <4>2 DEF Multiple
    <3>4. 0 * cmd.miimon = 0
      BY CommandTypes
    <3>5. (bond.updelay = 0 => bond'.updelay = 0) /\ (bond.downdelay = 0 => bond'.downdelay = 0)
      BY <3>2, <3>3, <3>4
    <3>6. ~running => /\ \A o \in Options : cmd[o] = -1 => bond'[o] = DefaultBond[o]
                      /\ cmd.primary = None => bond'.primary = None
      <4>1. DefaultBond.updelay = 0 /\ DefaultBond.downdelay = 0 /\ Options = {"mode", "miimon", "updelay", "downdelay", "use_carrier"}
        BY DEF DefaultBond, Options
      <4>2. QED
        BY <1>1, <2>1, <3>5, <4>1 DEF LeftAlone
    <3>7. QED
      BY <1>1, <3>6 DEF LeftAlone, DefaultBond
  <2>4. QED
    BY <2>2, <2>3
<1>5. QED
  BY <1>2, <1>3, <1>4

LEMMA LeftAloneStep == IInv /\ LeftAlone /\ [Next]_vars => LeftAlone'
<1> SUFFICES ASSUME IInv, LeftAlone, [Next]_vars PROVE LeftAlone'
  OBVIOUS
<1>1. bond \in BondType
  BY DEF IInv, Types
<1>2. CASE \E option \in Options : WriteOption(option)
  BY <1>2, OptionLeavesAlone
<1>3. CASE Enslave
  <2>1. bond' = bond \/ \E v : bond' = [bond EXCEPT !.slaves = v]
    BY <1>3 DEF Enslave, WriteSysfs, Written
  <2>2. \A o \in Options \cup {"primary"} : bond'[o] = bond[o]
    BY <1>1, <2>1 DEF BondType, Options
  <2>3. UNCHANGED <<cmd, running>>
    BY <1>3 DEF Enslave, given
  <2>4. QED
    BY <2>2, <2>3, LeftAloneKept
<1>4. CASE Primary
  <2>1. bond' = bond \/ (cmd.primary # None /\ \E v : bond' = [bond EXCEPT !.primary = v])
    BY <1>4 DEF Primary, WriteSysfs, Written
  <2>2. \A o \in Options : bond'[o] = bond[o]
    BY <1>1, <2>1 DEF BondType, Options
  <2>3. UNCHANGED <<cmd, running>> /\ (cmd.primary = None => bond' = bond)
    BY <1>4, <2>1 DEF Primary, given
  <2>4. QED
    BY <2>2, <2>3, LeftAloneKept
<1>5. CASE SlavesDone \/ SlaveAbsent \/ SlaveDown \/ Raise \/ SetIp \/ Meddle \/ UNCHANGED vars
  <2>1. UNCHANGED <<bond, cmd, running>>
    BY <1>5 DEF SlavesDone, SlaveAbsent, SlaveDown, Raise, SetIp, Meddle, vars, kernel, given
  <2>2. QED
    BY <2>1, LeftAloneKept
<1>6. QED
  BY <1>2, <1>3, <1>4, <1>5 DEF Next, config_bond, Ending

(* A step that neither offers a slave nor prints anything.                 *)
LEMMA RefusedKept ==
  ASSUME RefusedTwice, UNCHANGED <<cmd, prog, faulty, running>>,
         Smooth /\ prog = "bonding1" /\ cmd.add => Offered' = Offered /\ reported' = reported
  PROVE  RefusedTwice'
<1>1. Smooth' <=> Smooth
  BY GivenKept
<1>2. ASSUME Smooth, prog = "bonding1", cmd.add
      PROVE  reported' <=> Repeated(Offered)'
  <2>1. PICK count : count = Offered /\ count = Offered'
    BY <1>2
  <2>2. Repeated(Offered) <=> Repeated(Offered)'
    BY <2>1 DEF Repeated
  <2>3. QED
    BY <1>2, <2>2 DEF RefusedTwice
<1>3. QED
  BY <1>1, <1>2 DEF RefusedTwice

(* No option is refused.                                                   *)
LEMMA OptionNotRefused ==
  ASSUME IInv, NEW option \in Options, WriteOption(option), Smooth, prog = "bonding1"
  PROVE  reported' = reported
<1>1. pc = option /\ cmd.ifn = Bond /\ ~faulty /\ InForceSoFar /\ FreshSoFar /\ Unrefused
  BY DEF WriteOption, Smooth, Feasible, Unrefused, IInv
<1>2. CASE cmd[option] = -1
  BY <1>1, <1>2 DEF WriteOption, EmptyModeFails
<1>3. CASE cmd[option] # -1
  <2>1. InRange(option, cmd[option])
    BY <1>3 DEF Smooth, Feasible, Legal
  <2>2. option = "mode" => bond.slaves = {} /\ Bond \notin up
    <3>1. i = 1
      BY <1>1 DEF IInv, Place, Options
    <3>2. option = "mode" => HandledSlaves = {}
      BY <1>1, <3>1 DEF HandledSlaves
    <3>3. QED
      BY <1>1, <3>2 DEF FreshSoFar
  <2>3. option \in {"updelay", "downdelay"} => bond.miimon > 0
    <3> SUFFICES ASSUME option \in {"updelay", "downdelay"} PROVE bond.miimon > 0
      OBVIOUS
    <3>1. cmd.miimon > 0
      BY <1>3 DEF Smooth, Feasible
    <3>2. "miimon" \in HandledOptions
      BY <1>1 DEF HandledOptions
    <3>3. bond.miimon = cmd.miimon
      BY <1>1, <3>1, <3>2, CommandTypes DEF InForceSoFar, Asked
    <3>4. QED
      BY <3>1, <3>3
  <2>4. Accepts(option, cmd[option])
    BY <2>1, <2>2, <2>3 DEF Accepts, Options
  <2>5. QED
    BY <1>1, <1>3, <2>4 DEF WriteOption, WriteSysfs, EmptyModeFails
<1>4. QED
  BY <1>2, <1>3

(* Of the slaves, each that has come before.                               *)
LEMMA EnslaveRefused ==
  ASSUME IInv, RefusedTwice, Enslave
  PROVE  RefusedTwice'
<1>1. /\ pc = "enslave" /\ i \in 1 .. Len(cmd.slaves) /\ Len(cmd.slaves) \in Nat
      /\ UNCHANGED <<cmd, prog, faulty, running, present>>
  BY CommandTypes DEF Enslave, given, IInv, Place, Options
<1>2. Smooth' <=> Smooth
  BY <1>1, GivenKept
<1>3. ASSUME Smooth, prog = "bonding1", cmd.add
      PROVE  reported' <=> Repeated(Offered)'
  <2>1. pc' = "raise" /\ i' = i
    BY <1>3 DEF Enslave, SlaveHandled
  <2>2. Offered = i - 1 /\ Offered' = i
    BY <1>1, <2>1 DEF Offered
  <2>3. reported <=> Repeated(i - 1)
    BY <1>3, <2>2 DEF RefusedTwice
  <2>4. PICK s : s = cmd.slaves[i]
    OBVIOUS
  <2>5. s \in Ifs /\ s \notin up /\ present = Ifs /\ cmd.ifn = Bond /\ ~faulty
    BY <1>1, <1>3, <2>4, CommandTypes DEF IInv, UpSoFar, Smooth, Feasible
  <2>6. HandledSlaves = {cmd.slaves[n] : n \in 1 .. i - 1}
    BY <1>1 DEF HandledSlaves
  <2>7. \A t : t \in bond.slaves <=> t \in HandledSlaves
    <3>1. bond.slaves \subseteq HandledSlaves
      BY <1>3 DEF IInv, FreshSoFar
    <3>2. Unrefused
      BY <1>3 DEF Unrefused
    <3>3. \A t \in HandledSlaves : t \in Ifs
      BY <1>1, <2>6, CommandTypes
    <3>4. \A t \in HandledSlaves : t \in bond.slaves
      BY <1>1, <1>3, <2>5, <3>2, <3>3 DEF IInv, InForceSoFar
    <3>5. QED
      BY <3>1, <3>4
  <2>8. Accepts("+slave", s) <=> ~ \E m \in 1 .. i - 1 : cmd.slaves[m] = s
    <3>1. Accepts("+slave", s) <=> s \in present \ (up \cup bond.slaves)
      BY DEF Accepts
    <3>2. QED
      BY <2>5, <2>6, <2>7, <3>1
  <2>9. \/ Accepts("+slave", s) /\ reported' = reported
        \/ ~Accepts("+slave", s) /\ reported' = TRUE
    BY <1>3, <2>4, <2>5 DEF Enslave, WriteSysfs, RefusalSeen
  <2>10. Repeated(i)' <=> Repeated(i - 1) \/ \E m \in 1 .. i - 1 : cmd.slaves[m] = s
    <3>1. 1 .. i = (1 .. i - 1) \cup {i}
      BY <1>1
    <3>2. Repeated(i)' <=> \E n \in 1 .. i : \E m \in 1 .. n - 1 : cmd.slaves[m] = cmd.slaves[n]
      BY <1>1, <2>1 DEF Repeated
    <3>3. QED
      BY <2>4, <3>1, <3>2 DEF Repeated
  <2>11. Repeated(Offered)' <=> Repeated(i)'
    BY <1>1, <2>1, <2>2 DEF Repeated
  <2>12. QED
    BY <2>3, <2>8, <2>9, <2>10, <2>11
<1>4. QED
  BY <1>1, <1>2, <1>3 DEF RefusedTwice

LEMMA RefusedStep == IInv /\ RefusedTwice /\ [Next]_vars => RefusedTwice'
<1> SUFFICES ASSUME IInv, RefusedTwice, [Next]_vars PROVE RefusedTwice'
  OBVIOUS
<1>1. i \in Nat /\ prog \in {"bonding0", "bonding1"} /\ Len(cmd.slaves) \in Nat
  BY CommandTypes DEF IInv, Place, Types
<1>2. ASSUME NEW option \in Options, WriteOption(option) PROVE RefusedTwice'
  <2>1. pc = option /\ UNCHANGED <<cmd, prog, faulty, running, i>> /\ pc' \in Options \cup {"slaves", "ip"}
    BY <1>2, OptionPlace
  <2>2. Offered' = Offered
    BY <2>1 DEF Offered, Options
  <2>3. QED
    BY <1>2, <2>1, <2>2, OptionNotRefused, RefusedKept
<1>3. CASE SlavesDone
  <2>1. /\ pc = "slaves" /\ pc' = After("slaves")
        /\ UNCHANGED <<cmd, prog, faulty, running, i, reported>>
    BY <1>3 DEF SlavesDone, given
  <2>2. pc' # "raise"
    BY <1>1, <2>1, NextStep
  <2>3. Offered' = Offered
    BY <2>1, <2>2 DEF Offered
  <2>4. QED
    BY <2>1, <2>3, RefusedKept
<1>4. CASE SlaveAbsent
  <2>1. /\ pc = "slaves" /\ i <= Len(cmd.slaves) /\ UNCHANGED <<cmd, prog, faulty, running>>
        /\ dev_bond_if_exist(cmd.slaves[i]) \ {0} # {}
    BY <1>4 DEF SlaveAbsent, given
  <2>2. cmd.slaves[i] \in Ifs
    BY <2>1, CommandTypes DEF IInv, Place
  <2>3. faulty
    BY <2>1, <2>2 DEF dev_bond_if_exist, IInv, UpSoFar
  <2>4. ~Smooth
    BY <2>3 DEF Smooth
  <2>5. QED
    BY <2>1, <2>4, RefusedKept
<1>5. CASE SlaveDown
  <2>1. /\ pc = "slaves" /\ pc' = "enslave" /\ i <= Len(cmd.slaves)
        /\ UNCHANGED <<cmd, prog, faulty, running, i>>
        /\ IfUpDown(cmd.slaves[i], TakenDown)
    BY <1>5 DEF SlaveDown, given
  <2>2. cmd.slaves[i] \in Ifs
    BY <2>1, CommandTypes DEF IInv, Place
  <2>3. ~faulty => reported' = reported
    BY <2>1, <2>2 DEF IfUpDown, IInv, UpSoFar
  <2>4. Offered' = Offered
    BY <2>1 DEF Offered
  <2>5. QED
    BY <2>1, <2>3, <2>4, RefusedKept DEF Smooth
<1>6. CASE Enslave
  BY <1>6, EnslaveRefused
<1>7. CASE Raise
  <2>1. /\ pc = "raise" /\ pc' = "slaves" /\ i' = i + 1
        /\ UNCHANGED <<cmd, prog, faulty, running>>
        /\ IfUpDown(cmd.slaves[i], Raised)
    BY <1>7 DEF Raise, given, Advanced
  <2>2. cmd.slaves[i] \in Ifs
    BY <2>1, CommandTypes DEF IInv, Place, Options
  <2>3. ~faulty => reported' = reported
    BY <2>1, <2>2 DEF IfUpDown, IInv, UpSoFar
  <2>4. Offered' = Offered
    BY <1>1, <2>1 DEF Offered
  <2>5. QED
    BY <2>1, <2>3, <2>4, RefusedKept DEF Smooth
<1>8. CASE Primary
  <2>1. /\ pc = "primary" /\ pc' = "ip" /\ prog = "bonding1"
        /\ UNCHANGED <<cmd, prog, faulty, running, i>>
    BY <1>1, <1>8, NextStep DEF Primary, given, IInv, Place
  <2>2. Smooth => reported' = reported
    <3> SUFFICES ASSUME Smooth, cmd.primary # None PROVE reported' = reported
      BY <1>8 DEF Primary
    <3>1. Unrefused /\ cmd.mode \in PrimaryModes /\ cmd.ifn = Bond /\ ~faulty
      BY <2>1 DEF Smooth, Unrefused, Feasible
    <3>2. "mode" \in HandledOptions
      BY <2>1 DEF HandledOptions, Options
    <3>3. bond.mode \in PrimaryModes
      BY <3>1, <3>2 DEF IInv, InForceSoFar, Asked, PrimaryModes
    <3>4. Accepts("primary", cmd.primary)
      BY <3>3 DEF Accepts
    <3>5. QED
      BY <1>8, <3>1, <3>4 DEF Primary, WriteSysfs
  <2>3. Offered' = Offered
    BY <2>1 DEF Offered
  <2>4. QED
    BY <2>1, <2>2, <2>3, RefusedKept
<1>9. CASE SetIp
  <2>1. /\ pc = "ip" /\ pc' = "done" /\ SetIfIp(cmd.ifn)
        /\ UNCHANGED <<cmd, prog, faulty, running, i>>
    BY <1>9 DEF SetIp, given
  <2>2. Smooth => reported' = reported
    BY <2>1 DEF SetIfIp, Smooth, Feasible
  <2>3. Offered' = Offered
    BY <2>1 DEF Offered
  <2>4. QED
    BY <2>1, <2>2, <2>3, RefusedKept
<1>10. CASE Meddle
  <2>1. faulty /\ UNCHANGED <<cmd, prog, faulty, running>>
    BY <1>10 DEF Meddle, given
  <2>2. QED
    BY <2>1, RefusedKept DEF Smooth
<1>11. CASE UNCHANGED vars
  <2>1. UNCHANGED <<cmd, prog, faulty, running, i, reported, pc>>
    BY <1>11 DEF vars, given
  <2>2. QED
    BY <2>1, RefusedKept DEF Offered
<1>12. QED
  BY <1>2, <1>3, <1>4, <1>5, <1>6, <1>7, <1>8, <1>9, <1>10, <1>11 DEF Next, config_bond, Ending

(* Every step keeps it.                                                    *)
LEMMA EffectStep == EffectInv /\ [Next]_vars => EffectInv'
  BY IInvStep, LeftAloneStep, RefusedStep DEF EffectInv

(* Whatever the command, nothing that it does not ask for is changed on a  *)
(* bond that was down; and a sound command to bonding1 that adds slaves    *)
(* has nothing refused but a slave that the bond has already.              *)
THEOREM OnlyAsked == Spec => [](LeftAlone /\ RefusedTwice)
<1>1. Init => EffectInv
  <2> SUFFICES ASSUME Init PROVE EffectInv
    OBVIOUS
  <2>1. pc = Order[1] /\ i = 1 /\ reported = FALSE /\ prog \in {"bonding0", "bonding1"}
    BY ConfigAssumption DEF ConfigAssumption, Init
  <2>2. pc = IF prog = "bonding0" THEN "slaves" ELSE "mode"
    BY <2>1, NextStep
  <2>3. ~running => bond = DefaultBond
    BY DEF Init, MachineInit
  <2>4. LeftAlone
    BY <2>3 DEF LeftAlone, DefaultBond
  <2>5. Offered = 0 /\ ~Repeated(0)
    BY <2>1, <2>2 DEF Offered, Repeated
  <2>6. RefusedTwice
    BY <2>1, <2>5 DEF RefusedTwice
  <2>7. QED
    BY <2>4, <2>6, InitIInv DEF EffectInv
<1>2. EffectInv => LeftAlone /\ RefusedTwice
  BY DEF EffectInv
<1>3. QED
  BY <1>1, <1>2, EffectStep, PTL DEF Spec

(* What a sound command to add slaves has done when bonding1 is through    *)
(* with it.                                                                *)
LEMMA EffectInFull ==
  ASSUME EffectInv, pc = "done", Smooth, prog = "bonding1", cmd.add
  PROVE  /\ bond.slaves = SlaveSet /\ SlaveSet \cup {Bond} \subseteq up /\ addressed = {Bond}
         /\ \A o \in Options : bond[o] = IF cmd[o] = -1 THEN DefaultBond[o] ELSE Asked(o)
         /\ bond.primary = cmd.primary
         /\ reported <=> Repeated(Len(cmd.slaves))
<1>1. IInv /\ LeftAlone /\ RefusedTwice /\ ~running
  BY DEF EffectInv, Smooth
<1>2. HandledOptions = Options /\ HandledSlaves = SlaveSet
  BY <1>1 DEF HandledOptions, HandledSlaves, SlaveSet, IInv, Place, Options
<1>3. Unrefused
  BY DEF Unrefused
<1>4. SlaveSet \subseteq present
  BY <1>1, CommandTypes DEF SlaveSet, IInv, UpSoFar, Smooth
<1>5. bond.slaves = SlaveSet
  <2>1. \A s \in SlaveSet : s \in bond.slaves
    BY <1>1, <1>2, <1>3, <1>4 DEF IInv, InForceSoFar
  <2>2. bond.slaves \subseteq SlaveSet
    BY <1>1, <1>2 DEF IInv, FreshSoFar
  <2>3. QED
    BY <2>1, <2>2
<1>6. bond.slaves \cup {Bond} \subseteq up /\ addressed = {Bond}
  BY <1>1 DEF IInv, UpSoFar, FreshSoFar, Pending, Smooth, Types
<1>7. \A o \in Options : bond[o] = IF cmd[o] = -1 THEN DefaultBond[o] ELSE Asked(o)
  BY <1>1, <1>2, <1>3 DEF IInv, InForceSoFar, LeftAlone
<1>8. bond.primary = cmd.primary
  BY <1>1, <1>2, <1>3 DEF IInv, InForceSoFar, LeftAlone
<1>9. reported <=> Repeated(Len(cmd.slaves))
  <2>1. Offered = Len(cmd.slaves)
    BY <1>1, CommandTypes DEF Offered, IInv, Place, Options
  <2>2. QED
    BY <1>1, <2>1 DEF RefusedTwice
<1>10. QED
  BY <1>5, <1>6, <1>7, <1>8, <1>9
=============================================================================

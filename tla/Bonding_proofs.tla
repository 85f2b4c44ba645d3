--------------------------- MODULE Bonding_proofs ---------------------------
(***************************************************************************)
(* The bonding programs, for any set of options and any number of them on  *)
(* the command line: main does what was asked for and frees every name     *)
(* once, and what it was asked to configure is in force afterwards.  The   *)
(* invariant of main is OptInv, of a whole run WholeInv; what the          *)
(* configuration does with a command is taken from BondConfig_proofs.      *)
(***************************************************************************)
EXTENDS Bonding, FiniteSetTheorems, TLAPS

-----------------------------------------------------------------------------
(* Why.  The variables that decide what main does tell which options were  *)
(* read, and how often; main goes on only with those that it checked; and  *)
(* the names are freed from the last to the first.                         *)
ArgsOf(o)  == {a.arg : a \in {b \in Args : b.opt = o}}
WordsOf(o) == {a.word : a \in {b \in Args : b.opt = o}}

OptionTypes ==
  /\ prog \in {"bonding0", "bonding1"} /\ args \in Seq(Args) /\ freed \in Seq(Nat)
  /\ pc \in {"parse", "choose", "configure", "free", "ping"} \cup Ends
  /\ opts \in [base_if : WordsOf("b") \cup {Default}, no_bondig : Nat, no_ping : Nat,
               no_switch : {0, 1}, add_flag : {-1, 0, 1}, salves : Seq(ArgsOf("a") \cup ArgsOf("r")),
               bonding_mode : ArgsOf("m") \cup {-1}, primary : WordsOf("p") \cup {""},
               miimon : ArgsOf("i") \cup {-1}, updelay : ArgsOf("u") \cup {-1},
               downdelay : ArgsOf("d") \cup {-1}, use_carrier : ArgsOf("c") \cup {-1}]

Told ==
  /\ opts.no_bondig = Times("b") + 2 * Times("no_bonding")
  /\ opts.add_flag = 1 => Given("a")
  /\ opts.add_flag = 0 => Given("r")
  /\ ~Given("m") => opts.bonding_mode = -1
  /\ Given("no_ping") \/ (prog = "bonding1" /\ Given("r")) => opts.no_ping > 0

Chosen ==
  /\ pc = "ip_set"  => opts.no_bondig = 3
  /\ pc = "no_name" => opts.no_bondig = 2
  /\ pc \in {"configure", "free", "ping", "quiet", "pinging"} =>
       opts.no_bondig \notin {2, 3} /\ ~NeedsHelp
  /\ pc \in {"ping", "pinging"} => prog = "bonding1"
  /\ pc = "pinging" => opts.no_ping = 0

FreedSoFar ==
  /\ \A n \in DOMAIN freed :
       freed[n] = Len(opts.salves) + 1 - n + (IF prog = "bonding0" THEN 1 ELSE 0)
  /\ Len(freed) <= Len(opts.salves)
  /\ pc \notin {"free", "ping", "quiet", "pinging"} => freed = <<>>
  /\ pc = "free" => Len(freed) < Len(opts.salves)
  /\ pc \in {"ping", "quiet", "pinging"} => Len(freed) = Len(opts.salves)

OptInv == OptionTypes /\ Told /\ Chosen /\ FreedSoFar

-----------------------------------------------------------------------------
(* The options read so far                                                 *)

(* They are a finite number.                                               *)
LEMMA PlacesFinite ==
  ASSUME NEW o, args \in Seq(Args)
  PROVE  IsFiniteSet(Places(o)) /\ Times(o) \in Nat /\ (Times(o) > 0 <=> Given(o))
<1>1. DOMAIN args = 1 .. Len(args) /\ Len(args) \in Nat
  OBVIOUS
<1>2. IsFiniteSet(1 .. Len(args))
  BY <1>1, FS_Interval
<1>3. Places(o) \in SUBSET (1 .. Len(args))
  BY <1>1 DEF Places
<1>4. IsFiniteSet(Places(o)) /\ Times(o) \in Nat
  BY <1>2, <1>3, FS_Subset, FS_CardinalityType DEF Times
<1>5. Times(o) = 0 <=> Places(o) = {}
  BY <1>4, FS_EmptySet DEF Times
<1>6. QED
  BY <1>4, <1>5 DEF Given

(* A turn of the loop reads one option more.                               *)
LEMMA OneMoreOption ==
  ASSUME OptionTypes, NEW kinds, Parsing(kinds)
  PROVE  \E a \in Args :
           /\ a.opt \in kinds /\ Read = a /\ args' \in Seq(Args)
           /\ a.arg \in ArgsOf(a.opt) /\ a.word \in WordsOf(a.opt)
           /\ \A o : /\ Given(o)' <=> Given(o) \/ a.opt = o
                     /\ Times(o) \in Nat
                     /\ Times(o)' = IF a.opt = o THEN Times(o) + 1 ELSE Times(o)
<1>1. PICK a \in Args : a.opt \in kinds /\ args' = Append(args, a)
  BY DEF Parsing
<1>2. args \in Seq(Args)
  BY DEF OptionTypes
<1>3. PICK last : last = Len(args) + 1
  OBVIOUS
<1>4. /\ args' \in Seq(Args) /\ Len(args') = last /\ args'[last] = a /\ last \notin DOMAIN args
      /\ DOMAIN args' = DOMAIN args \cup {last} /\ \A n \in DOMAIN args : args'[n] = args[n]
  <2>1. /\ args' \in Seq(Args) /\ Len(args') = last /\ args'[last] = a /\ Len(args) \in Nat
        /\ DOMAIN args = 1 .. Len(args) /\ DOMAIN args' = 1 .. last
        /\ \A n \in DOMAIN args : args'[n] = args[n]
    BY <1>1, <1>2, <1>3
  <2>2. QED
    BY <1>3, <2>1
<1>5. Read = a
  BY <1>4 DEF Read
<1>6. ASSUME NEW o
      PROVE  /\ Given(o)' <=> Given(o) \/ a.opt = o
             /\ Times(o) \in Nat
             /\ Times(o)' = IF a.opt = o THEN Times(o) + 1 ELSE Times(o)
  <2>1. Places(o)' = IF a.opt = o THEN Places(o) \cup {last} ELSE Places(o)
    BY <1>4 DEF Places
  <2>2. last \notin Places(o) /\ IsFiniteSet(Places(o)) /\ Times(o) \in Nat
    BY <1>2, <1>4, PlacesFinite DEF Places
  <2>3. Times(o)' = IF a.opt = o THEN Times(o) + 1 ELSE Times(o)
    BY <2>1, <2>2, FS_AddElement DEF Times
  <2>4. QED
    BY <2>1, <2>2, <2>3 DEF Given
<1>7. a.arg \in ArgsOf(a.opt) /\ a.word \in WordsOf(a.opt)
  BY DEF ArgsOf, WordsOf
<1>8. QED
  BY <1>1, <1>4, <1>5, <1>6, <1>7

-----------------------------------------------------------------------------
(* The steps                                                               *)

Take ==
  \/ TakeNoBonding \/ TakeSwitch \/ TakeFlag \/ TakeBond \/ TakeSlave \/ TakeMode
  \/ TakePrimary \/ TakeNumber \/ TakeUnknown

OptsType ==
  [base_if : WordsOf("b") \cup {Default}, no_bondig : Nat, no_ping : Nat,
   no_switch : {0, 1}, add_flag : {-1, 0, 1}, salves : Seq(ArgsOf("a") \cup ArgsOf("r")),
   bonding_mode : ArgsOf("m") \cup {-1}, primary : WordsOf("p") \cup {""},
   miimon : ArgsOf("i") \cup {-1}, updelay : ArgsOf("u") \cup {-1},
   downdelay : ArgsOf("d") \cup {-1}, use_carrier : ArgsOf("c") \cup {-1}]

(* What a turn of the loop changes, option by option.                      *)
LEMMA TakeTells ==
  ASSUME OptionTypes, Told, Take
  PROVE  opts' \in OptsType /\ args' \in Seq(Args) /\ Told'
<1>1. opts \in OptsType /\ prog \in {"bonding0", "bonding1"}
  BY DEF OptionTypes, OptsType
<1>2. UNCHANGED prog
  BY DEF Take, TakeNoBonding, TakeSwitch, TakeFlag, TakeBond, TakeSlave, TakeMode,
     TakePrimary, TakeNumber, TakeUnknown, Parsing
<1>3. CASE TakeNoBonding
  <2>1. PICK a \in Args :
          /\ a.opt = "no_bonding" /\ args' \in Seq(Args)
          /\ \A o : /\ Given(o)' <=> Given(o) \/ a.opt = o
                    /\ Times(o) \in Nat
                    /\ Times(o)' = IF a.opt = o THEN Times(o) + 1 ELSE Times(o)
    BY <1>3, OneMoreOption DEF TakeNoBonding
  <2>2. opts' = [opts EXCEPT !.no_bondig = opts.no_bondig + 2]
    BY <1>3 DEF TakeNoBonding, Set, Weight
  <2>3. opts' \in OptsType
    <3>1. PICK v : v = opts.no_bondig + 2
      OBVIOUS
    <3>2. opts.no_bondig \in Nat
      BY <1>1 DEF OptsType
    <3>3. v \in Nat
      BY <3>1, <3>2
    <3>4. opts' = [opts EXCEPT !.no_bondig = v]
      BY <2>2, <3>1
    <3>5. QED
      BY <1>1, <3>3, <3>4 DEF OptsType
  <2>4. Times("no_bonding")' = Times("no_bonding") + 1 /\ Times("b")' = Times("b")
    BY <2>1
  <2>5. opts'.no_bondig = Times("b")' + 2 * Times("no_bonding")'
    <3>1. opts'.no_bondig = opts.no_bondig + 2 /\ opts.no_bondig \in Nat
      BY <1>1, <2>2 DEF OptsType
    <3>2. Times("b") \in Nat /\ Times("no_bonding") \in Nat
      BY <2>1
    <3>3. QED
      BY <2>4, <3>1, <3>2 DEF Told
  <2>6. QED
    BY <1>1, <1>2, <2>1, <2>2, <2>3, <2>5 DEF Told, OptsType
<1>4. CASE TakeSwitch
  <2>1. PICK a \in Args :
          /\ a.opt = "switch" /\ args' \in Seq(Args)
          /\ \A o : /\ Given(o)' <=> Given(o) \/ a.opt = o
                    /\ Times(o)' = IF a.opt = o THEN Times(o) + 1 ELSE Times(o)
    BY <1>4, OneMoreOption DEF TakeSwitch
  <2>2. QED
    BY <1>1, <1>2, <1>4, <2>1 DEF Told, TakeSwitch
<1>5. CASE TakeFlag
  <2>1. PICK a \in Args :
          /\ a.opt \in {"no_ping", "no_switch"} /\ args' \in Seq(Args) /\ Read = a
          /\ \A o : /\ Given(o)' <=> Given(o) \/ a.opt = o
                    /\ Times(o)' = IF a.opt = o THEN Times(o) + 1 ELSE Times(o)
    BY <1>5, OneMoreOption DEF TakeFlag
  <2>2. opts' = [opts EXCEPT ![a.opt] = 1]
    BY <1>5, <2>1 DEF TakeFlag, Set
  <2>3. CASE a.opt = "no_ping"
    <3>1. opts' = [opts EXCEPT !.no_ping = 1] /\ 1 \in Nat
      BY <2>2, <2>3
    <3>2. opts' \in OptsType
      BY <1>1, <3>1 DEF OptsType
    <3>3. /\ opts'.no_ping = 1 /\ opts'.no_bondig = opts.no_bondig
          /\ opts'.add_flag = opts.add_flag /\ opts'.bonding_mode = opts.bonding_mode
      BY <1>1, <3>1 DEF OptsType
    <3>4. Told'
      BY <1>2, <2>1, <2>3, <3>3 DEF Told
    <3>5. QED
      BY <2>1, <3>2, <3>4
  <2>4. CASE a.opt = "no_switch"
    <3>1. opts' = [opts EXCEPT !.no_switch = 1]
      BY <2>2, <2>4
    <3>2. opts' \in OptsType
      BY <1>1, <3>1 DEF OptsType
    <3>3. QED
      BY <1>1, <1>2, <2>1, <2>4, <3>1, <3>2 DEF Told, OptsType
  <2>5. QED
    BY <2>1, <2>3, <2>4
<1>6. CASE TakeBond
  <2>1. PICK a \in Args :
          /\ a.opt = "b" /\ args' \in Seq(Args) /\ Read = a /\ a.word \in WordsOf("b")
          /\ \A o : /\ Given(o)' <=> Given(o) \/ a.opt = o
                    /\ Times(o) \in Nat
                    /\ Times(o)' = IF a.opt = o THEN Times(o) + 1 ELSE Times(o)
    BY <1>6, OneMoreOption DEF TakeBond
  <2>2. opts' = [opts EXCEPT !.base_if = a.word, !.no_bondig = opts.no_bondig + 1]
    BY <1>6, <2>1 DEF TakeBond, Weight
  <2>3. opts' \in OptsType
    <3>1. PICK v : v = opts.no_bondig + 1
      OBVIOUS
    <3>2. opts.no_bondig \in Nat
      BY <1>1 DEF OptsType
    <3>3. v \in Nat
      BY <3>1, <3>2
    <3>4. opts' = [opts EXCEPT !.base_if = a.word, !.no_bondig = v]
      BY <2>2, <3>1
    <3>5. QED
      BY <1>1, <2>1, <3>3, <3>4 DEF OptsType
  <2>4. Times("no_bonding")' = Times("no_bonding") /\ Times("b")' = Times("b") + 1
    BY <2>1
  <2>5. opts'.no_bondig = Times("b")' + 2 * Times("no_bonding")'
    <3>1. opts'.no_bondig = opts.no_bondig + 1 /\ opts.no_bondig \in Nat
      BY <1>1, <2>2 DEF OptsType
    <3>2. Times("b") \in Nat /\ Times("no_bonding") \in Nat
      BY <2>1
    <3>3. QED
      BY <2>4, <3>1, <3>2 DEF Told
  <2>6. QED
    BY <1>1, <1>2, <2>1, <2>2, <2>3, <2>5 DEF Told, OptsType
<1>7. CASE TakeSlave
  <2>1. PICK a \in Args :
          /\ a.opt \in {"a", "r"} /\ args' \in Seq(Args) /\ Read = a /\ a.arg \in ArgsOf(a.opt)
          /\ \A o : /\ Given(o)' <=> Given(o) \/ a.opt = o
                    /\ Times(o)' = IF a.opt = o THEN Times(o) + 1 ELSE Times(o)
    BY <1>7, OneMoreOption DEF TakeSlave
  <2>2. /\ opts'.add_flag = IF a.opt = "a" THEN 1 ELSE 0
        /\ opts'.salves = Append(opts.salves, a.arg)
        /\ opts'.no_ping = IF a.opt = "r" /\ prog = "bonding1" THEN opts.no_ping + 1 ELSE opts.no_ping
        /\ opts'.no_bondig = opts.no_bondig /\ opts'.bonding_mode = opts.bonding_mode
    BY <1>1, <1>7, <2>1 DEF TakeSlave, OptsType, WithSlave
  <2>3. opts' \in OptsType
    <3>1. PICK names : names = ArgsOf("a") \cup ArgsOf("r")
      OBVIOUS
    <3>2. opts.salves \in Seq(names) /\ a.arg \in names /\ opts.no_ping \in Nat
      BY <1>1, <2>1, <3>1 DEF OptsType
    <3>3. PICK list, flag, no :
            /\ list = Append(opts.salves, a.arg) /\ flag = (IF a.opt = "a" THEN 1 ELSE 0)
            /\ no = IF a.opt = "r" /\ prog = "bonding1" THEN opts.no_ping + 1 ELSE opts.no_ping
      OBVIOUS
    <3>4. list \in Seq(ArgsOf("a") \cup ArgsOf("r")) /\ flag \in {-1, 0, 1} /\ no \in Nat
      BY <3>1, <3>2, <3>3
    <3>5. opts' = [opts EXCEPT !.add_flag = flag, !.salves = list, !.no_ping = no]
      BY <1>7, <2>1, <3>3 DEF TakeSlave, WithSlave
    <3>6. QED
      BY <1>1, <3>4, <3>5 DEF OptsType
  <2>4. opts.no_ping \in Nat
    BY <1>1 DEF OptsType
  <2>5. Given("no_ping")' \/ (prog = "bonding1" /\ Given("r")') => opts'.no_ping > 0
    BY <2>1, <2>2, <2>4 DEF Told
  <2>6. QED
    BY <1>1, <1>2, <2>1, <2>2, <2>3, <2>5 DEF Told
<1>8. CASE TakeMode
  <2>1. PICK a \in Args :
          /\ a.opt = "m" /\ args' \in Seq(Args) /\ Read = a /\ a.arg \in ArgsOf("m")
          /\ \A o : /\ Given(o)' <=> Given(o) \/ a.opt = o
                    /\ Times(o)' = IF a.opt = o THEN Times(o) + 1 ELSE Times(o)
    BY <1>8, OneMoreOption DEF TakeMode
  <2>2. opts' = [opts EXCEPT !.bonding_mode = a.arg]
    BY <1>8, <2>1 DEF TakeMode, Set
  <2>3. opts' \in OptsType
    BY <1>1, <2>1, <2>2 DEF OptsType
  <2>4. QED
    BY <1>1, <1>2, <2>1, <2>2, <2>3 DEF Told, OptsType
<1>9. CASE TakePrimary
  <2>1. PICK a \in Args :
          /\ a.opt = "p" /\ args' \in Seq(Args) /\ Read = a /\ a.word \in WordsOf("p")
          /\ \A o : /\ Given(o)' <=> Given(o) \/ a.opt = o
                    /\ Times(o)' = IF a.opt = o THEN Times(o) + 1 ELSE Times(o)
    BY <1>9, OneMoreOption DEF TakePrimary
  <2>2. opts' = [opts EXCEPT !.primary = a.word]
    BY <1>9, <2>1 DEF TakePrimary, Set
  <2>3. opts' \in OptsType
    BY <1>1, <2>1, <2>2 DEF OptsType
  <2>4. QED
    BY <1>1, <1>2, <2>1, <2>2, <2>3 DEF Told, OptsType
<1>10. CASE TakeNumber
  <2>0. DOMAIN NumberOf = {"i", "u", "d", "c"}
    BY DEF NumberOf
  <2>1. PICK a \in Args :
          /\ a.opt \in {"i", "u", "d", "c"} /\ args' \in Seq(Args) /\ Read = a /\ a.arg \in ArgsOf(a.opt)
          /\ \A o : /\ Given(o)' <=> Given(o) \/ a.opt = o
                    /\ Times(o)' = IF a.opt = o THEN Times(o) + 1 ELSE Times(o)
    BY <1>10, <2>0, OneMoreOption DEF TakeNumber
  <2>2. opts' = [opts EXCEPT ![NumberOf[a.opt]] = a.arg]
    BY <1>10, <2>1 DEF TakeNumber, Set
  <2>3. /\ NumberOf["i"] = "miimon" /\ NumberOf["u"] = "updelay"
        /\ NumberOf["d"] = "downdelay" /\ NumberOf["c"] = "use_carrier"
    BY DEF NumberOf
  <2>4. PICK v : v = a.arg
    OBVIOUS
  <2>5. ASSUME opts' \in OptsType, opts'.no_bondig = opts.no_bondig, opts'.add_flag = opts.add_flag,
               opts'.bonding_mode = opts.bonding_mode, opts'.no_ping = opts.no_ping
        PROVE  opts' \in OptsType /\ args' \in Seq(Args) /\ Told'
    BY <1>2, <2>1, <2>5 DEF Told
  <2>6. CASE a.opt = "i"
    <3>1. opts' = [opts EXCEPT !.miimon = v] /\ v \in ArgsOf("i")
      BY <2>1, <2>2, <2>3, <2>4, <2>6
    <3>2. QED
      BY <1>1, <2>5, <3>1 DEF OptsType
  <2>7. CASE a.opt = "u"
    <3>1. opts' = [opts EXCEPT !.updelay = v] /\ v \in ArgsOf("u")
      BY <2>1, <2>2, <2>3, <2>4, <2>7
    <3>2. QED
      BY <1>1, <2>5, <3>1 DEF OptsType
  <2>8. CASE a.opt = "d"
    <3>1. opts' = [opts EXCEPT !.downdelay = v] /\ v \in ArgsOf("d")
      BY <2>1, <2>2, <2>3, <2>4, <2>8
    <3>2. QED
      BY <1>1, <2>5, <3>1 DEF OptsType
  <2>9. CASE a.opt = "c"
    <3>1. opts' = [opts EXCEPT !.use_carrier = v] /\ v \in ArgsOf("c")
      BY <2>1, <2>2, <2>3, <2>4, <2>9
    <3>2. QED
      BY <1>1, <2>5, <3>1 DEF OptsType
  <2>10. QED
    BY <2>1, <2>6, <2>7, <2>8, <2>9
<1>11. CASE TakeUnknown
  <2>1. PICK kinds : kinds = {"unknown"} \cup (IF prog = "bonding0" THEN {"p"} ELSE {})
    OBVIOUS
  <2>2. PICK a \in Args :
          /\ a.opt \in kinds /\ args' \in Seq(Args)
          /\ \A o : /\ Given(o)' <=> Given(o) \/ a.opt = o
                    /\ Times(o)' = IF a.opt = o THEN Times(o) + 1 ELSE Times(o)
    BY <1>11, <2>1, OneMoreOption DEF TakeUnknown
  <2>3. a.opt \in {"unknown", "p"}
    BY <2>1, <2>2
  <2>4. QED
    BY <1>1, <1>2, <1>11, <2>2, <2>3 DEF Told, TakeUnknown
<1>12. QED
  BY <1>3, <1>4, <1>5, <1>6, <1>7, <1>8, <1>9, <1>10, <1>11 DEF Take

(* The loop over the options.                                              *)
LEMMA TakeStep ==
  ASSUME OptInv, Take
  PROVE  OptInv'
<1>1. /\ pc = "parse" /\ pc' \in {"parse", "switched", "help"} /\ UNCHANGED <<prog, freed>>
      /\ freed = <<>>
  BY DEF OptInv, FreedSoFar, Take, TakeNoBonding, TakeSwitch, TakeFlag, TakeBond, TakeSlave, TakeMode,
     TakePrimary, TakeNumber, TakeUnknown, Parsing
<1>2. opts' \in OptsType /\ args' \in Seq(Args) /\ Told'
  BY TakeTells DEF OptInv
<1>3. OptionTypes'
  BY <1>1, <1>2 DEF OptInv, OptionTypes, OptsType, Ends
<1>4. Chosen'
  BY <1>1 DEF Chosen
<1>5. FreedSoFar'
  <2>1. opts'.salves \in Seq(ArgsOf("a") \cup ArgsOf("r"))
    BY <1>2 DEF OptsType
  <2>2. Len(opts'.salves) \in Nat /\ Len(<<>>) = 0 /\ DOMAIN <<>> = {}
    BY <2>1
  <2>3. QED
    BY <1>1, <2>2 DEF FreedSoFar
<1>6. QED
  BY <1>2, <1>3, <1>4, <1>5 DEF OptInv

(* What main does after the loop reads the variables, and the free of the  *)
(* names goes from the last to the first.                                  *)
LEMMA AfterLoop ==
  ASSUME OptInv, ParseEnds \/ Choose \/ Configured \/ Free \/ StartPing
  PROVE  OptInv'
<1>1. UNCHANGED <<prog, args, opts>>
  BY DEF ParseEnds, Choose, Configured, Free, StartPing
<1>2. Told'
  BY <1>1 DEF OptInv, Told, Times, Given, Places
<1>3. /\ opts.salves \in Seq(ArgsOf("a") \cup ArgsOf("r")) /\ Len(opts.salves) \in Nat
      /\ freed \in Seq(Nat) /\ Len(freed) \in Nat /\ DOMAIN freed = 1 .. Len(freed)
      /\ (opts.salves # <<>> => Len(opts.salves) > 0) /\ prog \in {"bonding0", "bonding1"}
      /\ opts.no_ping \in Nat
  <2>1. /\ opts.salves \in Seq(ArgsOf("a") \cup ArgsOf("r")) /\ freed \in Seq(Nat)
        /\ prog \in {"bonding0", "bonding1"} /\ opts.no_ping \in Nat
    BY DEF OptInv, OptionTypes
  <2>2. QED
    BY <2>1
<1>4. CASE ParseEnds \/ Choose \/ Configured \/ StartPing
  <2>1. UNCHANGED freed
    BY <1>4 DEF ParseEnds, Choose, Configured, StartPing
  <2>2. OptionTypes'
    <3>1. pc' \in {"parse", "choose", "configure", "free", "ping"} \cup Ends
      BY <1>4 DEF Ends, ParseEnds, Choose, Configured, StartPing
    <3>2. QED
      BY <1>1, <2>1, <3>1 DEF OptInv, OptionTypes
  <2>3. Chosen'
    BY <1>1, <1>4 DEF OptInv, Chosen, NeedsHelp, ParseEnds, Choose, Configured, StartPing
  <2>4. FreedSoFar'
    <3>1. CASE ParseEnds
      BY <1>1, <2>1, <3>1 DEF OptInv, FreedSoFar, ParseEnds
    <3>2. CASE Choose
      <4>1. pc' = "free" => opts.salves # <<>>
        BY <3>2 DEF Choose, NeedsHelp
      <4>2. freed = <<>> /\ Len(<<>>) = 0 /\ DOMAIN <<>> = {} /\ pc' \notin {"ping", "quiet", "pinging"}
        BY <3>2 DEF OptInv, FreedSoFar, Choose
      <4>3. QED
        BY <1>1, <1>3, <2>1, <4>1, <4>2 DEF FreedSoFar
    <3>3. CASE Configured
      <4>1. freed = <<>> /\ Len(<<>>) = 0 /\ DOMAIN <<>> = {} /\ pc' = "free" /\ opts.salves # <<>>
        BY <3>3 DEF OptInv, FreedSoFar, Chosen, NeedsHelp, Configured
      <4>2. QED
        BY <1>1, <1>3, <2>1, <4>1 DEF FreedSoFar
    <3>4. CASE StartPing
      BY <1>1, <2>1, <3>4 DEF OptInv, FreedSoFar, StartPing
    <3>5. QED
      BY <1>4, <3>1, <3>2, <3>3, <3>4
  <2>5. QED
    BY <1>2, <2>2, <2>3, <2>4 DEF OptInv
<1>5. CASE Free
  <2>1. PICK count, last : count = Len(opts.salves) /\ last = Len(freed) + 1
    OBVIOUS
  <2>2. /\ count \in Nat /\ last \in Nat \ {0} /\ last <= count
        /\ pc' = IF last < count THEN "free" ELSE AfterFree
        /\ \A n \in DOMAIN freed : freed[n] = count + 1 - n + (IF prog = "bonding0" THEN 1 ELSE 0)
    BY <1>3, <1>5, <2>1 DEF Free, OptInv, FreedSoFar
  <2>3. PICK slot : slot = NextFreed
    OBVIOUS
  <2>4. slot = count + 1 - last + (IF prog = "bonding0" THEN 1 ELSE 0) /\ slot \in Nat
    <3>1. PICK extra : extra = IF prog = "bonding0" THEN 1 ELSE 0
      OBVIOUS
    <3>2. extra \in Nat /\ slot = count - Len(freed) + extra
      BY <2>1, <2>3, <3>1 DEF NextFreed
    <3>3. PICK done : done = Len(freed)
      OBVIOUS
    <3>4. done \in Nat /\ last = done + 1 /\ slot = count - done + extra
      BY <1>3, <2>1, <3>2, <3>3
    <3>5. slot = count + 1 - last + extra /\ slot \in Nat
      BY <2>2, <3>2, <3>4
    <3>6. QED
      BY <3>1, <3>5
  <2>5. /\ freed' \in Seq(Nat) /\ Len(freed') = last /\ DOMAIN freed' = DOMAIN freed \cup {last}
        /\ freed'[last] = slot /\ \A n \in DOMAIN freed : freed'[n] = freed[n]
    <3>1. freed' = Append(freed, slot)
      BY <1>5, <2>3 DEF Free
    <3>2. PICK f : f = Append(freed, slot)
      OBVIOUS
    <3>3. /\ f \in Seq(Nat) /\ Len(f) = last /\ DOMAIN f = 1 .. last
          /\ f[last] = slot /\ \A n \in 1 .. Len(freed) : f[n] = freed[n]
      <4>1. freed \in Seq(Nat) /\ slot \in Nat
        BY <1>3, <2>4
      <4>2. f \in Seq(Nat) /\ Len(f) = Len(freed) + 1 /\ f[Len(freed) + 1] = slot
        BY <3>2, <4>1
      <4>3. DOMAIN f = 1 .. Len(f)
        BY <4>2
      <4>4. \A n \in 1 .. Len(freed) : f[n] = freed[n]
        BY <3>2, <4>1
      <4>5. QED
        BY <2>1, <4>2, <4>3, <4>4
    <3>4. 1 .. last = 1 .. Len(freed) \cup {last}
      BY <1>3, <2>1
    <3>5. QED
      BY <1>3, <3>1, <3>2, <3>3, <3>4
  <2>6. FreedSoFar'
    <3>1. \A n \in DOMAIN freed' : freed'[n] = count + 1 - n + (IF prog = "bonding0" THEN 1 ELSE 0)
      BY <2>2, <2>4, <2>5
    <3>2. count = Len(opts'.salves) /\ prog' = prog
      BY <1>1, <2>1
    <3>3. pc' \in {"free", "ping", "quiet"}
      BY <2>2 DEF AfterFree
    <3>4. (pc' = "free" => last < count) /\ (pc' # "free" => last = count)
      BY <2>2 DEF AfterFree
    <3>5. QED
      BY <2>2, <2>5, <3>1, <3>2, <3>3, <3>4 DEF FreedSoFar
  <2>7. OptionTypes' /\ Chosen'
    BY <1>1, <1>5, <2>5 DEF OptInv, OptionTypes, Chosen, NeedsHelp, Free, AfterFree, Ends
  <2>8. QED
    BY <1>2, <2>6, <2>7 DEF OptInv
<1>6. QED
  BY <1>4, <1>5

(* The invariant holds at the start.                                       *)
LEMMA OptStarts == Init => OptInv
<1> SUFFICES ASSUME Init PROVE OptInv
  OBVIOUS
<1>1. /\ <<>> \in Seq(Args) /\ <<>> \in Seq(Nat) /\ <<>> \in Seq(ArgsOf("a") \cup ArgsOf("r"))
      /\ Len(<<>>) = 0 /\ DOMAIN <<>> = {}
  OBVIOUS
<1>2. OptionTypes
  BY <1>1, OptionsAssumption DEF OptionsAssumption, Init, NothingGiven, OptionTypes
<1>3. \A o : Places(o) = {}
  BY <1>1 DEF Init, Places
<1>4. \A o : Times(o) = 0 /\ ~Given(o)
  BY <1>3, FS_EmptySet DEF Times, Given
<1>5. Told
  <2>1. opts.no_bondig = 0 /\ opts.add_flag = -1 /\ opts.bonding_mode = -1
    BY DEF Init, NothingGiven
  <2>2. 0 = 0 + 2 * 0 /\ -1 # 1 /\ -1 # 0
    OBVIOUS
  <2>3. QED
    BY <1>4, <2>1, <2>2 DEF Told
<1>6. Chosen
  BY DEF Chosen, Init
<1>7. FreedSoFar
  <2>1. freed = <<>> /\ opts.salves = <<>> /\ pc = "parse"
    BY DEF Init, NothingGiven
  <2>2. Len(freed) = 0 /\ Len(opts.salves) = 0 /\ DOMAIN freed = {} /\ 0 <= 0
    BY <1>1, <2>1
  <2>3. QED
    BY <2>1, <2>2 DEF FreedSoFar
<1>8. QED
  BY <1>2, <1>5, <1>6, <1>7 DEF OptInv

(* A step of a whole run is a step of main or of the configuration.        *)
LEMMA StepOfMain == [BondingNext]_allvars => [Next]_vars
  BY DEF BondingNext, allvars, MainStep, ChooseIp, ChooseOther, Call, ConfigStep, Return,
     BondingExited, Next, main

(* The invariant of main in a whole run.                                   *)
LEMMA OptAlways == BondingSpec => []OptInv
<1>1. BondingInit => OptInv
  BY OptStarts DEF BondingInit
<1>2. OptInv /\ UNCHANGED vars => OptInv'
  <2> SUFFICES ASSUME OptInv, UNCHANGED vars PROVE OptInv'
    OBVIOUS
  <2>1. OptionTypes'
    <3>1. UNCHANGED <<prog, args, opts, freed, pc>>
      BY DEF vars
    <3>2. opts' \in OptsType /\ args' \in Seq(Args)
      BY <3>1 DEF OptInv, OptionTypes, OptsType
    <3>3. QED
      BY <3>1, <3>2 DEF OptInv, OptionTypes, OptsType
  <2>2. Told'
    BY DEF OptInv, vars, Told, Times, Given, Places
  <2>3. Chosen'
    BY DEF OptInv, vars, Chosen, NeedsHelp
  <2>4. FreedSoFar'
    BY DEF OptInv, vars, FreedSoFar
  <2>5. QED
    BY <2>1, <2>2, <2>3, <2>4 DEF OptInv
<1>3. OptInv /\ [BondingNext]_allvars => OptInv'
  BY <1>2, StepOfMain, TakeStep, AfterLoop DEF Next, main, getopt_loop, Take, Exited
<1>4. QED
  BY <1>1, <1>3, PTL DEF BondingSpec

-----------------------------------------------------------------------------
(* The results                                                             *)

(* What main does is what the command line asks for.                       *)
THEOREM ChoiceRight == BondingSpec => []ChoiceAsAsked
<1>1. OptInv => ChoiceAsAsked
  <2> SUFFICES ASSUME OptInv PROVE ChoiceAsAsked
    OBVIOUS
  <2>1. args \in Seq(Args) /\ opts.add_flag \in {-1, 0, 1}
    BY DEF OptInv, OptionTypes
  <2>2. /\ Times("b") \in Nat /\ (Times("b") > 0 <=> Given("b"))
        /\ Times("no_bonding") \in Nat /\ (Times("no_bonding") > 0 <=> Given("no_bonding"))
    BY <2>1, PlacesFinite
  <2>3. ASSUME Times("b") <= 1, Times("no_bonding") <= 1
        PROVE  /\ pc = "ip_set"    => Given("b") /\ Given("no_bonding")
               /\ pc = "no_name"   => ~Given("b") /\ Given("no_bonding")
               /\ pc = "configure" => ~Given("no_bonding")
    <3>1. PICK b, n : b = Times("b") /\ n = Times("no_bonding")
      OBVIOUS
    <3>2. b \in {0, 1} /\ n \in {0, 1} /\ opts.no_bondig = b + 2 * n
      BY <2>2, <2>3, <3>1 DEF OptInv, Told
    <3>3. /\ pc = "ip_set"    => b = 1 /\ n = 1
          /\ pc = "no_name"   => b = 0 /\ n = 1
          /\ pc = "configure" => n = 0
      BY <3>2 DEF OptInv, Chosen
    <3>4. QED
      BY <2>2, <3>1, <3>3
  <2>4. pc \in {"configure", "free", "ping", "quiet", "pinging"} =>
          /\ Given("a") \/ Given("r")
          /\ ~Given("m") => Given("r")
    BY <2>1 DEF OptInv, Chosen, NeedsHelp, Told
  <2>5. pc = "pinging" => ~Given("r") /\ ~Given("no_ping")
    BY DEF OptInv, Chosen, Told
  <2>6. QED
    BY <2>3, <2>4, <2>5 DEF ChoiceAsAsked
<1>2. QED
  BY <1>1, OptAlways, PTL

(* No copy of a slave's name is freed twice, nor the list overrun by more  *)
(* than the empty slot behind it; bonding1 frees every copy before the     *)
(* check is started, bonding0 all but the first.                           *)
THEOREM FreedOnce == BondingSpec => []NamesFreedOnce
<1>1. OptInv => NamesFreedOnce
  <2> SUFFICES ASSUME OptInv PROVE NamesFreedOnce
    OBVIOUS
  <2>1. /\ Len(opts.salves) \in Nat /\ Len(freed) \in Nat /\ DOMAIN freed = 1 .. Len(freed)
        /\ prog \in {"bonding0", "bonding1"}
    <3>1. opts.salves \in Seq(ArgsOf("a") \cup ArgsOf("r")) /\ freed \in Seq(Nat)
          /\ prog \in {"bonding0", "bonding1"}
      BY DEF OptInv, OptionTypes
    <3>2. QED
      BY <3>1
  <2>2. PICK count, extra : count = Len(opts.salves) /\ extra = IF prog = "bonding0" THEN 1 ELSE 0
    OBVIOUS
  <2>3. count \in Nat /\ extra \in {0, 1}
    BY <2>1, <2>2
  <2>4. \A n \in 1 .. Len(freed) : freed[n] = count + 1 - n + extra
    BY <2>1, <2>2 DEF OptInv, FreedSoFar
  <2>5. \A m, n \in 1 .. Len(freed) : freed[m] = freed[n] => m = n
    BY <2>1, <2>3, <2>4
  <2>6. ASSUME pc \in {"ping", "quiet", "pinging"}
        PROVE  {freed[n] : n \in 1 .. Len(freed)} = 1 + extra .. count + extra
    <3>1. Len(freed) = count
      BY <2>2, <2>6 DEF OptInv, FreedSoFar
    <3>2. \A n \in 1 .. count : freed[n] \in 1 + extra .. count + extra
      BY <2>3, <2>4, <3>1
    <3>3. \A k \in 1 + extra .. count + extra :
            count + 1 + extra - k \in 1 .. count /\ freed[count + 1 + extra - k] = k
      BY <2>3, <2>4, <3>1
    <3>4. QED
      BY <3>1, <3>2, <3>3
  <2>7. 1 + extra .. count + extra = IF prog = "bonding1" THEN 1 .. count ELSE 2 .. count + 1
    <3>1. CASE prog = "bonding1"
      BY <2>2, <2>3, <3>1
    <3>2. CASE prog = "bonding0"
      BY <2>2, <2>3, <3>2
    <3>3. QED
      BY <2>1, <3>1, <3>2
  <2>8. QED
    BY <2>2, <2>5, <2>6, <2>7 DEF NamesFreedOnce
<1>2. QED
  BY <1>1, OptAlways, PTL

-----------------------------------------------------------------------------
(* The invariant of a whole run                                            *)

Conf ==
  INSTANCE BondConfig_proofs WITH
    pc <- cpc, Programs <- Progs, Commands <- {}, Bonds <- {"fresh"},
    Missing <- {}, Faulty <- {FALSE}, Meddling <- 0

FieldOf ==
  [b |-> "base_if", m |-> "bonding_mode", p |-> "primary", i |-> "miimon",
   u |-> "updelay", d |-> "downdelay", c |-> "use_carrier"]

(* What an option's variable keeps of it, and of the last of its kind.     *)
Kept(a) == IF a.opt \in {"b", "p"} THEN a.word ELSE a.arg

LastKept(o, otherwise) == IF Given(o) THEN Kept(Last(o)) ELSE otherwise

Offering == Places("a") \cup Places("r")

(* The variables hold the last of each option, and the list every slave.   *)
ToldLast ==
  /\ \A o \in DOMAIN FieldOf :
       /\ Given(o) => \E n \in Places(o) : \A m \in Places(o) : m <= n
       /\ o # "p" \/ prog = "bonding1" => opts[FieldOf[o]] = LastKept(o, NothingGiven[FieldOf[o]])
  /\ {opts.salves[n] : n \in 1 .. Len(opts.salves)} = {args[n].arg : n \in Offering}
  /\ Len(opts.salves) = Times("a") + Times("r")

Phases ==
  {"mode", "miimon", "updelay", "downdelay", "use_carrier", "slaves", "enslave", "raise",
   "primary", "ip", "done"}

(* Where the configuration is when main is where it is.                    *)
InStep ==
  /\ cpc \in Phases \cup {"idle"} /\ (prog = "bonding0" => cpc # "primary")
  /\ faulty = FALSE /\ running = FALSE /\ meddled = 0 /\ present = Ifs
  /\ cpc # "idle" => pc \in {"configure", "free", "ping", "quiet", "pinging"} /\ cmd = HandedOver
  /\ cpc # "idle" \/ pc = "configure" => opts.base_if \in Existing
  /\ pc \in {"free", "ping", "quiet", "pinging"} =>
       cpc = "done" \/ (cpc = "idle" /\ opts.base_if \notin Existing)

(* The machine before the configuration is called.                         *)
NotCalled ==
  cpc = "idle" =>
    /\ bond = Config!DefaultBond
    /\ IF pc = "ip_set" THEN addressed = {opts.base_if} \cap Existing /\ up = addressed
                        ELSE up = {} /\ addressed = {} /\ reported = FALSE

(* And afterwards.                                                         *)
Called == cpc # "idle" /\ prog = "bonding1" /\ Reasonable => Conf!EffectInv

WholeInv == OptInv /\ ToldLast /\ InStep /\ NotCalled /\ Called

(* A turn of the loop: the last option of a kind is the one just read or   *)
(* the one it was.                                                         *)
LEMMA OneMoreLast ==
  ASSUME OptionTypes, ToldLast, NEW kinds, Parsing(kinds)
  PROVE  \E a \in Args :
           /\ a.opt \in kinds /\ Read = a
           /\ \A o \in DOMAIN FieldOf :
                /\ Given(o)' => \E n \in Places(o)' : \A m \in Places(o)' : m <= n
                /\ \A d : LastKept(o, d)' = IF a.opt = o THEN Kept(a) ELSE LastKept(o, d)
           /\ {args'[n].arg : n \in Offering'} =
                {args[n].arg : n \in Offering} \cup (IF a.opt \in {"a", "r"} THEN {a.arg} ELSE {})
<1>1. PICK a \in Args : a.opt \in kinds /\ args' = Append(args, a)
  BY DEF Parsing
<1>2. args \in Seq(Args)
  BY DEF OptionTypes
<1>3. PICK last : last = Len(args) + 1
  OBVIOUS
<1>4. /\ Len(args') = last /\ args'[last] = a /\ last \notin DOMAIN args
      /\ DOMAIN args' = DOMAIN args \cup {last} /\ \A n \in DOMAIN args : args'[n] = args[n]
      /\ \A n \in DOMAIN args : n < last
  <2>1. /\ args' \in Seq(Args) /\ Len(args') = last /\ args'[last] = a /\ Len(args) \in Nat
        /\ DOMAIN args = 1 .. Len(args) /\ DOMAIN args' = 1 .. last
        /\ \A n \in DOMAIN args : args'[n] = args[n]
    BY <1>1, <1>2, <1>3
  <2>2. QED
    BY <1>3, <2>1
<1>5. last \in Nat /\ \A n \in DOMAIN args : n \in Nat
  BY <1>2, <1>3
<1>6. Read = a
  BY <1>4 DEF Read
<1>7. \A o : Places(o)' = IF a.opt = o THEN Places(o) \cup {last} ELSE Places(o)
  BY <1>4 DEF Places
<1>8. \A o : \A n \in Places(o) : n \in Nat /\ n < last /\ args'[n] = args[n]
  BY <1>4, <1>5 DEF Places
<1>9. ASSUME NEW o \in DOMAIN FieldOf
      PROVE  /\ Given(o)' => \E n \in Places(o)' : \A m \in Places(o)' : m <= n
             /\ \A d : LastKept(o, d)' = IF a.opt = o THEN Kept(a) ELSE LastKept(o, d)
  <2>1. CASE a.opt = o
    <3>1. PICK places : places = Places(o)'
      OBVIOUS
    <3>2. last \in places /\ \A m \in places : m <= last /\ m \in Nat
      BY <1>5, <1>7, <1>8, <2>1, <3>1
    <3>3. (CHOOSE n \in places : \A m \in places : m <= n) = last
      <4>1. \A n \in places : (\A m \in places : m <= n) => n = last
        BY <1>5, <3>2
      <4>2. \E n \in places : \A m \in places : m <= n
        BY <3>2
      <4>3. QED
        BY <4>1, <4>2
    <3>4. Given(o)'
      BY <3>1, <3>2 DEF Given
    <3>5. \A d : LastKept(o, d)' = Kept(args'[CHOOSE n \in places : \A m \in places : m <= n])
      BY <3>1, <3>4 DEF LastKept, Last
    <3>6. QED
      BY <1>4, <2>1, <3>1, <3>2, <3>3, <3>5
  <2>2. CASE a.opt # o
    <3>1. Places(o)' = Places(o)
      BY <1>7, <2>2
    <3>2. PICK place : place = CHOOSE n \in Places(o) : \A m \in Places(o) : m <= n
      OBVIOUS
    <3>3. Given(o) => place \in Places(o)
      BY <3>2 DEF ToldLast
    <3>4. Given(o) => args'[place] = args[place]
      BY <1>8, <3>3
    <3>5. Given(o)' <=> Given(o)
      BY <3>1 DEF Given
    <3>6. \A d : LastKept(o, d) = IF Given(o) THEN Kept(args[place]) ELSE d
      BY <3>2 DEF LastKept, Last
    <3>7. \A d : LastKept(o, d)' = IF Given(o) THEN Kept(args'[place]) ELSE d
      BY <3>1, <3>2, <3>5 DEF LastKept, Last
    <3>8. QED
      BY <2>2, <3>1, <3>4, <3>5, <3>6, <3>7 DEF ToldLast
  <2>3. QED
    BY <2>1, <2>2
<1>10. {args'[n].arg : n \in Offering'} =
         {args[n].arg : n \in Offering} \cup (IF a.opt \in {"a", "r"} THEN {a.arg} ELSE {})
  <2>1. Offering' = Offering \cup (IF a.opt \in {"a", "r"} THEN {last} ELSE {})
    BY <1>7 DEF Offering
  <2>2. \A n \in Offering : args'[n] = args[n]
    BY <1>8 DEF Offering
  <2>3. QED
    BY <1>4, <2>1, <2>2
<1>11. QED
  BY <1>1, <1>6, <1>9, <1>10

(* What a turn of the loop does to the variables that are handed over.     *)
LEMMA FieldsTaken ==
  ASSUME OptionTypes, Take
  PROVE  \E kinds :
           /\ Parsing(kinds) /\ prog' = prog
           /\ \A a \in Args : a.opt \in kinds /\ Read = a =>
                /\ \A o \in DOMAIN FieldOf : o # "p" \/ prog = "bonding1" =>
                     opts'[FieldOf[o]] = IF a.opt = o THEN Kept(a) ELSE opts[FieldOf[o]]
                /\ opts'.salves = IF a.opt \in {"a", "r"} THEN Append(opts.salves, a.arg) ELSE opts.salves
<1>1. opts \in OptsType /\ prog \in {"bonding0", "bonding1"}
  BY DEF OptionTypes, OptsType
<1>2. DOMAIN FieldOf = {"b", "m", "p", "i", "u", "d", "c"}
      /\ FieldOf["b"] = "base_if" /\ FieldOf["m"] = "bonding_mode" /\ FieldOf["p"] = "primary"
      /\ FieldOf["i"] = "miimon" /\ FieldOf["u"] = "updelay" /\ FieldOf["d"] = "downdelay"
      /\ FieldOf["c"] = "use_carrier"
  BY DEF FieldOf
<1>3. CASE TakeNoBonding
  <2>1. PICK v : opts' = [opts EXCEPT !.no_bondig = v]
    BY <1>3 DEF TakeNoBonding, Set
  <2>2. \A f \in {"base_if", "bonding_mode", "primary", "miimon", "updelay", "downdelay", "use_carrier", "salves"} :
          opts'[f] = opts[f]
    BY <1>1, <2>1 DEF OptsType
  <2>3. Parsing({"no_bonding"}) /\ prog' = prog
    BY <1>3 DEF TakeNoBonding, Parsing
  <2>4. QED
    BY <1>2, <2>2, <2>3
<1>4. CASE TakeSwitch
  <2>1. Parsing({"switch"}) /\ prog' = prog /\ opts' = opts
    BY <1>4 DEF TakeSwitch, Parsing
  <2>2. QED
    BY <1>2, <2>1
<1>5. CASE TakeFlag
  <2>1. Parsing({"no_ping", "no_switch"}) /\ prog' = prog
    BY <1>5 DEF TakeFlag, Parsing
  <2>2. PICK v, w : opts' = [opts EXCEPT ![v] = w] /\ v = Read.opt
    BY <1>5 DEF TakeFlag, Set
  <2>3. v \in {"no_ping", "no_switch"} =>
          \A f \in {"base_if", "bonding_mode", "primary", "miimon", "updelay", "downdelay", "use_carrier", "salves"} :
            opts'[f] = opts[f]
    BY <1>1, <2>2 DEF OptsType
  <2>4. QED
    BY <1>2, <2>1, <2>2, <2>3
<1>6. CASE TakeBond
  <2>1. Parsing({"b"}) /\ prog' = prog
    BY <1>6 DEF TakeBond, Parsing
  <2>2. PICK v, w : opts' = [opts EXCEPT !.base_if = w, !.no_bondig = v] /\ w = Read.word
    BY <1>6 DEF TakeBond
  <2>3. /\ \A f \in {"bonding_mode", "primary", "miimon", "updelay", "downdelay", "use_carrier", "salves"} :
              opts'[f] = opts[f]
        /\ opts'.base_if = w
    BY <1>1, <2>2 DEF OptsType
  <2>4. ASSUME NEW a \in Args, a.opt \in {"b"}, Read = a
        PROVE  /\ \A o \in DOMAIN FieldOf : o # "p" \/ prog = "bonding1" =>
                     opts'[FieldOf[o]] = IF a.opt = o THEN Kept(a) ELSE opts[FieldOf[o]]
               /\ opts'.salves = IF a.opt \in {"a", "r"} THEN Append(opts.salves, a.arg) ELSE opts.salves
    <3>1. a.opt = "b" /\ opts'.base_if = a.word /\ opts'.salves = opts.salves
      BY <2>2, <2>3, <2>4
    <3>2. \A o \in DOMAIN FieldOf : o # "b" => opts'[FieldOf[o]] = opts[FieldOf[o]]
      BY <1>2, <2>3
    <3>3. QED
      BY <1>2, <3>1, <3>2 DEF Kept
  <2>5. QED
    BY <2>1, <2>4
<1>7. CASE TakeSlave
  <2>1. Parsing({"a", "r"}) /\ prog' = prog
    BY <1>7 DEF TakeSlave, Parsing
  <2>2. PICK v, w, l : opts' = [opts EXCEPT !.add_flag = w, !.salves = l, !.no_ping = v]
                       /\ l = Append(opts.salves, Read.arg)
    BY <1>7 DEF TakeSlave, WithSlave
  <2>3. /\ \A f \in {"base_if", "bonding_mode", "primary", "miimon", "updelay", "downdelay", "use_carrier"} :
              opts'[f] = opts[f]
        /\ opts'.salves = l
    BY <1>1, <2>2 DEF OptsType
  <2>4. ASSUME NEW a \in Args, a.opt \in {"a", "r"}, Read = a
        PROVE  /\ \A o \in DOMAIN FieldOf : o # "p" \/ prog = "bonding1" =>
                     opts'[FieldOf[o]] = IF a.opt = o THEN Kept(a) ELSE opts[FieldOf[o]]
               /\ opts'.salves = IF a.opt \in {"a", "r"} THEN Append(opts.salves, a.arg) ELSE opts.salves
    <3>1. opts'.salves = Append(opts.salves, a.arg)
      BY <2>2, <2>3, <2>4
    <3>2. \A o \in DOMAIN FieldOf : opts'[FieldOf[o]] = opts[FieldOf[o]] /\ a.opt # o
      BY <1>2, <2>3, <2>4
    <3>3. QED
      BY <2>4, <3>1, <3>2
  <2>5. QED
    BY <2>1, <2>4
<1>8. CASE TakeMode
  <2>1. Parsing({"m"}) /\ prog' = prog
    BY <1>8 DEF TakeMode, Parsing
  <2>2. PICK v : opts' = [opts EXCEPT !.bonding_mode = v] /\ v = Read.arg
    BY <1>8 DEF TakeMode, Set
  <2>3. /\ \A f \in {"base_if", "primary", "miimon", "updelay", "downdelay", "use_carrier", "salves"} :
              opts'[f] = opts[f]
        /\ opts'.bonding_mode = v
    BY <1>1, <2>2 DEF OptsType
  <2>4. ASSUME NEW a \in Args, a.opt \in {"m"}, Read = a
        PROVE  /\ \A o \in DOMAIN FieldOf : o # "p" \/ prog = "bonding1" =>
                     opts'[FieldOf[o]] = IF a.opt = o THEN Kept(a) ELSE opts[FieldOf[o]]
               /\ opts'.salves = IF a.opt \in {"a", "r"} THEN Append(opts.salves, a.arg) ELSE opts.salves
    <3>1. a.opt = "m" /\ opts'.bonding_mode = a.arg /\ opts'.salves = opts.salves
      BY <2>2, <2>3, <2>4
    <3>2. \A o \in DOMAIN FieldOf : o # "m" => opts'[FieldOf[o]] = opts[FieldOf[o]]
      BY <1>2, <2>3
    <3>3. QED
      BY <1>2, <3>1, <3>2 DEF Kept
  <2>5. QED
    BY <2>1, <2>4
<1>9. CASE TakePrimary
  <2>1. Parsing({"p"}) /\ prog' = prog /\ prog = "bonding1"
    BY <1>9 DEF TakePrimary, Parsing
  <2>2. PICK v : opts' = [opts EXCEPT !.primary = v] /\ v = Read.word
    BY <1>9 DEF TakePrimary, Set
  <2>3. /\ \A f \in {"base_if", "bonding_mode", "miimon", "updelay", "downdelay", "use_carrier", "salves"} :
              opts'[f] = opts[f]
        /\ opts'.primary = v
    BY <1>1, <2>2 DEF OptsType
  <2>4. ASSUME NEW a \in Args, a.opt \in {"p"}, Read = a
        PROVE  /\ \A o \in DOMAIN FieldOf : o # "p" \/ prog = "bonding1" =>
                     opts'[FieldOf[o]] = IF a.opt = o THEN Kept(a) ELSE opts[FieldOf[o]]
               /\ opts'.salves = IF a.opt \in {"a", "r"} THEN Append(opts.salves, a.arg) ELSE opts.salves
    <3>1. a.opt = "p" /\ opts'.primary = a.word /\ opts'.salves = opts.salves
      BY <2>2, <2>3, <2>4
    <3>2. \A o \in DOMAIN FieldOf : o # "p" => opts'[FieldOf[o]] = opts[FieldOf[o]]
      BY <1>2, <2>3
    <3>3. QED
      BY <1>2, <3>1, <3>2 DEF Kept
  <2>5. QED
    BY <2>1, <2>4
<1>10. CASE TakeNumber
  <2>0. /\ DOMAIN NumberOf = {"i", "u", "d", "c"}
        /\ NumberOf["i"] = "miimon" /\ NumberOf["u"] = "updelay"
        /\ NumberOf["d"] = "downdelay" /\ NumberOf["c"] = "use_carrier"
    BY DEF NumberOf
  <2>1. Parsing({"i", "u", "d", "c"}) /\ prog' = prog
    BY <1>10, <2>0 DEF TakeNumber, Parsing
  <2>2. PICK k, v : opts' = [opts EXCEPT ![k] = v] /\ v = Read.arg /\ k = NumberOf[Read.opt]
    BY <1>10 DEF TakeNumber, Set
  <2>3. k \in {"miimon", "updelay", "downdelay", "use_carrier"} =>
           /\ \A f \in {"base_if", "bonding_mode", "primary", "miimon", "updelay", "downdelay", "use_carrier", "salves"} \ {k} :
              opts'[f] = opts[f]
           /\ opts'[k] = v
    BY <1>1, <2>2 DEF OptsType
  <2>4. QED
    BY <1>2, <2>0, <2>1, <2>2, <2>3 DEF Kept
<1>11. CASE TakeUnknown
  <2>1. opts' = opts /\ prog' = prog
    BY <1>11 DEF TakeUnknown, Parsing
  <2>2. PICK kinds : kinds = {"unknown"} \cup (IF prog = "bonding0" THEN {"p"} ELSE {})
    OBVIOUS
  <2>3. Parsing(kinds)
    BY <1>11, <2>2 DEF TakeUnknown
  <2>4. QED
    BY <1>1, <1>2, <2>1, <2>2, <2>3
<1>12. QED
  BY <1>3, <1>4, <1>5, <1>6, <1>7, <1>8, <1>9, <1>10, <1>11 DEF Take

(* So the variables keep up with the command line.                         *)
LEMMA TakeTellsLast ==
  ASSUME OptInv, ToldLast, Take
  PROVE  ToldLast'
<1>1. OptionTypes /\ OptionTypes'
  BY TakeStep DEF OptInv
<1>2. PICK kinds :
           /\ Parsing(kinds) /\ prog' = prog
           /\ \A a \in Args : a.opt \in kinds /\ Read = a =>
                /\ \A o \in DOMAIN FieldOf : o # "p" \/ prog = "bonding1" =>
                     opts'[FieldOf[o]] = IF a.opt = o THEN Kept(a) ELSE opts[FieldOf[o]]
                /\ opts'.salves = IF a.opt \in {"a", "r"} THEN Append(opts.salves, a.arg) ELSE opts.salves
  BY <1>1, FieldsTaken
<1>3. PICK a \in Args :
           /\ a.opt \in kinds /\ Read = a
           /\ \A o \in DOMAIN FieldOf :
                /\ Given(o)' => \E n \in Places(o)' : \A m \in Places(o)' : m <= n
                /\ \A d : LastKept(o, d)' = IF a.opt = o THEN Kept(a) ELSE LastKept(o, d)
           /\ {args'[n].arg : n \in Offering'} =
                {args[n].arg : n \in Offering} \cup (IF a.opt \in {"a", "r"} THEN {a.arg} ELSE {})
  BY <1>1, <1>2, OneMoreLast
<1>4. PICK b \in Args :
           /\ b.opt \in kinds /\ Read = b
           /\ \A o : /\ Times(o) \in Nat
                     /\ Times(o)' = IF b.opt = o THEN Times(o) + 1 ELSE Times(o)
  BY <1>1, <1>2, OneMoreOption
<1>5. /\ \A o \in DOMAIN FieldOf : o # "p" \/ prog = "bonding1" =>
              opts'[FieldOf[o]] = IF a.opt = o THEN Kept(a) ELSE opts[FieldOf[o]]
      /\ opts'.salves = IF a.opt \in {"a", "r"} THEN Append(opts.salves, a.arg) ELSE opts.salves
  BY <1>2, <1>3
<1>6. ASSUME NEW o \in DOMAIN FieldOf
      PROVE  /\ Given(o)' => \E n \in Places(o)' : \A m \in Places(o)' : m <= n
             /\ o # "p" \/ prog' = "bonding1" => opts'[FieldOf[o]] = LastKept(o, NothingGiven[FieldOf[o]])'
  <2>1. PICK d : d = NothingGiven[FieldOf[o]]
    OBVIOUS
  <2>2. LastKept(o, NothingGiven[FieldOf[o]])' = LastKept(o, d)'
    <3>1. d' = d /\ NothingGiven[FieldOf[o]]' = d
      BY <2>1 DEF NothingGiven, FieldOf
    <3>2. QED
      BY <3>1 DEF LastKept, Last
  <2>3. o # "p" \/ prog = "bonding1" => opts[FieldOf[o]] = LastKept(o, d)
    BY <2>1 DEF ToldLast
  <2>4. QED
    BY <1>2, <1>3, <1>5, <2>2, <2>3
<1>7. PICK old, new : old = opts.salves /\ new = opts'.salves
  OBVIOUS
<1>8. PICK S : S = ArgsOf("a") \cup ArgsOf("r")
  OBVIOUS
<1>9. old \in Seq(S) /\ new \in Seq(S)
  BY <1>1, <1>7, <1>8 DEF OptionTypes
<1>10. new = IF a.opt \in {"a", "r"} THEN Append(old, a.arg) ELSE old
  BY <1>5, <1>7
<1>11. {new[n] : n \in 1 .. Len(new)} =
          {old[n] : n \in 1 .. Len(old)} \cup (IF a.opt \in {"a", "r"} THEN {a.arg} ELSE {})
  <2>1. CASE a.opt \in {"a", "r"}
    <3>1. PICK k : k = Len(old)
      OBVIOUS
    <3>2. k \in Nat /\ Len(new) = k + 1 /\ new[k + 1] = a.arg /\ \A n \in 1 .. k : new[n] = old[n]
      BY <1>9, <1>10, <2>1, <3>1
    <3>3. 1 .. k + 1 = 1 .. k \cup {k + 1}
      BY <3>2
    <3>4. QED
      BY <2>1, <3>1, <3>2, <3>3
  <2>2. CASE a.opt \notin {"a", "r"}
    BY <1>10, <2>2
  <2>3. QED
    BY <2>1, <2>2
<1>12. Len(new) = Times("a")' + Times("r")'
  <2>1. Len(new) = IF a.opt \in {"a", "r"} THEN Len(old) + 1 ELSE Len(old)
    BY <1>9, <1>10
  <2>2. Len(old) = Times("a") + Times("r") /\ a = b
    BY <1>3, <1>4, <1>7 DEF ToldLast
  <2>3. Times("a") \in Nat /\ Times("r") \in Nat
        /\ Times("a")' = (IF a.opt = "a" THEN Times("a") + 1 ELSE Times("a"))
        /\ Times("r")' = (IF a.opt = "r" THEN Times("r") + 1 ELSE Times("r"))
    BY <1>4, <2>2
  <2>4. QED
    BY <2>1, <2>2, <2>3
<1>13. {new[n] : n \in 1 .. Len(new)} = {args'[n].arg : n \in Offering'}
  BY <1>3, <1>7, <1>11 DEF ToldLast
<1>14. QED
  BY <1>6, <1>7, <1>12, <1>13 DEF ToldLast

(* Nothing else touches them.                                              *)
LEMMA ToldLastKept ==
  ASSUME ToldLast, UNCHANGED <<prog, args, opts>>
  PROVE  ToldLast'
<1>1. \A o : Places(o)' = Places(o) /\ (Given(o)' <=> Given(o)) /\ Times(o)' = Times(o)
  BY DEF Places, Given, Times
<1>2. NothingGiven' = NothingGiven /\ FieldOf' = FieldOf
  BY DEF NothingGiven, FieldOf
<1>3. ASSUME NEW o \in DOMAIN FieldOf
      PROVE  LastKept(o, NothingGiven[FieldOf[o]])' = LastKept(o, NothingGiven[FieldOf[o]])
  <2>1. PICK d, places :
          /\ d = NothingGiven[FieldOf[o]] /\ d = NothingGiven[FieldOf[o]]'
          /\ places = Places(o) /\ places = Places(o)'
    BY <1>1, <1>2
  <2>2. PICK place : place = CHOOSE n \in places : \A m \in places : m <= n
    OBVIOUS
  <2>3. LastKept(o, NothingGiven[FieldOf[o]]) = IF Given(o) THEN Kept(args[place]) ELSE d
    BY <2>1, <2>2 DEF LastKept, Last
  <2>4. LastKept(o, NothingGiven[FieldOf[o]])' = IF Given(o)' THEN Kept(args'[place]) ELSE d
    BY <2>1, <2>2 DEF LastKept, Last
  <2>5. QED
    BY <1>1, <2>3, <2>4
<1>4. Offering' = Offering /\ {args'[n].arg : n \in Offering'} = {args[n].arg : n \in Offering}
  BY <1>1 DEF Offering
<1>5. QED
  BY <1>1, <1>2, <1>3, <1>4 DEF ToldLast

(* Before the first option.                                                *)
LEMMA ToldLastStarts == Init => ToldLast
<1> SUFFICES ASSUME Init PROVE ToldLast
  OBVIOUS
<1>1. args = <<>> /\ opts = NothingGiven /\ NothingGiven.salves = <<>>
  BY DEF Init, NothingGiven
<1>2. \A o : Places(o) = {} /\ ~Given(o)
  BY <1>1 DEF Places, Given
<1>3. \A o : Times(o) = 0
  BY <1>2, FS_EmptySet DEF Times
<1>4. \A o, d : LastKept(o, d) = d
  BY <1>2 DEF LastKept, Last
<1>5. Offering = {}
  BY <1>2 DEF Offering
<1>6. Len(<<>>) = 0 /\ 1 .. 0 = {} /\ 0 + 0 = 0
  OBVIOUS
<1>7. Len(opts.salves) = 0
  BY <1>1, <1>6
<1>8. {opts.salves[n] : n \in 1 .. Len(opts.salves)} = {args[n].arg : n \in Offering}
  BY <1>5, <1>6, <1>7
<1>9. QED
  BY <1>1, <1>2, <1>3, <1>4, <1>6, <1>7, <1>8 DEF ToldLast

-----------------------------------------------------------------------------
(* The configuration as it is called                                       *)

(* What the module of the configuration takes for granted.                 *)
LEMMA ConfAssumed == Conf!ConfigAssumption
BY BondingAssumption, OptionsAssumption
   DEF Conf!ConfigAssumption, OptionsAssumption, BondingAssumption

(* The two instances of the configuration, that of the model and the one   *)
(* with its proofs, are the same.                                          *)
LEMMA SameOperators ==
  /\ \A o, v : Config!InRange(o, v) = Conf!InRange(o, v)
  /\ \A v, w : Config!Rounded(v, w) = Conf!Rounded(v, w)
  /\ Config!DefaultBond = Conf!DefaultBond /\ Config!PrimaryModes = Conf!PrimaryModes
  /\ Config!Order = Conf!Order /\ \A step : Config!After(step) = Conf!After(step)
<1>1. ASSUME NEW o, NEW v PROVE Config!InRange(o, v) = Conf!InRange(o, v)
  BY DEF Config!InRange, Conf!InRange
<1>2. ASSUME NEW v, NEW w PROVE Config!Rounded(v, w) = Conf!Rounded(v, w)
  BY DEF Config!Rounded, Conf!Rounded, Config!Multiple, Conf!Multiple
<1>3. Config!DefaultBond = Conf!DefaultBond /\ Config!PrimaryModes = Conf!PrimaryModes
  BY DEF Config!DefaultBond, Conf!DefaultBond, Config!PrimaryModes, Conf!PrimaryModes
<1>4. Config!Order = Conf!Order
  BY DEF Config!Order, Conf!Order, Config!Seq0, Conf!Seq0, Config!Seq1, Conf!Seq1
<1>5. ASSUME NEW step PROVE Config!After(step) = Conf!After(step)
  BY <1>4 DEF Config!After, Conf!After, Config!Order, Conf!Order, Config!Seq0, Conf!Seq0, Config!Seq1, Conf!Seq1
<1>6. QED
  BY <1>1, <1>2, <1>3, <1>4, <1>5

(* So are the writes to the files of the bond.                             *)
LEMMA SameWrite ==
  ASSUME NEW o, NEW v, Config!WriteSysfs(o, v)
  PROVE  Conf!WriteSysfs(o, v)
<1>1. Config!InRange(o, v) = Conf!InRange(o, v)
  BY DEF Config!InRange, Conf!InRange
<1>2. Config!Accepts(o, v) = Conf!Accepts(o, v)
  BY <1>1 DEF Config!Accepts, Conf!Accepts, Config!PrimaryModes, Conf!PrimaryModes
<1>3. Config!Written(o, v) = Conf!Written(o, v)
  BY DEF Config!Written, Conf!Written, Config!Rounded, Conf!Rounded, Config!Multiple, Conf!Multiple
<1>4. Config!UpAfter(o, v) = Conf!UpAfter(o, v)
  BY DEF Config!UpAfter, Conf!UpAfter
<1>5. QED
  BY <1>2, <1>3, <1>4 DEF Config!WriteSysfs, Conf!WriteSysfs, Config!RefusalSeen, Conf!RefusalSeen

(* So are the tuples that their steps leave alone, and the steps.          *)
LEMMA SameFrame ==
  /\ Config!kernel = <<bond, up, present, addressed>> /\ Conf!kernel = <<bond, up, present, addressed>>
  /\ Config!given = <<prog, cmd, faulty, running>> /\ Conf!given = <<prog, cmd, faulty, running>>
  /\ Config!kernel' = <<bond', up', present', addressed'>> /\ Conf!kernel' = <<bond', up', present', addressed'>>
  /\ Config!given' = <<prog', cmd', faulty', running'>> /\ Conf!given' = <<prog', cmd', faulty', running'>>
BY DEF Config!kernel, Conf!kernel, Config!given, Conf!given

LEMMA SameStep == Config!config_bond => Conf!config_bond
<1> SUFFICES ASSUME Config!config_bond PROVE Conf!config_bond
  OBVIOUS
<1>1. ASSUME NEW option \in Config!Options, Config!WriteOption(option)
      PROVE  option \in Conf!Options /\ Conf!WriteOption(option)
  <2>1. option \in Conf!Options
    BY DEF Config!Options, Conf!Options
  <2>2. cpc = option /\ cpc' = Conf!After(option)
    BY <1>1, SameOperators DEF Config!WriteOption
  <2>3. UNCHANGED <<present, addressed, prog, cmd, faulty, running, i, meddled>>
    BY <1>1, SameFrame DEF Config!WriteOption
  <2>4. \/ cmd[option] # -1 /\ Config!WriteSysfs(option, cmd[option])
        \/ /\ cmd[option] = -1 /\ (option # "mode" \/ cmd.ifn = Bond)
           /\ UNCHANGED <<bond, up, reported>>
        \/ Config!EmptyModeFails(option)
    BY <1>1 DEF Config!WriteOption
  <2>5. Config!EmptyModeFails(option) => Conf!EmptyModeFails(option)
    BY DEF Config!EmptyModeFails, Conf!EmptyModeFails
  <2>6. \/ cmd[option] # -1 /\ Conf!WriteSysfs(option, cmd[option])
        \/ /\ cmd[option] = -1 /\ (option # "mode" \/ cmd.ifn = Bond)
           /\ UNCHANGED <<bond, up, reported>>
        \/ Conf!EmptyModeFails(option)
    BY <2>4, <2>5, SameWrite
  <2>7. UNCHANGED Conf!given
    BY <2>3, SameFrame
  <2>8. QED
    BY <2>1, <2>2, <2>3, <2>6, <2>7 DEF Conf!WriteOption
<1>2. CASE Config!SlavesDone
  <2>1. cpc = "slaves" /\ i > Len(cmd.slaves) /\ cpc' = Conf!After("slaves")
    BY <1>2, SameOperators DEF Config!SlavesDone
  <2>2. UNCHANGED <<bond, up, present, addressed, prog, cmd, faulty, running, i, reported, meddled>>
    BY <1>2, SameFrame DEF Config!SlavesDone
  <2>3. UNCHANGED Conf!kernel /\ UNCHANGED Conf!given
    BY <2>2, SameFrame
  <2>4. QED
    BY <2>1, <2>2, <2>3 DEF Conf!SlavesDone, Conf!config_bond
<1>3. CASE Config!SlaveAbsent
  <2>1. UNCHANGED <<bond, up, present, addressed, prog, cmd, faulty, running, meddled>>
    BY <1>3, SameFrame DEF Config!SlaveAbsent
  <2>2. UNCHANGED Conf!kernel /\ UNCHANGED Conf!given
    BY <2>1, SameFrame
  <2>3. QED
    BY <1>3, <2>1, <2>2 DEF Config!SlaveAbsent, Conf!SlaveAbsent, Config!dev_bond_if_exist, Conf!dev_bond_if_exist,
       Config!SlaveHandled, Conf!SlaveHandled, Config!Advanced, Conf!Advanced, Conf!config_bond
<1>4. CASE Config!SlaveDown
  <2>1. UNCHANGED <<bond, present, addressed, prog, cmd, faulty, running, i, meddled>>
    BY <1>4, SameFrame DEF Config!SlaveDown
  <2>2. UNCHANGED Conf!given
    BY <2>1, SameFrame
  <2>3. QED
    BY <1>4, <2>1, <2>2 DEF Config!SlaveDown, Conf!SlaveDown, Config!dev_bond_if_exist, Conf!dev_bond_if_exist,
       Config!IfUpDown, Conf!IfUpDown, Config!TakenDown, Conf!TakenDown, Conf!config_bond
<1>5. CASE Config!Enslave
  <2>1. UNCHANGED <<present, addressed, prog, cmd, faulty, running, meddled>>
    BY <1>5, SameFrame DEF Config!Enslave
  <2>2. UNCHANGED Conf!given
    BY <2>1, SameFrame
  <2>3. Conf!WriteSysfs(IF cmd.add THEN "+slave" ELSE "-slave", cmd.slaves[i])
    BY <1>5, SameWrite DEF Config!Enslave
  <2>4. QED
    BY <1>5, <2>1, <2>2, <2>3 DEF Config!Enslave, Conf!Enslave,
       Config!SlaveHandled, Conf!SlaveHandled, Config!Advanced, Conf!Advanced, Conf!config_bond
<1>6. CASE Config!Raise
  <2>1. UNCHANGED <<bond, present, addressed, prog, cmd, faulty, running, meddled>>
    BY <1>6, SameFrame DEF Config!Raise
  <2>2. UNCHANGED Conf!given
    BY <2>1, SameFrame
  <2>3. QED
    BY <1>6, <2>1, <2>2 DEF Config!Raise, Conf!Raise, Config!IfUpDown, Conf!IfUpDown,
       Config!Raised, Conf!Raised, Config!Advanced, Conf!Advanced, Conf!config_bond
<1>7. CASE Config!Primary
  <2>1. UNCHANGED <<present, addressed, prog, cmd, faulty, running, i, meddled>>
    BY <1>7, SameFrame DEF Config!Primary
  <2>2. UNCHANGED Conf!given
    BY <2>1, SameFrame
  <2>3. \/ cmd.primary # None /\ Conf!WriteSysfs("primary", cmd.primary)
        \/ cmd.primary = None /\ UNCHANGED <<bond, up, reported>>
    BY <1>7, SameWrite DEF Config!Primary
  <2>4. cpc = "primary" /\ cpc' = Conf!After("primary")
    BY <1>7, SameOperators DEF Config!Primary
  <2>5. QED
    BY <2>1, <2>2, <2>3, <2>4 DEF Conf!Primary, Conf!config_bond
<1>8. CASE Config!SetIp
  <2>1. UNCHANGED <<bond, present, prog, cmd, faulty, running, i, meddled>>
    BY <1>8, SameFrame DEF Config!SetIp
  <2>2. UNCHANGED Conf!given
    BY <2>1, SameFrame
  <2>3. QED
    BY <1>8, <2>1, <2>2 DEF Config!SetIp, Conf!SetIp, Config!SetIfIp, Conf!SetIfIp, Conf!config_bond
<1>9. QED
  BY <1>1, <1>2, <1>3, <1>4, <1>5, <1>6, <1>7, <1>8 DEF Config!config_bond, Conf!config_bond

(* Where a step of the configuration leads.                                *)
LEMMA PhaseKept ==
  ASSUME Config!config_bond, cpc \in Phases \cup {"idle"}, prog \in {"bonding0", "bonding1"},
         prog = "bonding0" => cpc # "primary"
  PROVE  /\ cpc \notin {"idle", "done"} /\ cpc' \in Phases /\ (prog = "bonding0" => cpc' # "primary")
         /\ UNCHANGED <<prog, cmd, faulty, running, present, meddled>>
<1>1. Conf!config_bond
  BY SameStep
<1>2. /\ prog = "bonding1" =>
           /\ Conf!After("mode") = "miimon"
           /\ Conf!After("miimon") = "updelay"    /\ Conf!After("updelay") = "downdelay"
           /\ Conf!After("downdelay") = "use_carrier"
           /\ Conf!After("use_carrier") = "slaves" /\ Conf!After("slaves") = "primary"
           /\ Conf!After("primary") = "ip"
      /\ prog = "bonding0" =>
           /\ Conf!After("slaves") = "mode"
           /\ Conf!After("mode") = "miimon"       /\ Conf!After("miimon") = "updelay"
           /\ Conf!After("updelay") = "downdelay" /\ Conf!After("downdelay") = "use_carrier"
           /\ Conf!After("use_carrier") = "ip"
  BY Conf!NextStep, ConfAssumed
<1>3. \/ cpc \in {"mode", "miimon", "updelay", "downdelay", "use_carrier"} /\ cpc' = Conf!After(cpc)
      \/ cpc = "slaves" /\ cpc' \in {Conf!After("slaves"), "raise", "slaves", "enslave"}
      \/ cpc = "enslave" /\ cpc' \in {"raise", "slaves"}
      \/ cpc = "raise" /\ cpc' = "slaves"
      \/ cpc = "primary" /\ cpc' = Conf!After("primary")
      \/ cpc = "ip" /\ cpc' = "done"
  BY <1>1 DEF Conf!config_bond, Conf!WriteOption, Conf!Options, Conf!SlavesDone, Conf!SlaveAbsent,
     Conf!SlaveDown, Conf!Enslave, Conf!SlaveHandled, Conf!Raise, Conf!Primary, Conf!SetIp
<1>4. UNCHANGED <<prog, cmd, faulty, running, present, meddled>>
  BY <1>1 DEF Conf!config_bond, Conf!WriteOption, Conf!Options, Conf!SlavesDone, Conf!SlaveAbsent,
     Conf!SlaveDown, Conf!Enslave, Conf!SlaveHandled, Conf!Raise, Conf!Primary, Conf!SetIp,
     Conf!given, Conf!kernel
<1>5. QED
  BY <1>2, <1>3, <1>4 DEF Phases

-----------------------------------------------------------------------------
(* What is handed over                                                     *)

(* A list names fewer than it has places when one of them comes twice.     *)
LEMMA FewerNames ==
  ASSUME NEW S, NEW list \in Seq(S)
  PROVE  (\E n \in 1 .. Len(list) : \E m \in 1 .. n - 1 : list[m] = list[n]) <=>
           Cardinality({list[n] : n \in 1 .. Len(list)}) < Len(list)
<1>1. PICK count, names : count = Len(list) /\ names = {list[n] : n \in 1 .. Len(list)}
  OBVIOUS
<1>2. count \in Nat /\ DOMAIN list = 1 .. count
  BY <1>1
<1>3. list \in [1 .. count -> names] /\ \A t \in names : \E n \in 1 .. count : list[n] = t
  <2>1. list = [n \in 1 .. count |-> list[n]]
    BY <1>2
  <2>2. \A n \in 1 .. count : list[n] \in names
    BY <1>1
  <2>3. QED
    BY <1>1, <2>1, <2>2
<1>4. list \in Surjection(1 .. count, names)
  BY <1>3 DEF Surjection
<1>5. IsFiniteSet(1 .. count) /\ Cardinality(1 .. count) = count
  BY <1>2, FS_Interval
<1>6. /\ IsFiniteSet(names) /\ Cardinality(names) <= count
      /\ Cardinality(names) = count <=> list \in Injection(1 .. count, names)
  BY <1>4, <1>5, FS_Surjection
<1>7. Cardinality(names) \in Nat
  BY <1>6, FS_CardinalityType
<1>8. list \in Injection(1 .. count, names) <=>
        \A m, n \in 1 .. count : list[m] = list[n] => m = n
  BY <1>2, <1>3 DEF Injection, IsInjective
<1>9. (\A m, n \in 1 .. count : list[m] = list[n] => m = n) <=>
        ~ \E n \in 1 .. count : \E m \in 1 .. n - 1 : list[m] = list[n]
  <2>1. ASSUME \A m, n \in 1 .. count : list[m] = list[n] => m = n
        PROVE  ~ \E n \in 1 .. count : \E m \in 1 .. n - 1 : list[m] = list[n]
    BY <1>2, <2>1
  <2>2. ASSUME ~ \E n \in 1 .. count : \E m \in 1 .. n - 1 : list[m] = list[n]
        PROVE  \A m, n \in 1 .. count : list[m] = list[n] => m = n
    <3>1. \A m, n \in 1 .. count : m < n => list[m] # list[n]
      BY <1>2, <2>2
    <3>2. QED
      BY <1>2, <3>1
  <2>3. QED
    BY <2>1, <2>2
<1>10. (\E n \in 1 .. count : \E m \in 1 .. n - 1 : list[m] = list[n]) <=> Cardinality(names) # count
  BY <1>6, <1>8, <1>9
<1>11. Cardinality(names) # count <=> Cardinality(names) < count
  <2>1. PICK many : many = Cardinality(names)
    OBVIOUS
  <2>2. many \in Nat /\ many <= count
    BY <1>6, <1>7, <2>1
  <2>3. QED
    BY <1>2, <2>1, <2>2
<1>12. QED
  BY <1>1, <1>10, <1>11

(* The last of each option, whatever would hold without it.                *)
LEMMA LastGiven ==
  ASSUME OptionTypes, ToldLast, NEW o \in DOMAIN FieldOf, NEW d
  PROVE  /\ Given(o) => \E a \in Args :
              a.opt = o /\ \A e : LastOf(o, e) = a.arg /\ LastWord(o, e) = a.word /\ LastKept(o, e) = Kept(a)
         /\ ~Given(o) => LastOf(o, d) = d /\ LastWord(o, d) = d /\ LastKept(o, d) = d
<1>1. PICK place : place = CHOOSE n \in Places(o) : \A m \in Places(o) : m <= n
  OBVIOUS
<1>2. Given(o) => place \in Places(o)
  BY <1>1 DEF ToldLast
<1>3. Last(o) = args[place]
  BY <1>1 DEF Last
<1>4. \A n \in Places(o) : args[n] \in Args /\ args[n].opt = o
  <2>1. args \in Seq(Args)
    BY DEF OptionTypes
  <2>2. QED
    BY <2>1 DEF Places
<1>5. QED
  BY <1>2, <1>3, <1>4 DEF LastOf, LastWord, LastKept

(* The variable holds its argument, but for the two that keep the word.    *)
LEMMA LastAgrees ==
  ASSUME OptionTypes, ToldLast, NEW o \in DOMAIN FieldOf, o # "p" \/ prog = "bonding1", NEW d,
         o \in {"b", "p"} => Apart(o)
  PROVE  /\ Given(o) => opts[FieldOf[o]] = LastOf(o, d)
         /\ ~Given(o) => opts[FieldOf[o]] = NothingGiven[FieldOf[o]] /\ LastOf(o, d) = d
<1>1. opts[FieldOf[o]] = LastKept(o, NothingGiven[FieldOf[o]])
  BY DEF ToldLast
<1>2. ASSUME Given(o) PROVE LastKept(o, NothingGiven[FieldOf[o]]) = LastOf(o, d)
  <2>1. PICK a \in Args :
          a.opt = o /\ \A e : LastOf(o, e) = a.arg /\ LastWord(o, e) = a.word /\ LastKept(o, e) = Kept(a)
    BY <1>2, LastGiven
  <2>2. o \in {"b", "p"} => a.word = a.arg
    BY <2>1 DEF Apart
  <2>3. QED
    BY <2>1, <2>2 DEF Kept
<1>3. ~Given(o) => LastKept(o, NothingGiven[FieldOf[o]]) = NothingGiven[FieldOf[o]] /\ LastOf(o, d) = d
  BY LastGiven
<1>4. QED
  BY <1>1, <1>2, <1>3

(* The bond is looked for under the last word of -b.                       *)
LEMMA BondLookedFor ==
  ASSUME OptionTypes, ToldLast
  PROVE  opts.base_if = LastWord("b", Bond)
<1>1. "b" \in DOMAIN FieldOf /\ FieldOf["b"] = "base_if" /\ NothingGiven["base_if"] = Bond
  BY BondingAssumption DEF BondingAssumption, FieldOf, NothingGiven
<1>2. opts.base_if = LastKept("b", Bond)
  BY <1>1 DEF ToldLast
<1>3. CASE Given("b")
  <2>1. PICK a \in Args :
          a.opt = "b" /\ \A e : LastOf("b", e) = a.arg /\ LastWord("b", e) = a.word /\ LastKept("b", e) = Kept(a)
    BY <1>1, <1>3, LastGiven
  <2>2. QED
    BY <1>2, <2>1 DEF Kept
<1>4. CASE ~Given("b")
  BY <1>2, <1>4 DEF LastKept, LastWord
<1>5. QED
  BY <1>3, <1>4

Configuring == pc \in {"configure", "free", "ping", "quiet", "pinging"}

(* What a reasonable command line makes main hand over.                    *)
LEMMA WhatIsHandedOver ==
  ASSUME OptInv, ToldLast, Configuring, Reasonable, prog = "bonding1"
  PROVE  /\ opts.base_if = Bond /\ opts.add_flag = 1
         /\ opts.salves \in Seq(Ifs) /\ Len(opts.salves) = Times("a")
         /\ {opts.salves[n] : n \in 1 .. Len(opts.salves)} = Added
         /\ opts.bonding_mode = LastOf("m", 0) /\ opts.bonding_mode \in 0 .. 6
         /\ \A o \in DOMAIN NumberOf :
              /\ opts[NumberOf[o]] \in Int
              /\ IF Given(o) THEN opts[NumberOf[o]] = LastOf(o, 0) /\ Config!InRange(NumberOf[o], LastOf(o, 0))
                             ELSE opts[NumberOf[o]] = -1
         /\ opts.primary = LastOf("p", None) /\ opts.primary \in Ifs \cup {None}
         /\ (opts.primary # None <=> Given("p"))
<1> USE DEF OptInv
<1>1. DOMAIN FieldOf = {"b", "m", "p", "i", "u", "d", "c"} /\ DOMAIN NumberOf = {"i", "u", "d", "c"}
      /\ FieldOf["b"] = "base_if" /\ FieldOf["m"] = "bonding_mode" /\ FieldOf["p"] = "primary"
      /\ FieldOf["i"] = "miimon" /\ FieldOf["u"] = "updelay" /\ FieldOf["d"] = "downdelay"
      /\ FieldOf["c"] = "use_carrier"
      /\ \A o \in DOMAIN NumberOf : FieldOf[o] = NumberOf[o] /\ o # "p"
  BY DEF FieldOf, NumberOf
<1>2. /\ NothingGiven.base_if = Bond /\ NothingGiven.bonding_mode = -1 /\ NothingGiven.primary = None
      /\ \A o \in DOMAIN NumberOf : NothingGiven[NumberOf[o]] = -1
  <2>1. Default = Bond /\ None = ""
    BY BondingAssumption DEF BondingAssumption
  <2>2. NothingGiven.base_if = Default /\ NothingGiven.bonding_mode = -1 /\ NothingGiven.primary = ""
    BY DEF NothingGiven
  <2>3. /\ NothingGiven["miimon"] = -1 /\ NothingGiven["updelay"] = -1
        /\ NothingGiven["downdelay"] = -1 /\ NothingGiven["use_carrier"] = -1
    BY DEF NothingGiven
  <2>4. \A o \in DOMAIN NumberOf : NumberOf[o] \in {"miimon", "updelay", "downdelay", "use_carrier"}
    BY DEF NumberOf
  <2>5. QED
    BY <2>1, <2>2, <2>3, <2>4
<1>3. ~NeedsHelp
  BY DEF Chosen, Configuring
<1>4. opts.base_if = Bond
  BY <1>1, <1>2, LastAgrees DEF Reasonable
<1>5. opts.add_flag = 1
  <2>1. opts.add_flag \in {-1, 0, 1}
    BY DEF OptionTypes
  <2>2. QED
    BY <1>3, <2>1 DEF NeedsHelp, Told, Reasonable
<1>6. {opts.salves[n] : n \in 1 .. Len(opts.salves)} = Added
  <2>1. Offering = Places("a")
    BY DEF Offering, Reasonable, Given
  <2>2. QED
    BY <2>1 DEF ToldLast, Added
<1>7. Len(opts.salves) = Times("a")
  <2>1. Times("r") = 0
    BY FS_EmptySet DEF Times, Reasonable, Given
  <2>2. Times("a") \in Nat
    BY PlacesFinite DEF OptionTypes
  <2>3. QED
    BY <2>1, <2>2 DEF ToldLast
<1>8. opts.salves \in Seq(Ifs)
  <2>1. PICK S : S = ArgsOf("a") \cup ArgsOf("r")
    OBVIOUS
  <2>2. opts.salves \in Seq(S)
    BY <2>1 DEF OptionTypes
  <2>3. PICK list : list = opts.salves
    OBVIOUS
  <2>4. \A n \in 1 .. Len(list) : list[n] \in Ifs
    BY <1>6, <2>3 DEF Reasonable
  <2>5. QED
    BY <2>2, <2>3, <2>4
<1>9. opts.bonding_mode = LastOf("m", 0) /\ opts.bonding_mode \in 0 .. 6
  <2>1. opts.bonding_mode # -1
    BY <1>3, <1>5 DEF NeedsHelp
  <2>2. Given("m")
    BY <2>1 DEF Told
  <2>3. opts.bonding_mode = LastOf("m", 0)
    BY <1>1, <2>2, LastAgrees
  <2>4. QED
    BY <2>3 DEF Reasonable, Config!InRange
<1>10. ASSUME NEW o \in DOMAIN NumberOf
       PROVE  /\ opts[NumberOf[o]] \in Int
              /\ IF Given(o) THEN opts[NumberOf[o]] = LastOf(o, 0) /\ Config!InRange(NumberOf[o], LastOf(o, 0))
                             ELSE opts[NumberOf[o]] = -1
  <2>1. o \in DOMAIN FieldOf /\ FieldOf[o] = NumberOf[o] /\ o # "p" /\ o \in {"i", "u", "d", "c"}
    BY <1>1
  <2>2. Given(o) => opts[NumberOf[o]] = LastOf(o, 0)
    BY <2>1, LastAgrees
  <2>3. ~Given(o) => opts[NumberOf[o]] = -1
    BY <1>2, <2>1, LastAgrees
  <2>4. Given(o) => LastOf(o, 0) \in Int
    BY <2>1, LastGiven, BondingAssumption DEF BondingAssumption
  <2>5. QED
    BY <2>2, <2>3, <2>4 DEF Reasonable
<1>11. opts.primary = LastOf("p", None) /\ opts.primary \in Ifs \cup {None} /\ (opts.primary # None <=> Given("p"))
  <2>1. Apart("b") /\ Apart("p")
    BY DEF Reasonable
  <2>2. "p" \in DOMAIN FieldOf
    BY <1>1
  <2>3. /\ Given("p") => opts[FieldOf["p"]] = LastOf("p", None)
        /\ ~Given("p") => opts[FieldOf["p"]] = NothingGiven[FieldOf["p"]] /\ LastOf("p", None) = None
    BY <2>1, <2>2, LastAgrees
  <2>4. /\ Given("p") => opts.primary = LastOf("p", None)
        /\ ~Given("p") => opts.primary = None /\ LastOf("p", None) = None
    BY <1>1, <1>2, <2>3
  <2>5. QED
    BY <2>4, BondingAssumption DEF Reasonable, BondingAssumption
<1>12. QED
  BY <1>4, <1>5, <1>6, <1>7, <1>8, <1>9, <1>10, <1>11

(* Whether a command line is reasonable depends on nothing else.           *)
LEMMA LineKept ==
  ASSUME UNCHANGED args
  PROVE  Reasonable' <=> Reasonable
<1>1. \A o : Places(o)' = Places(o) /\ (Given(o)' <=> Given(o))
  BY DEF Places, Given
<1>2. ASSUME NEW o, NEW d PROVE LastOf(o, d)' = LastOf(o, d) /\ LastWord(o, d)' = LastWord(o, d)
  <2>1. PICK places : places = Places(o) /\ places = Places(o)'
    BY <1>1
  <2>2. PICK place : place = CHOOSE n \in places : \A m \in places : m <= n
    OBVIOUS
  <2>3. Last(o) = args[place] /\ Last(o)' = args'[place]
    BY <2>1, <2>2 DEF Last
  <2>4. QED
    BY <1>1, <2>3 DEF LastOf, LastWord
<1>3. Added' = Added
  BY <1>1 DEF Added
<1>4. /\ LastOf("b", Bond)' = LastOf("b", Bond) /\ LastOf("m", 0)' = LastOf("m", 0)
      /\ LastOf("i", 0)' = LastOf("i", 0) /\ LastOf("p", None)' = LastOf("p", None)
      /\ \A o \in DOMAIN NumberOf : LastOf(o, 0)' = LastOf(o, 0)
  BY <1>2
<1>5. \A o \in DOMAIN NumberOf : (Config!InRange(NumberOf[o], LastOf(o, 0)))' <=> Config!InRange(NumberOf[o], LastOf(o, 0))
  BY <1>4 DEF Config!InRange, NumberOf
<1>6. (Config!InRange("mode", LastOf("m", 0)))' <=> Config!InRange("mode", LastOf("m", 0))
  BY <1>4 DEF Config!InRange
<1>7. (LastOf("m", 0) \in Config!PrimaryModes)' <=> LastOf("m", 0) \in Config!PrimaryModes
  BY <1>4 DEF Config!PrimaryModes
<1>8. \A o : Apart(o)' <=> Apart(o)
  <2>1. ASSUME NEW o PROVE LastOf(o, None)' = LastOf(o, None) /\ LastWord(o, None)' = LastWord(o, None)
    BY <1>2
  <2>2. QED
    BY <2>1 DEF Apart
<1>9. QED
  BY <1>1, <1>3, <1>4, <1>5, <1>6, <1>7, <1>8 DEF Reasonable, NumberOf

(* The command is one that dev_bond_config_bond can be called with, and    *)
(* one that the kernel can carry out.                                      *)
LEMMA HandedOverFits ==
  ASSUME OptInv, ToldLast, Configuring, Reasonable, prog = "bonding1"
  PROVE  HandedOver \in Conf!Command
<1>1. /\ opts.base_if = Bond /\ opts.add_flag = 1
      /\ opts.salves \in Seq(Ifs) /\ opts.bonding_mode \in 0 .. 6
      /\ \A o \in DOMAIN NumberOf : opts[NumberOf[o]] \in Int
      /\ opts.primary \in Ifs \cup {None}
  BY WhatIsHandedOver
<1>2. opts.miimon \in Int /\ opts.updelay \in Int /\ opts.downdelay \in Int /\ opts.use_carrier \in Int
  <2>1. /\ DOMAIN NumberOf = {"i", "u", "d", "c"} /\ NumberOf["i"] = "miimon"
        /\ NumberOf["u"] = "updelay" /\ NumberOf["d"] = "downdelay" /\ NumberOf["c"] = "use_carrier"
    BY DEF NumberOf
  <2>2. QED
    BY <1>1, <2>1
<1>3. PICK list : list = opts.salves
  OBVIOUS
<1>4. HandedOver =
        [ifn |-> Bond, slaves |-> list, mode |-> opts.bonding_mode, add |-> TRUE,
         miimon |-> opts.miimon, updelay |-> opts.updelay, downdelay |-> opts.downdelay,
         use_carrier |-> opts.use_carrier, primary |-> opts.primary]
  BY <1>1, <1>3 DEF HandedOver
<1>5. list \in Seq(Ifs) /\ opts.bonding_mode \in -1 .. 6 /\ opts.bonding_mode # -1
  BY <1>1, <1>3
<1>6. QED
  BY <1>1, <1>2, <1>4, <1>5 DEF Conf!Command

LEMMA HandedOverFeasible ==
  ASSUME OptInv, ToldLast, Configuring, Reasonable, prog = "bonding1", cmd = HandedOver
  PROVE  Conf!Feasible /\ cmd.add
<1>1. /\ opts.base_if = Bond /\ opts.add_flag = 1
      /\ opts.bonding_mode = LastOf("m", 0) /\ opts.bonding_mode \in 0 .. 6
      /\ \A o \in DOMAIN NumberOf :
            /\ opts[NumberOf[o]] \in Int
            /\ IF Given(o) THEN opts[NumberOf[o]] = LastOf(o, 0) /\ Config!InRange(NumberOf[o], LastOf(o, 0))
                           ELSE opts[NumberOf[o]] = -1
      /\ (opts.primary # None <=> Given("p"))
  BY WhatIsHandedOver
<1>2. /\ cmd.ifn = Bond /\ cmd.add /\ cmd.mode = opts.bonding_mode /\ cmd.miimon = opts.miimon
      /\ cmd.updelay = opts.updelay /\ cmd.downdelay = opts.downdelay
      /\ cmd.use_carrier = opts.use_carrier /\ cmd.primary = opts.primary
  BY <1>1 DEF HandedOver
<1>3. /\ DOMAIN NumberOf = {"i", "u", "d", "c"} /\ NumberOf["i"] = "miimon"
      /\ NumberOf["u"] = "updelay" /\ NumberOf["d"] = "downdelay" /\ NumberOf["c"] = "use_carrier"
  BY DEF NumberOf
<1>4. Conf!Legal
  <2>1. \A o \in DOMAIN NumberOf : opts[NumberOf[o]] # -1 => Conf!InRange(NumberOf[o], opts[NumberOf[o]])
    BY <1>1, SameOperators
  <2>2. \A o \in {"miimon", "updelay", "downdelay", "use_carrier"} : cmd[o] # -1 => Conf!InRange(o, cmd[o])
    BY <1>2, <1>3, <2>1
  <2>3. Conf!InRange("mode", cmd["mode"])
    BY <1>1, <1>2 DEF Conf!InRange
  <2>4. QED
    BY <2>2, <2>3 DEF Conf!Legal, Conf!Options
<1>5. cmd.updelay # -1 \/ cmd.downdelay # -1 => cmd.miimon > 0
  <2>1. (cmd.updelay # -1 => Given("u")) /\ (cmd.downdelay # -1 => Given("d"))
    BY <1>1, <1>2, <1>3
  <2>2. Given("i") => cmd.miimon = LastOf("i", 0)
    BY <1>1, <1>2, <1>3
  <2>3. LastOf("i", 0) > 0 => Given("i")
    BY DEF LastOf
  <2>4. QED
    BY <2>1, <2>2, <2>3 DEF Reasonable
<1>6. cmd.primary # None => cmd.mode \in Conf!PrimaryModes
  BY <1>1, <1>2, SameOperators DEF Reasonable
<1>7. QED
  BY <1>2, <1>4, <1>5, <1>6 DEF Conf!Feasible

(* Of the machine before the first step, in the state that Call leads to.  *)
LEMMA UntriedAfter == Conf!Untried' => Conf!EffectInv'
<1>1. Conf!Untried => Conf!EffectInv
  BY Conf!UntriedEffect, ConfAssumed
<1>2. QED
  BY <1>1, PTL

-----------------------------------------------------------------------------
(* The steps of a whole run                                                *)

(* A step of main leaves the machine and the configuration alone.          *)
LEMMA CalledKept ==
  ASSUME Called, UNCHANGED configuration, prog' = prog, cpc # "idle" => args' = args
  PROVE  Called'
<1> SUFFICES ASSUME cpc' # "idle", prog' = "bonding1", Reasonable' PROVE Conf!EffectInv'
  BY DEF Called
<1>1. cpc # "idle" /\ prog = "bonding1" /\ args' = args
  BY DEF configuration
<1>2. Conf!EffectInv
  BY <1>1, LineKept DEF Called
<1>3. UNCHANGED Conf!vars
  BY DEF configuration, Conf!vars, Conf!kernel, Conf!given
<1>4. QED
  BY <1>2, <1>3, Conf!EffectStep, ConfAssumed

(* Nor does it come past the call.                                         *)
LEMMA MainKeeps ==
  ASSUME WholeInv, getopt_loop \/ Choose \/ Free \/ StartPing \/ UNCHANGED vars,
         UNCHANGED configuration, pc' # "ip_set" \/ pc' = pc
  PROVE  InStep' /\ NotCalled' /\ Called'
<1>1. prog' = prog /\ cpc' = cpc /\ UNCHANGED <<bond, up, present, addressed, cmd, faulty, running, reported, meddled>>
  BY DEF getopt_loop, TakeNoBonding, TakeSwitch, TakeFlag, TakeBond, TakeSlave, TakeMode,
     TakePrimary, TakeNumber, TakeUnknown, Parsing, ParseEnds, Choose, Free, StartPing, vars, configuration
<1>2. CASE getopt_loop
  <2>1. pc = "parse" /\ pc' \in {"parse", "switched", "help", "choose"}
    BY <1>2 DEF getopt_loop, TakeNoBonding, TakeSwitch, TakeFlag, TakeBond, TakeSlave, TakeMode,
       TakePrimary, TakeNumber, TakeUnknown, Parsing, ParseEnds
  <2>2. cpc = "idle"
    BY <2>1 DEF WholeInv, InStep
  <2>3. InStep'
    BY <1>1, <2>1, <2>2 DEF WholeInv, InStep
  <2>4. NotCalled'
    BY <1>1, <2>1, <2>2 DEF WholeInv, NotCalled, Config!DefaultBond
  <2>5. Called'
    BY <1>1, <2>2 DEF Called
  <2>6. QED
    BY <2>3, <2>4, <2>5
<1>3. CASE Choose \/ Free \/ StartPing \/ UNCHANGED vars
  <2>1. UNCHANGED <<args, opts>>
    BY <1>3 DEF Choose, Free, StartPing, vars
  <2>2. Called'
    BY <1>1, <2>1, CalledKept DEF WholeInv
  <2>3. HandedOver' = HandedOver
    BY <2>1 DEF HandedOver
  <2>4. \/ pc = "choose" /\ pc' \in {"no_name", "help"}
        \/ pc = "choose" /\ pc' = "configure" /\ opts.base_if \in Existing
        \/ pc = "choose" /\ pc' = "free" /\ opts.base_if \notin Existing
        \/ pc \in {"free", "ping"} /\ pc' \in {"free", "ping", "quiet", "pinging"}
        \/ pc' = pc
    BY <1>3 DEF Choose, Free, StartPing, vars, AfterFree
  <2>5. InStep'
    BY <1>1, <2>1, <2>3, <2>4 DEF WholeInv, InStep
  <2>6. NotCalled'
    BY <1>1, <2>1, <2>4 DEF WholeInv, NotCalled, Config!DefaultBond
  <2>7. QED
    BY <2>2, <2>5, <2>6
<1>4. QED
  BY <1>2, <1>3

(* --no_bonding with -b.                                                   *)
LEMMA ChooseIpKeeps ==
  ASSUME WholeInv, ChooseIp
  PROVE  InStep' /\ NotCalled' /\ Called'
<1>1. /\ pc = "choose" /\ pc' = "ip_set" /\ UNCHANGED <<prog, args, opts>>
      /\ UNCHANGED <<bond, present, cmd, cpc, i, faulty, running, meddled>>
      /\ Config!SetIfIp(opts.base_if)
  BY DEF ChooseIp, Choose
<1>2. cpc = "idle" /\ up = {} /\ addressed = {} /\ faulty = FALSE /\ present = Ifs
      /\ bond = Config!DefaultBond
  BY <1>1 DEF WholeInv, InStep, NotCalled
<1>3. addressed' = {opts.base_if} \cap Existing /\ up' = addressed'
  <2>1. present \cup {Bond} = Existing
    BY <1>2, BondingAssumption DEF BondingAssumption
  <2>2. QED
    BY <1>1, <1>2, <2>1 DEF Config!SetIfIp
<1>4. InStep'
  BY <1>1, <1>2 DEF WholeInv, InStep
<1>5. NotCalled'
  BY <1>1, <1>2, <1>3 DEF NotCalled, Config!DefaultBond
<1>6. Called'
  BY <1>1, <1>2 DEF Called
<1>7. QED
  BY <1>4, <1>5, <1>6

(* The call.                                                               *)
LEMMA CallKeeps ==
  ASSUME WholeInv, Call
  PROVE  InStep' /\ NotCalled' /\ Called'
<1>1. /\ pc = "configure" /\ cpc = "idle" /\ cmd' = HandedOver /\ i' = 1
      /\ UNCHANGED <<prog, args, opts, pc, bond, up, present, addressed, faulty, running, reported, meddled>>
      /\ cpc' = Conf!Order[1]
  BY SameOperators DEF Call, vars
<1>2. cpc' = IF prog = "bonding0" THEN "slaves" ELSE "mode"
  <2>1. prog \in {"bonding0", "bonding1"}
    BY DEF WholeInv, OptInv, OptionTypes
  <2>2. QED
    BY <1>1, <2>1, Conf!NextStep, ConfAssumed
<1>3. HandedOver' = HandedOver
  BY <1>1 DEF HandedOver
<1>4. InStep'
  BY <1>1, <1>2, <1>3 DEF WholeInv, InStep, Phases
<1>5. NotCalled'
  BY <1>2 DEF NotCalled
<1>6. Called'
  <2> SUFFICES ASSUME prog' = "bonding1", Reasonable' PROVE Conf!EffectInv'
    BY DEF Called
  <2>1. prog = "bonding1" /\ Reasonable
    BY <1>1, LineKept
  <2>2. HandedOver \in Conf!Command
    BY <1>1, <2>1, HandedOverFits DEF WholeInv, Configuring
  <2>3. /\ faulty = FALSE /\ running = FALSE /\ meddled = 0 /\ present = Ifs
        /\ bond = Conf!DefaultBond /\ up = {} /\ addressed = {} /\ reported = FALSE
    BY <1>1, SameOperators DEF WholeInv, InStep, NotCalled
  <2>4. Conf!Command' = Conf!Command /\ Conf!DefaultBond' = Conf!DefaultBond /\ Conf!Order' = Conf!Order
    BY <1>1 DEF Conf!Command, Conf!DefaultBond, Conf!Order, Conf!Seq0, Conf!Seq1
  <2>5. Conf!Untried'
    BY <1>1, <2>1, <2>2, <2>3, <2>4 DEF Conf!Untried
  <2>6. QED
    BY <2>5, UntriedAfter
<1>7. QED
  BY <1>4, <1>5, <1>6

(* A step of dev_bond_config_bond, and its return.                         *)
LEMMA ConfigStepKeeps ==
  ASSUME WholeInv, ConfigStep
  PROVE  InStep' /\ NotCalled' /\ Called'
<1>1. Config!config_bond /\ UNCHANGED <<prog, args, opts, pc>>
  BY DEF ConfigStep, vars
<1>2. prog \in {"bonding0", "bonding1"}
  BY DEF WholeInv, OptInv, OptionTypes
<1>3. /\ cpc \notin {"idle", "done"} /\ cpc' \in Phases /\ (prog = "bonding0" => cpc' # "primary")
      /\ UNCHANGED <<prog, cmd, faulty, running, present, meddled>>
  BY <1>1, <1>2, PhaseKept DEF WholeInv, InStep
<1>4. HandedOver' = HandedOver
  BY <1>1 DEF HandedOver
<1>5. cpc' # "idle"
  BY <1>3 DEF Phases
<1>6. InStep'
  BY <1>1, <1>3, <1>4, <1>5 DEF WholeInv, InStep
<1>7. NotCalled'
  BY <1>5 DEF NotCalled
<1>8. Called'
  <2> SUFFICES ASSUME prog' = "bonding1", Reasonable' PROVE Conf!EffectInv'
    BY DEF Called
  <2>1. Conf!EffectInv
    BY <1>1, <1>3, LineKept DEF WholeInv, Called
  <2>2. Conf!Next
    BY <1>1, SameStep DEF Conf!Next
  <2>3. QED
    BY <2>1, <2>2, Conf!EffectStep, ConfAssumed
<1>9. QED
  BY <1>6, <1>7, <1>8

LEMMA ReturnKeeps ==
  ASSUME WholeInv, Return
  PROVE  InStep' /\ NotCalled' /\ Called'
<1>1. /\ cpc = "done" /\ pc = "configure" /\ pc' = "free" /\ UNCHANGED <<prog, args, opts>>
      /\ UNCHANGED configuration
  BY DEF Return, Configured
<1>2. cpc' = cpc /\ UNCHANGED <<present, cmd, faulty, running, meddled>>
  BY <1>1 DEF configuration
<1>3. HandedOver' = HandedOver
  BY <1>1 DEF HandedOver
<1>4. InStep'
  BY <1>1, <1>2, <1>3 DEF WholeInv, InStep
<1>5. NotCalled'
  BY <1>1, <1>2 DEF NotCalled
<1>6. Called'
  BY <1>1, CalledKept DEF WholeInv
<1>7. QED
  BY <1>4, <1>5, <1>6

(* Together.                                                               *)
LEMMA WholeStarts == BondingInit => WholeInv
<1> SUFFICES ASSUME BondingInit PROVE WholeInv
  OBVIOUS
<1>1. /\ Init /\ faulty = FALSE /\ running = FALSE /\ reported = FALSE /\ meddled = 0
      /\ cpc = "idle" /\ present = Ifs /\ bond = Config!DefaultBond /\ up = {} /\ addressed = {}
  BY DEF BondingInit
<1>2. pc = "parse"
  BY <1>1 DEF Init
<1>3. OptInv /\ ToldLast
  BY <1>1, OptStarts, ToldLastStarts
<1>4. InStep
  BY <1>1, <1>2 DEF InStep
<1>5. NotCalled /\ Called
  BY <1>1, <1>2 DEF NotCalled, Called
<1>6. QED
  BY <1>3, <1>4, <1>5 DEF WholeInv

LEMMA WholeStep == WholeInv /\ OptInv' /\ [BondingNext]_allvars => WholeInv'
<1> SUFFICES ASSUME WholeInv, OptInv', [BondingNext]_allvars PROVE WholeInv'
  OBVIOUS
<1>1. ToldLast'
  <2>1. CASE Take
    BY <2>1, TakeTellsLast DEF WholeInv
  <2>2. CASE UNCHANGED <<prog, args, opts>>
    BY <2>2, ToldLastKept DEF WholeInv
  <2>3. Take \/ UNCHANGED <<prog, args, opts>>
    BY DEF BondingNext, allvars, vars, MainStep, ChooseIp, ChooseOther, Call, ConfigStep, Return, BondingExited,
       getopt_loop, Take, ParseEnds, Choose, Configured, Free, StartPing
  <2>4. QED
    BY <2>1, <2>2, <2>3
<1>2. InStep' /\ NotCalled' /\ Called'
  <2>1. CASE MainStep
    <3>1. getopt_loop \/ Free \/ StartPing
      BY <2>1 DEF MainStep
    <3>2. pc' # "ip_set"
      BY <3>1 DEF getopt_loop, TakeNoBonding, TakeSwitch, TakeFlag, TakeBond, TakeSlave, TakeMode,
         TakePrimary, TakeNumber, TakeUnknown, Parsing, ParseEnds, Free, AfterFree, StartPing
    <3>3. QED
      BY <2>1, <3>1, <3>2, MainKeeps DEF MainStep
  <2>2. CASE ChooseIp
    BY <2>2, ChooseIpKeeps
  <2>3. CASE ChooseOther
    BY <2>3, MainKeeps DEF ChooseOther
  <2>4. CASE Call
    BY <2>4, CallKeeps
  <2>5. CASE ConfigStep
    BY <2>5, ConfigStepKeeps
  <2>6. CASE Return
    BY <2>6, ReturnKeeps
  <2>7. CASE UNCHANGED allvars
    <3>1. UNCHANGED vars /\ UNCHANGED configuration /\ pc' = pc
      BY <2>7 DEF allvars, vars
    <3>2. QED
      BY <3>1, MainKeeps
  <2>8. QED
    BY <2>1, <2>2, <2>3, <2>4, <2>5, <2>6, <2>7 DEF BondingNext, BondingExited
<1>3. QED
  BY <1>1, <1>2 DEF WholeInv

LEMMA WholeAlways == BondingSpec => []WholeInv
<1>1. BondingInit => WholeInv
  BY WholeStarts
<1>2. QED
  BY <1>1, WholeStep, OptAlways, PTL DEF BondingSpec

-----------------------------------------------------------------------------
(* The result                                                              *)

(* What a reasonable command line has brought about when main ends.        *)
LEMMA EffectOfLine ==
  ASSUME WholeInv, pc \in {"quiet", "pinging"}, prog = "bonding1", Reasonable
  PROVE  InForce
<1>1. OptInv /\ ToldLast /\ Configuring
  BY DEF WholeInv, Configuring
<1>2. /\ opts.base_if = Bond /\ opts.salves \in Seq(Ifs) /\ Len(opts.salves) = Times("a")
      /\ {opts.salves[n] : n \in 1 .. Len(opts.salves)} = Added
      /\ opts.bonding_mode = LastOf("m", 0) /\ opts.bonding_mode \in 0 .. 6
      /\ \A o \in DOMAIN NumberOf :
            /\ opts[NumberOf[o]] \in Int
            /\ IF Given(o) THEN opts[NumberOf[o]] = LastOf(o, 0) /\ Config!InRange(NumberOf[o], LastOf(o, 0))
                           ELSE opts[NumberOf[o]] = -1
      /\ opts.primary = LastOf("p", None)
  BY <1>1, WhatIsHandedOver
<1>3. cpc = "done" /\ cmd = HandedOver
  <2>1. opts.base_if \in Existing
    BY <1>2, BondingAssumption DEF BondingAssumption
  <2>2. QED
    BY <2>1 DEF WholeInv, InStep
<1>4. Conf!EffectInv /\ Conf!Feasible /\ cmd.add
  BY <1>1, <1>3, HandedOverFeasible DEF WholeInv, Called
<1>5. Conf!Smooth
  BY <1>4 DEF Conf!Smooth, WholeInv, InStep
<1>6. /\ bond.slaves = Conf!SlaveSet /\ Conf!SlaveSet \cup {Bond} \subseteq up /\ addressed = {Bond}
      /\ \A o \in Conf!Options : bond[o] = IF cmd[o] = -1 THEN Conf!DefaultBond[o] ELSE Conf!Asked(o)
      /\ bond.primary = cmd.primary
      /\ reported <=> Conf!Repeated(Len(cmd.slaves))
  BY <1>3, <1>4, <1>5, Conf!EffectInFull, ConfAssumed
<1>7. /\ cmd.slaves = opts.salves /\ cmd.mode = opts.bonding_mode /\ cmd.miimon = opts.miimon
      /\ cmd.updelay = opts.updelay /\ cmd.downdelay = opts.downdelay
      /\ cmd.use_carrier = opts.use_carrier /\ cmd.primary = opts.primary
  BY <1>3 DEF HandedOver
<1>8. bond.slaves = Added /\ Added \cup {Bond} \subseteq up /\ addressed = {Bond}
  BY <1>2, <1>6, <1>7 DEF Conf!SlaveSet
<1>9. reported <=> Cardinality(Added) < Times("a")
  <2>1. PICK list : list = opts.salves
    OBVIOUS
  <2>2. reported <=> \E n \in 1 .. Len(list) : \E m \in 1 .. n - 1 : list[m] = list[n]
    BY <1>6, <1>7, <2>1 DEF Conf!Repeated
  <2>3. list \in Seq(Ifs) /\ Len(list) = Times("a") /\ {list[n] : n \in 1 .. Len(list)} = Added
    BY <1>2, <2>1
  <2>4. (\E n \in 1 .. Len(list) : \E m \in 1 .. n - 1 : list[m] = list[n]) <=>
          Cardinality({list[n] : n \in 1 .. Len(list)}) < Len(list)
    BY <2>3, FewerNames
  <2>5. QED
    BY <2>2, <2>3, <2>4
<1>10. \A o \in DOMAIN NumberOf : ~Given(o) => \A d : LastOf(o, d) = d
  BY DEF LastOf
<1>11. /\ DOMAIN NumberOf = {"i", "u", "d", "c"} /\ NumberOf["i"] = "miimon"
       /\ NumberOf["u"] = "updelay" /\ NumberOf["d"] = "downdelay" /\ NumberOf["c"] = "use_carrier"
  BY DEF NumberOf
<1>12. /\ Conf!DefaultBond.mode = 0 /\ Conf!DefaultBond.miimon = 0 /\ Conf!DefaultBond.updelay = 0
       /\ Conf!DefaultBond.downdelay = 0 /\ Conf!DefaultBond.use_carrier = 1
  BY DEF Conf!DefaultBond
<1>13. bond.mode = LastOf("m", 0)
  BY <1>2, <1>6, <1>7 DEF Conf!Options, Conf!Asked
<1>14. ASSUME NEW o \in {"i", "u", "d", "c"}
       PROVE  bond[NumberOf[o]] =
                IF Given(o) THEN IF o \in {"u", "d"} THEN Conf!Rounded(LastOf(o, 0), bond.miimon) ELSE LastOf(o, 0)
                            ELSE Conf!DefaultBond[NumberOf[o]]
  <2>1. cmd[NumberOf[o]] = opts[NumberOf[o]] /\ NumberOf[o] \in Conf!Options
        /\ (NumberOf[o] \in {"updelay", "downdelay"} <=> o \in {"u", "d"})
    BY <1>7, <1>11 DEF Conf!Options
  <2>2. IF Given(o) THEN opts[NumberOf[o]] = LastOf(o, 0) /\ LastOf(o, 0) # -1
                    ELSE opts[NumberOf[o]] = -1
    BY <1>2, <1>11 DEF Config!InRange
  <2>3. QED
    BY <1>6, <2>1, <2>2 DEF Conf!Asked
<1>15. bond.miimon = LastOf("i", 0)
  BY <1>10, <1>11, <1>12, <1>14
<1>16. bond.use_carrier = LastOf("c", 1)
  <2>1. Given("c") => LastOf("c", 1) = LastOf("c", 0)
    BY DEF LastOf
  <2>2. QED
    BY <1>10, <1>11, <1>12, <1>14, <2>1
<1>17. bond.updelay = Conf!Rounded(LastOf("u", 0), bond.miimon)
       /\ bond.downdelay = Conf!Rounded(LastOf("d", 0), bond.miimon)
  <2>1. Conf!Rounded(0, bond.miimon) = 0
    <3>1. LastOf("i", 0) \in Nat
      <4>1. Given("i") => LastOf("i", 0) \in Int /\ LastOf("i", 0) >= 0
        BY <1>2, <1>11 DEF Config!InRange
      <4>2. QED
        BY <1>10, <1>11, <4>1
    <3>2. PICK k : k = bond.miimon
      OBVIOUS
    <3>3. k \in Nat /\ (k # 0 => 0 \div k = 0) /\ 0 * k = 0
      BY <1>15, <3>1, <3>2
    <3>4. Conf!Multiple(0, k) = 0
      BY <3>3 DEF Conf!Multiple
    <3>5. QED
      BY <3>2, <3>3, <3>4 DEF Conf!Rounded
  <2>2. QED
    BY <1>10, <1>11, <1>12, <1>14, <2>1
<1>18. bond.primary = LastOf("p", None)
  BY <1>2, <1>6, <1>7
<1>19. QED
  BY <1>8, <1>9, <1>13, <1>15, <1>16, <1>17, <1>18, SameOperators DEF InForce

(* From the command line to the kernel, for any interfaces and command     *)
(* lines of any length: what bonding1 was asked to configure is in force   *)
(* when it comes to its check or its end, and it printed that the kernel   *)
(* refused something only if a slave was given twice; an interface given   *)
(* with --no_bonding has the address and nothing else was done; the help   *)
(* text and a refusal of main leave the machine alone, and so does any     *)
(* command line while there is no interface named as the last word of its  *)
(* -b, the option itself when the name is attached to it.                  *)
THEOREM CommandEffective == BondingSpec => []CommandTakesEffect
<1>1. WholeInv => CommandTakesEffect
  <2> SUFFICES ASSUME WholeInv PROVE CommandTakesEffect
    OBVIOUS
  <2>1. pc \in {"quiet", "pinging"} /\ prog = "bonding1" /\ Reasonable => InForce
    BY EffectOfLine
  <2>2. opts.base_if = LastWord("b", Bond)
    BY BondLookedFor DEF WholeInv, OptInv
  <2>2a. ASSUME pc = "ip_set"
         PROVE  /\ bond = Config!DefaultBond /\ up = addressed
                /\ addressed = {opts.base_if} \cap Existing
                /\ Apart("b") => addressed = {LastOf("b", Bond)} \cap Existing
    <3>1. cpc = "idle"
      BY <2>2a DEF WholeInv, InStep
    <3>2. bond = Config!DefaultBond /\ up = addressed /\ addressed = {opts.base_if} \cap Existing
      BY <2>2a, <3>1 DEF WholeInv, NotCalled
    <3>3. Apart("b") => opts.base_if = LastOf("b", Bond)
      <4>1. "b" \in DOMAIN FieldOf /\ FieldOf["b"] = "base_if" /\ NothingGiven["base_if"] = Bond
        BY BondingAssumption DEF BondingAssumption, FieldOf, NothingGiven
      <4>2. QED
        BY <4>1, LastAgrees DEF WholeInv, OptInv
    <3>4. QED
      BY <3>2, <3>3
  <2>3. pc \in {"help", "no_name", "switched"} => Untouched
    <3>1. pc \in {"help", "no_name", "switched"} => cpc = "idle" /\ pc # "ip_set"
      BY DEF WholeInv, InStep
    <3>2. QED
      BY <3>1 DEF WholeInv, NotCalled, Untouched
  <2>4. ASSUME pc \in Ends, LastWord("b", Bond) \notin Existing
        PROVE  Untouched
    <3>1. cpc = "idle"
      BY <2>2, <2>4 DEF WholeInv, InStep
    <3>2. CASE pc = "ip_set"
      BY <2>2, <2>2a, <2>4, <3>2 DEF Untouched
    <3>3. CASE pc # "ip_set"
      BY <3>1, <3>3 DEF WholeInv, NotCalled, Untouched
    <3>4. QED
      BY <3>2, <3>3
  <2>5. QED
    BY <2>1, <2>2a, <2>3, <2>4 DEF CommandTakesEffect
<1>2. QED
  BY <1>1, WholeAlways, PTL
=============================================================================

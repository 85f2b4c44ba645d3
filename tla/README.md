# TLA+ models of network_tools

`network_tools` is a collection of small C programs for embedded Linux boards: ICMP probes
(`ping/`), set-up and supervision of a bonding interface (`bonding/`), and single-file reports
about the machine (`sys_check.c`, `arp/`, `cpu/`).  This directory holds TLA+ models of the
programs that keep state or have to do things in an order, TLC configurations that check
them on small instances, and proofs of all the safety properties these checks find to hold, and of one
refinement, for every value of the constants.

## 1. Inventory

| component | state | operations | what must be right |
|---|---|---|---|
| address table (`ping2.c`, the same code in `ping3.c`, `ping_client.c`) | `num`, `offset`, `ping_addr[]` (address, result) | init, add (search, double, append, sort), del (overwrite with 255.255.255.255, sort, shrink), get_resp, clear; send and recv store results | behaves like a set with one result per address; no access outside the array; the search is exact and ends |
| sweep, `ping2.c` `test()` | the table, the socket buffer, the four printed counts | add all neighbours, send, drain, show, clear, delete some, send, drain, show, get_resp | what is shown is what was received in that round; the loops end |
| flood, `ping_client.c` `test()` | four counters, loop counters, `errno`, one address | send, poll, bounded drain, final drain, report | no reply is lost or counted twice by the program; the report is reached |
| `ping3.c` `test()` | the table with one address | one send, one blocking receive | the answer is the answer to this request |
| set-up of the ping programs | two memory blocks, the raw socket, a second socket for one ioctl | `ping_addr_init`, binding to the interface, reading its address, `ping_addr_free` | a program that goes on has what it needs; nothing is left open; a failure is printed |
| `ping_main.c` | fixed table, shared memory segment | add without a duplicate check, send with a pause, receive | results go to tracked addresses |
| checksum (`inet_cksum`, `calc_chsum`, `in_cksum`) | none | one pass and two folds | a packet with its checksum verifies, a damaged one does not; the sum fits its type |
| `bonding1.c`/`bonding0.c` command line | option variables, `salves[]` | the option loop, the choice, the hand-over, freeing | what is handed over is what was asked for |
| `bonding1.c`/`bonding0.c` configuration | none of its own; the kernel's bond | writes to sysfs, ioctls on interfaces | the order is one the kernel accepts; nothing fails silently |
| `bonding1.c` check and failover | `success_ping`, `ping_mut`, `tinfo[]`; the kernel's active slave | one thread per slot, join, decide, switch the active slave, at most two rounds | no lost count, no switch away from a path that works, an end |
| `arp/check_arp.c` | the list of interfaces; the kernel's ARP table | one question per interface | the verdict was true at some moment of the call |
| `sys_check.c` | the list of PCI devices; the machine | read devices, nodes and the processor's name, report | the report counts what is installed and names the model |
| `cpu/`, `ssh/`, `compler_wapper/`, `arp/list_if.c` | none that outlives a call | read, format, print | formatting |

How they interact: the ping programs share code, not state; each meets the network through a
raw ICMP socket, which also delivers the ICMP traffic of every other process.  `bonding1`'s
`main` hands the parsed command to the configuration, which changes the kernel's bond through
sysfs and ioctl, and then turns into a daemon that probes the other slots with `ping(8)` from one
thread each and, when none answers, changes the bond's active slave.  The hard behaviours are
the threads and their counter, handles that outlive a round, results that outlive a round,
late, lost and foreign packets, the order the kernel demands, steps whose failure nobody
looks at, and loops whose end depends on the outside.  `PROJECT.json` lists each of them at its line.

## 2. Modules

| module | models | composed with |
|---|---|---|
| `PingAddrSet` | what the table promises: a set of addresses with results | |
| `PingAddrTable` | the array, its growth, the deletion mark, the binary search one round per step | refines `PingAddrSet` |
| `PingAddrTable_proofs` | its inductive invariant, three theorems, and that it refines `PingAddrSet` | extends `PingAddrTable` |
| `PingSweep` | `test()` of `ping2.c` and the network | `INSTANCE PingAddrSet` |
| `PingSweep_proofs` | four theorems about the sweep | extends `PingSweep` |
| `PingProbe` | `test()` of `ping_main.c` and of `ping3.c`, their array and the network | |
| `PingProbe_proofs` | six theorems about the single probes and their search | extends `PingProbe` |
| `PingFlood` | `test()` of `ping_client.c`, the receive buffer and the network | |
| `PingFlood_proofs` | three theorems about the flood | extends `PingFlood` |
| `BondKernel` | external: the kernel's rules for a bond | |
| `BondConfig` | the configuration sequences of `bonding1.c` and `bonding0.c` | extends `BondKernel` |
| `BondConfig_proofs` | its inductive invariant and five theorems about the configuration | extends `BondConfig` |
| `BondOptions` | `main` of `bonding1.c` and of `bonding0.c` | |
| `Bonding` | a run of either program, from the command line to the kernel's bond | extends `BondOptions`, `INSTANCE BondConfig` |
| `Bonding_proofs` | three theorems, from the command line to the kernel's bond | extends `Bonding`, `INSTANCE BondConfig_proofs` |
| `BondPing` | `ping`, `ping_all`, `single_ping`, `back_switch` | |
| `BondPing_proofs` | its two inductive invariants and seven theorems | extends `BondPing` |
| `IcmpChecksum` | the three checksum functions, `icmp_pack`, a damaged word, the test of `ping_client.c` | |
| `PingSetup` | set-up and release of the four ping programs | |
| `CheckArp` | `check_arp_by_ip`, `getarp` and the kernel's ARP table | |
| `SysCheck` | `sys_info_str` and what it calls, and the machine | |
| `Tools_proofs` | a theorem each about `PingSetup`, `CheckArp`, `SysCheck`, two about `IcmpChecksum` | extends the four |

The named parts of an inductive invariant stand in the proof module, before the lemmas that use them, with a comment that says why they hold.
Every `MC...` module gives the constants of its module values for TLC.  A definition marked
`fault:` is a mutation of the one below it; no specification uses it, and the `mutants` of
`PROJECT.json` say which property notices it.

### The address table

`PingAddrTable` has the C variables `num`, `offset`, `ping_addr` and the locals of
`ping_addr_binary_search` (`left`, `right`, `index`).  A call is entered (`AddEnter`, with the
doubling of the array), runs one round of the search loop per step (`SearchHit`, `SearchLower`,
`SearchUpper`, `SearchMiss`) and returns (`AddExit`, with append and sort).  The program is
sequential, so no two calls overlap.  Addresses are natural numbers, as `s_addr` is compared as one.

`ping_addr_sort` is any rearrangement in which no entry is greater than a later one.  The
comparison function returns 1 or 0 and never -1, which is not an ordering as `qsort` asks for;
glibc's merge sort only asks whether the result is positive and sorts all the same, and this
is what the model takes.  Entries that compare equal can come out in either order.  That matters
in one case: if 255.255.255.255 is itself tracked, the mark of a deletion ties with it.  `Del`
of `PingAddrSet` says what callers can rely on then.  `Add` of `PingAddrSet` lets a new address start with
any result: the slot it is given keeps the result of the address deleted from it, and
`ping_addr_add` does not clear it.

Run `address_table`: three addresses, one of them 255.255.255.255, an array that grows from
one entry to two and to four, calls in every order and any number of them (the state space is
finite).  It checks types and array bounds, that the table is sorted, that the search is exact, that each call has an effect and a return code the abstract set allows (`ImplementsSet`: `Held`, the function from the
addresses in use to their results, is the set the array stands for), and that each call returns.  Three addresses give windows of zero to three entries, a
full array before and after a growth, and ties with the mark.

### The sweep

`PingSweep` follows `test()` of `ping2.c`.  `pc` names the part of `test()` that runs, `todo` the
addresses its loop has not reached, `queue` is the socket's buffer, `net.out` the requests on their
way, and `seen` is a history variable: the requests whose reply `ping_recv` read.  The table is
`PingAddrSet`, so that the sweep relies on what was shown about the table and on nothing else.

Run `sweep`: three neighbours and the machine itself, the machine's address and one neighbour
among the deleted ones; failing sends and failing `calloc`; once a punctual network that
repeats one reply, once a late one with one foreign packet.  One foreign packet is enough to
overwrite a result, and two rounds are what the program runs.  A failing `poll` is not a step of its own here and in `PingProbe`:
the loop then makes one call of `ping_recv`, which is `Receive` when there is a packet, and otherwise returns at once from the non-blocking
socket and changes nothing.  `ReportTruthful` holds on
networks that answer within the second of the poll and carry no foreign packets.  When replies come late, the second round
counts them (the sequence number is not compared); `OkMeansAnswered` says what a result is still worth then.

Run `sweep_large_pid` expects a violation: `icmp_id` has 16 bits and is compared with the whole
`getpid()`; above 65535 no reply is recognised.

A foreign packet from a tracked address
(an error message, a reply to another process) turns `PING_OK` into `PING_ERROR_OCCUR`, which is why
`AnsweredMeansOk` excludes such packets.  `PING_NOT_RECEIVE` is counted by `ping_show_res` and
stored by nothing: silent addresses appear in the total only, and `ReportTruthful` says that they are
all that is missing from the four counts.

### The single probes

`PingProbe` has both programs that probe once; `prog` says which runs.  Their table is kept as the C array,
with an entry -1 for the memory in front of it, because `ping_main.c` stores a result at whatever index the
search returns, -1 included; `ping3.c` tests the index first.  `ping_main` never fills its table (256
entries, at most 254 addresses) and `ping3` adds one address to eight entries, so neither meets a full table;
`ProbeAssumption` says so.  The addresses are added in ascending order, in which the sort finds nothing to do.
`log` is a history variable, the packets `ping_recv` read.

Run `one_probe`: three neighbours and the machine itself, foreign hosts with an address below and above all of
them, one foreign packet from any host, one repeated reply, sends that fail for any subset; `ping3` probes a
neighbour or its own machine.  Three tracked addresses make the search take every branch, the strangers fall
off both its ends.  `LastPacketDecides` ties the array to the history of packets.  `CountsAddUp` holds for `ping_main`
alone, as only it stores `PING_NOT_RECEIVE`.  `OutsideOnlyByStranger` says exactly when `ping_main` writes in front of its array.
On a 64-bit glibc that is the upper half of the size field of a block that is never freed, and the program
goes on; other builds may do otherwise, which the model does not follow.  `Finishes` and `QuietAnswer` show two sides of `ping3`'s
blocking receive: without an answer it waits for ever, and so on a quiet network it reports nothing but successes.  A `ping3` that
probes its own machine reads its own request first and reports an error.

### The flood

`PingFlood` follows `test()` of `ping_client.c`: `i` and `j` are its loop counters, `i = T` stands for
the final drain, `failed_call` says that `errno` is not 0.  The receive buffer holds `RcvMax`
packets, and the network drops what does not fit.  `pid` is the process id and `icmp_id` what is left of it in the 16 bits of
the header: `icmp_pack` stores `htons(getpid())`, and `ping_recv` compares the field with the whole `getpid()` (`IsReply`), as in
`ping2.c`.  `PollFails` is `fd_poll` returning -1, which both loops take for a readable socket; it sets `errno`, and the
model lets it happen while `errno` is still 0.

Run `flood`: four requests, a buffer of two packets (so that it overflows while the program is sending),
two foreign packets, one repeated reply, all four kinds of network, a process id that fits the field and one above 65535.
`Conserved` is the book-keeping of replies in every state; `ReportComplete` and `Reports` concern what the user sees.  The first
two have a case for each size of the process id: under a large one every reply is read, counted in `rev_num`, stored as
`PING_ERROR_OCCUR` and not counted as good, so that the report of a perfect network says that no reply was good.  A foreign
packet is one that `ping_recv` does not take for a reply; a reply to another process whose id has the same lower 16 bits is
not among them, nor in the other models.
Run `flood_loopback` expects a violation: `for (j = 0; j < i; j++)` makes no call while `i` is 0, and a
packet queued before the poll after the first request is polled for ever.  Hence the condition
`~kind.near` of `Reports`.

### The bond's configuration

`BondKernel` is not code of the repository.  It holds the rules of the kernel's bonding driver that
decide which write is refused: the mode only without slaves and on a bond that is down, delays only
with an interval, the primary only in modes 1, 5 and 6, only an interface that is down and free can be
enslaved, and a number out of the option's range never (`InRange`).  `addressed` holds the interfaces that got the board's address.  `BondConfig` is the sequence of writes and ioctls of both programs (`Order`); `prog` says
which runs.

Run `bond_config`: three interfaces, commands that add or remove one or two slaves in three modes, with
and without delays and primary, on a fresh bond with any interfaces up and on a bond in use, on a
sound machine and on a faulty one, where interfaces are missing, `getifaddrs` or any write or ioctl
fails, and a network manager sets an interface up or down once.  Two slaves are what it takes
for one to depend on the other; one interference reaches every gap between two steps.
Run `bonding0_example` expects a violation: `bonding0` enslaves first, after which the kernel refuses the mode,
and the example of its own help text has no effect on the mode.  `bonding0` also leaves all slaves
down when it is given a command again, where `bonding1` brings each up before it takes the next
down; `RerunKeepsBondUp` is stated for `bonding1` on a sound machine.  `Feasible` says which commands
`ConfiguredAsAsked` speaks of: numbers in range, delays with an interval, a primary in a mode that has one, and for
`bonding0` no slave twice, since the second time takes it down, is refused, and does not bring it up again.

### The command line

`BondOptions` has one action per kind of option of `main`'s loop, and then the choice, the freeing of the names and the start
of the check; `prog` says whether `bonding1` or `bonding0` runs.  `opts` holds the variables the options set, under their
names in `main`.  The command line is chosen while it is read: each turn of the loop takes any option, and `args` records what
was read, so that the properties can compare what `main` does with what was asked for.  An option is a record of its letter, its argument (`optarg`) and the word in front of the next
option (`word`, `argv[optind - 1]`), which is the argument when it stands apart and the whole option when it is attached,
as in `-bbond0`.  `Bonding` puts the call of
`dev_bond_config_bond` in the place of the step `Configured`: `HandedOver` is what it gets, and the steps of `BondConfig` run on
the kernel's bond until they are done.

Run `command_line`: every command line of up to four options out of eighteen, three kinds of `slotid`, both programs.
Four options reach each sum of `no_bondig` the program tests, every order of `-a`, `-r`, `-m`, and a configuration
of two slaves with a mode and one more option.  `CommandTakesEffect` follows a command of `bonding1` down to the kernel; the machine is sound
and the bond fresh, as the failures are in the run `bond_config`.  `Reasonable` says which command lines it follows: `-a` without `-r`, interfaces
the machine has, and numbers the kernel knows (`InRange`); delays with an interval, a primary with a mode that has one; the arguments of `-b` and `-p` apart from their options
(`Apart`).  For the attached `-b` the property says what comes of it: nothing changes.  The argument of `-m`,
`-i`, `-u`, `-d` and `-c` is the number `atoi` reads in it.  Run `options_mixed` expects a violation: one flag, set by the last of
`-a` and `-r`, decides for all slaves.

What the model shows of the code beyond that:

- The bond's name and the primary's are `argv[optind - 1]` and not `optarg`.  `-bbond0` therefore names an interface `-bbond0`: there is none, and
  the program frees its names and goes on to the check without having configured anything.  `-peth1` gives the kernel
  a primary `-peth1`, which it keeps for a slave of that name and never gets.  The other options use `optarg` and take either form.
- Two `-b` are taken for `--no_bonding` without a name, since both add up to 2; `ChoiceAsAsked` therefore speaks of
  command lines with each of the two at most once.
- `bonding0` frees `salves[i]` to `salves[1]`: the empty slot and every name but the first.  The process ends right after it.
- Neither `long_opts` has the terminating entry `getopt_long` needs.  The options in it are found before its end, and an unknown
  short option is the `default` branch; a long option that is not in it is undefined and left out (so the `--no_bondig` of
  Example 2 of both help texts, and bonding1's new flags given to bonding0).

### The check and the failover

`BondPing` has the main thread (`pc`), one thread per slot (`thread`), the increment of
`success_ping` as a load and a store under `ping_mut`, and the handles of `tinfo`: `live`, or `stale`
once joined, since nothing resets them.  Joining a stale handle is undefined; `JoinStale` lets it
return or block for ever.  `back_switch` is three steps (read the slaves, read the active one, write
another), with the kernel free to fail over between them.  `SameName` is the `strncmp` over the
length of the active slave's name.

Run `bond_check`: four slots of which one is the board's own and one has no host behind it, bonds of two and
of three slaves with one name a prefix of another, and three sets of faults: none; lost replies
and failing `pthread_create`; these and failing sysfs and failovers.  Three threads are enough for a
lost update and for a creation that fails before, between and after others.

- `StaleJoinNeedsFailure`: handles of the first round are joined in the second only after
  `pthread_create` failed.
- `EndsOnWorkingPath` holds for two slaves (`OneIsEnough`), when neither name is a prefix of the other and a host is up;
  with a prefix, `back_switch` takes the other slave for the active one and does not switch.  With three, the two switches go back and forth between the first
  two, and a bond of which only the third works stays on one that does not.
- `Finishes` allows a join of a stale handle to block; nothing else may.

### The small programs

Run `small_programs` checks four modules that do not interact; `tool` of `MCTools` says which one a behaviour runs.

`IcmpChecksum` has the three functions as one: they differ in the type of the accumulator (`Kept`) and in how they
place an odd byte, which comes to the same on machines of either byte order.  A packet is sent with the checksum in it, one word may be damaged, and it is verified as
`ping_recv` of `ping_client.c` does: it reads `ReadWords` words of the message (`ICMP_FULL_LEN` is 28 bytes, 8 of them ICMP, so
four words) into a buffer of zeros and sums as much as `ip_len` says (`InBuffer`), so only a message of at most that length is
verified as it was sent (`Whole`).  The programs send 8 bytes.  `ip_len` beyond the 1024 bytes of the buffer is outside the model.  `WordBits` is 16 in the code and 4 in the run; `ChecksumAssumption` scales the greatest length with it
(2^16 - 1 bytes, 15 here), so that the longest packets of ones come as close to the sign bit as they do at 16 bits, and the second fold has a
carry.  The packets are all of two and three words out of 0, 1, 8, 15 and some of seven words; a damaged word becomes one of 0, 1,
14, 15 or stays.  `ChecksumDecides` speaks of the messages read whole and is exact for them: it names the one damage that passes, 0 turned into ones.

`PingSetup` has `Steps` for each of the four programs, and every call may succeed or fail.  The descriptors include the socket that is opened
for one ioctl; `SetupSound` says what holds at the first request, after giving up, and after `ping_addr_free`.  `ping2` goes on when it
cannot be bound to its interface, but not without its address; `ping_main` goes on without the address, with unset
variables, and gives up only for want of a socket.

`CheckArp` asks one interface of the list after the other while `EntryChanges` alters the kernel's table at any time.  `was` is a history
variable.  The run has up to four entries in a list, one interface twice, and no filter or one.  A filter that is longer than an interface's name does not exclude
it, since the code compares only names that are long enough.

`SysCheck` reads the list of PCI devices, then the two files of each, while up to two cards are pulled or exchanged.  `read_hex` returns
an unset variable when the card goes after the file was opened: any value of the machine.  `ReportExact` says how far the capacity
can be off.  In an exchange the device of one card is read with the vendor of another.

## 3. Fairness

`WF(main)`, `WF(test)`, `WF(Search)`, `WF(Exit)` and `WF(single_ping(s))` say that the operating system
schedules a process or thread that can run.  A thread that waits for `ping_mut` is enabled only while the
mutex is free; weak fairness is enough because each thread takes it once a round.  `ping -c 1 -w 8`
gives up on its own, so a ping answers or is silent.  On the network: a request that is out is answered or lost some
day.  No fairness is assumed of repeated and foreign packets, which are bounded, nor of faults.

## 4. Proofs

Eight modules hold proofs.  Each shows an inductive invariant (it holds at first, every action keeps it), built of
named parts, and derives the properties the runs check.  Every assumption is an
`ASSUME` of the component's module, evaluated in the runs too, or stands in the theorem.

`PingAddrTable_proofs`, from `TableAssumption` (addresses are naturals not above the mark, the initial
capacity is positive):

- The inductive invariant `IInv` is `TypeOK /\ Sorted /\ SearchCorrect /\ SearchWindow`.  `Sorted` and the type
  invariant are not inductive alone: that an add appends an address that is not there needs the answer of
  the search (`SearchCorrect`), which needs the window of the loop (`SearchWindow`), which needs the order
  of the entries.  The lemmas about `ping_addr_sort` say that sorting the table with one entry appended, or
  with one entry turned into the mark, leaves a strictly ascending table; the permutation is a bijection
  of the first entries, and two equal addresses can meet only at the mark.
- Theorems `TypeCorrect`, `TableSorted`, `SearchExact`: the first three conjuncts, always, for every set of addresses and
  every capacity.
- Theorem `TableIsSet` is the refinement `ImplementsSet`.  There is a lemma for each kind of step: entering a call and searching change
  nothing the set shows, and the step that returns from add, del, get, recv, the sends and the clearing are each the operation of
  `PingAddrSet` (`AddIsAdd`, `DelIsDel` and so on).  `DelIsDel` has two cases: the entry dropped by the sort is the one that was
  marked, or, when 255.255.255.255 is tracked, that one, whose result is then lost to the deleted address's; this is the second disjunct of
  `PingAddrSet`'s `Del`.

`PingSweep_proofs`, from `SweepAssumption` (finitely many neighbours, the mark not among them):

- `SweepInv` says which requests can still be answered and of which round they are (`Rounds`), what the results mean while
  replies are read and until they are cleared (`Results`), and what was shown (`Told`).  The properties speak of the moment of the report; what makes them true
  happened in the loops before, hence `Results`.
- `TypeCorrect` and `ShownOkAnswered` without a condition; `AnswerShown` and `ToldTheTruth` under `Pid < 2^16`,
  the width of the header's field; the kernel's own default for `pid_max` is 32768, and without the condition the run `sweep_large_pid` shows both to be false.

`PingProbe_proofs`, from `ProbeAssumption` (an array of at least as many entries as there are hosts):

- The recursive function of the binary search is shown to be defined on every window and to be exact on ascending entries
  (`SearchIsExact`): by least counterexample, a smallest window on which it fails would have a smaller one in it.
- `ProbeInv` ties the array to the history of packets (`Decided`: the last packet from an address decides its result),
  and keeps `ping_main`'s write in front of the array apart from the entries in use.
- `TypeCorrect`, `CountsAccount`, `OutsideByStranger` without a condition; `LastDecides` and `QuietAnswered` under `Pid < 2^16`.

`PingFlood_proofs`, from `FloodAssumption` (positive `T` and `RcvMax`, any positive process ids):

- `Recognised` says when the header's field is the process id: below 2^16 and only then.  `Balanced` is the equation of `Conserved`, kept by
  every step under such an id; under a larger one no step counts a reply.
- `FloodInv` adds to `Conserved` that no more requests are out or lost than left (`NoneTwice`), how the counters move
  with the loop (`Sent`), and that a network in time has nothing left for the buffer at the report (`SilentAtLast`), which `ReportComplete` needs.
- `TypeCorrect`, `EveryReplyOnce`, `CompleteReport`, for any number of requests, any size of the buffer and any process id.

`BondConfig_proofs`, from `ConfigAssumption` (any set of commands `main` can hand over, any interfaces):

- `IInv` says what the steps so far have left behind: which options and slaves are in force unless a refusal was printed (`InForceSoFar`),
  the one slave that is down (`UpSoFar`), and what a fresh bond still is (`FreshSoFar`).  `HandledOptions` and `HandledSlaves` say which steps these are.
  None of the properties is inductive: each speaks of the end, and each later write could undo an earlier one.
- `TypeCorrect`, `MissReported`, `RerunSafe`, `ConfigEffective`: for any number of slaves and of interferences.
- `EffectInv` adds to `IInv` what a step leaves alone (`LeftAlone`) and when a sound machine refuses anything (`RefusedTwice`); theorem
  `OnlyAsked` states the two.  No run states them; they are what a caller needs beyond `ConfiguredAsAsked`, and `Bonding_proofs` is that caller.

`Bonding_proofs`, from `OptionsAssumption` and `BondingAssumption` (the names of options; which arguments are numbers; both modules speak of
the same bond and interfaces):

- `OptInv` says that `no_bondig`, `add_flag` and `no_ping` tell which options were read and how often (`Told`), what `main`
  tested before it went on (`Chosen`), and how far the freeing is (`FreedSoFar`).
- `ChoiceRight` and `FreedOnce`, for command lines of any length, in the specification that includes the configuration.
- `WholeInv` is about a whole run.  `ToldLast`: each variable holds what the last option of its kind said, and the list has one entry for each
  `-a` and `-r`, with the names given there; of `-b` and `-p` it is the word (`LastKept`), which is the argument when that stands apart.  `InStep`: where `main` is tells where the configuration is, and that it is called for an interface that exists only (`BondLookedFor`: the one
the last `-b` names by its word).  `NotCalled`: until it is called the machine is as it was, but for the address that
  `--no_bonding` sets.  `Called`: from then on `EffectInv` of `BondConfig_proofs` holds, when `bonding1` was asked for something sensible.
- `EffectInv` is not proved again: `BondConfig_proofs` is instantiated for the variables of `Bonding` (its assumption holds by `ConfAssumed`), and
  a step of the configuration inside `Bonding` is shown to be a step of that instance (`SameStep`).
- `CommandEffective` is `CommandTakesEffect`: a sensible command line is handed over as a feasible command (`HandedOverFeasible`), what
  `ConfigEffective` and `OnlyAsked` say of it is what was asked for, and a list names fewer slaves than its length exactly when one comes
  twice (`FewerNames`).

`BondPing_proofs`, from `PingAssumption` (a positive number of slots; a bond's slaves have names):

- The inductive invariant `IInv` adds to `CountExact` and `FailoverJustified` who holds the mutex (`LockHeld`), that a
  thread about to store has loaded the present count (`LoadFresh`), that threads past their ping
  succeeded (`Successful`), which handles are live (`Handles`), and how far the main thread is with starting and
  joining (`Progress`, `SelfQuiet`).  `CountExact` needs `LoadFresh`, which needs `LockHeld`; `FailoverJustified` needs that
  every thread was joined, and that a count of zero means that `Counted` is empty.
- Theorems `MutexExcludes`, `NoLostUpdate`, `FailoverBacked`: for any number of slots, any slaves and any faults.
- `SwitchInv` goes on from there: what `back_switch` has read is still so while nothing interferes (`ReadStillSo`), every handle
  the join loop comes to is of this round (`HandlesOfRound`), every slot was asked (`AllAsked`), and an answer or a silence tells whether
  the path works (`AnswersTell`); so the second round goes over the slave that works (`SecondPathWorks`).
- Theorems `TypeCorrect`, `EndsWell`, and of the steps `JoinsItsOwn` and `GoesOtherPath`.

`Tools_proofs`, from `SetupAssumption`, `ArpAssumption`, `SysAssumption`, `ChecksumAssumption`:

- `SetupReady`: a program that gets through its set-up has what it needs, for each order of calls and each failure.
- `ArpVerdictTrue`: `ArpSoFar` says that no selected interface passed so far had a complete entry all the time.
- `ReportIsExact`: `Counted` says that the slots counted differ from the known cards read so far only in slots that were
  disturbed, no more of them than there were events.  It needs that a slot is read once (the list has no slot twice).
- `SumInRange` and `ChecksumExact`, for words of any even width up to 16 bits and messages of any length that `ip_len` can say; `ChecksumExact` for those that were read whole, of which the buffer holds all (`BufferHolds`).  The recursive function of
  the sum is shown to exist, to be bounded by the length, and to change by as much as the one word that changed (`SumExists`, `SumBounded`,
  `SumChanged`), by least counterexample over the number of words.  The two folds give the complement of a word that is congruent to the sum
  modulo `Base - 1` and is 0 only when the sum is (`FoldedIs`); so a packet with its checksum in it adds up to a multiple of `Base - 1`
  (`FoldedCompletes`), and stays one exactly when the damaged word keeps its residue.

Model-checked only:

- All liveness (`CallReturns`, `Reports`, `Finishes` and the other ends): fairness and ENABLED are beyond the prover.
- The properties of the four runs that expect a violation, which are false.

## 5. Not modelled

- The segment of shared memory that `ping_main` creates, attaches and does not use when it is called without `-t`; `test2()` of
  `ping_client.c` and `exit_all_ping()` of `bonding1.c`, which nothing calls; the time measurement of `ping_client`.
- The variant of `bonding1` for `BASE_BONDING_SYS_CMD`, which builds command lines for a shell and looks at no result.
- The text of logs and reports, and the amount of memory in the report of `sys_check.c`.
- What `ping_main` does with the unset variables when it could not read its address (`PingProbe` lets it succeed, `PingSetup` does not).
- `-a` more often than the 32 entries of `salves`, which is outside the bound of `BondOptions`; the program does not count them.
- A socket that stays blocking because the second `fcntl` failed: `ping_client`'s loops end on `EAGAIN`, and
  `PingFlood` takes the socket to be non-blocking.
- `cpu/lscpu.c` (prints the cpuid leaves), `cpu/cpu_brand.c` (the reading of the processor's name, which is in `SysCheck`),
  `cpu/numa.c`, `arp/list_if.c` (the example of a manual page), `ssh/ssmodem.py` (one session of commands to a
  modem) and `compler_wapper/` (copies its arguments and calls `execv`): a straight line of calls each, with no state that outlives it.

## 6. Plan

1. Done: `PingAddrSet`, `PingAddrTable` and its proofs; `BondPing` and its proofs; `PingFlood`; `PingSweep`;
   `BondKernel`, `BondConfig`; `BondOptions`; `PingProbe`.
2. Done: `Bonding` and the command line of `bonding0`; `IcmpChecksum`; `PingSetup`; `CheckArp`; `SysCheck`.
3. Done: the proofs of section 4, the refinement of `PingAddrSet` among them.
4. Done: `CommandEffective` for a whole run of `Bonding`, `OnlyAsked`, `SumInRange` and `ChecksumExact`.
5. Left to TLC: liveness.

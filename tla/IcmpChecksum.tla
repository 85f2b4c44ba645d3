----------------------------- MODULE IcmpChecksum -----------------------------
(***************************************************************************)
(* The checksum of the ICMP header: calc_chsum (ping3.c, ping_main.c),     *)
(* inet_cksum (ping2.c) and in_cksum (ping_client.c), which compute the    *)
(* same in accumulators of different types; icmp_pack, which stores it in  *)
(* a packet, and the test in ping_recv of ping_client.c.                   *)
(*                                                                         *)
(* Words have WordBits bits (16 in the code), bytes half as many, and the  *)
(* accumulator twice as many.                                              *)
(***************************************************************************)
EXTENDS Integers, Sequences

CONSTANTS
  WordBits,
  Packets,   \* sequences of words; the second one is icmp_cksum
  OddBytes,  \* the byte after the last word, NoByte when there is none
  NoByte,
  Damages,   \* the words a damaged word may become
  ReadWords  \* words of the message that recvfrom reads (ICMP_FULL_LEN)

ByteBase == 2^(WordBits \div 2)
Base     == 2^WordBits
IntMax   == 2^(2 * WordBits - 1) - 1

Words == 0 .. Base - 1
Field == 2

(* A packet has at most as many bytes as the 16 bits of ip_len can say.    *)
ASSUME ChecksumAssumption ==
  /\ WordBits \in {2 * n : n \in 1 .. 8}
  /\ Packets \subseteq {p \in Seq(Words) : Len(p) >= Field /\ 2 * Len(p) + 1 < Base}
  /\ NoByte \notin Int /\ OddBytes \subseteq (0 .. ByteBase - 1) \cup {NoByte}
  /\ Damages \subseteq Words
  /\ ReadWords \in Nat /\ ReadWords >= Field

VARIABLES
  ckpc,         \* "idle", "sent", "received", "verified"
  func,         \* the function the sender uses
  big,          \* a big-endian machine
  packet, odd,  \* the words and the odd byte
  sum, answer,  \* what the last call added up, and what it returned
  damage        \* the word that was damaged on the way: [was, is]

ckvars == <<ckpc, func, big, packet, odd, sum, answer, damage>>

-----------------------------------------------------------------------------
ShiftedTwice == Base       \* fault: << 16
ShiftedOnce  == ByteBase

(* The odd byte is the first byte of a word whose other byte is zero.      *)
OddWord(byte, bigEndian) ==
  IF byte = NoByte THEN 0 ELSE IF bigEndian THEN byte * ShiftedOnce ELSE byte

(* sum += *w++, from the first word to the last.                           *)
SumOf(words) ==
  LET upTo[n \in 0 .. Len(words)] == IF n = 0 THEN 0 ELSE upTo[n - 1] + words[n]
  IN upTo[Len(words)]

Added(words, byte, bigEndian) == SumOf(words) + OddWord(byte, bigEndian)

(* inet_cksum adds up an unsigned int, the two others an int.              *)
Kept(f, s) == IF f = "inet_cksum" THEN s % (Base^2) ELSE s

CarryLost(s)   == s                 \* fault: sum += (sum >> 16) is forgotten
WithCarry(s)   == s + (s \div Base)
HighToLow(s)   == (s \div Base) + (s % Base)
Complement(s)  == Base - 1 - (s % Base)
Folded(s)      == Complement(WithCarry(HighToLow(s)))

(* A call: what is added up, and what is returned.                         *)
Cksum(f, words, byte) ==
  /\ sum' = Kept(f, Added(words, byte, big'))
  /\ answer' = Folded(sum')

-----------------------------------------------------------------------------
(* The field is zero while the checksum is computed.                       *)
icmp_pack ==
  /\ ckpc = "idle"
  /\ func' \in {"calc_chsum", "inet_cksum", "in_cksum"}
  /\ big' \in BOOLEAN /\ odd' \in OddBytes
  /\ \E p \in Packets :
       /\ Cksum(func', [p EXCEPT ![Field] = 0], odd')
       /\ packet' = [p EXCEPT ![Field] = answer']
  /\ ckpc' = "sent"
  /\ UNCHANGED damage

(* One word is damaged; it may be what it was.                             *)
Travel ==
  /\ ckpc = "sent"
  /\ \E n \in DOMAIN packet : \E w \in Damages \cup {packet[n]} :
       /\ packet' = [packet EXCEPT ![n] = w]
       /\ damage' = [was |-> packet[n], is |-> w]
  /\ ckpc' = "received"
  /\ UNCHANGED <<func, big, odd, sum, answer>>

(* recv_buf: zeros but for the words that were read.                       *)
InBuffer(words) == [n \in DOMAIN words |-> IF n <= ReadWords THEN words[n] ELSE 0]
Whole           == Len(packet) + (IF odd = NoByte THEN 0 ELSE 1) <= ReadWords

(* in_cksum over as many bytes of recv_buf as ip_len says, the field       *)
(* included.                                                               *)
Verify ==
  /\ ckpc = "received"
  /\ UNCHANGED <<func, big, packet, odd, damage>>
  /\ Cksum("in_cksum", InBuffer(packet), IF Whole THEN odd ELSE NoByte)
  /\ ckpc' = "verified"

ChecksumInit ==
  /\ ckpc = "idle" /\ func = "in_cksum" /\ big = FALSE
  /\ packet = <<>> /\ odd = NoByte /\ sum = 0 /\ answer = 0
  /\ damage = [was |-> 0, is |-> 0]

ChecksumEnds == ckpc = "verified" /\ UNCHANGED ckvars

ChecksumNext == icmp_pack \/ Travel \/ Verify \/ ChecksumEnds

ChecksumSpec == ChecksumInit /\ [][ChecksumNext]_ckvars

-----------------------------------------------------------------------------
(* The test for zero accepts a message that was read whole exactly when    *)
(* the word that may have been damaged has kept its value in ones'         *)
(* complement: what any of the three functions stored is verified, on      *)
(* either kind of machine, with an odd byte or not, and the only damage    *)
(* that passes is a word of zeros turned into one of ones or back.  (A     *)
(* message of nothing but zeros does not pass.)                            *)
ChecksumDecides ==
  ckpc = "verified" /\ Whole /\ (\E n \in DOMAIN packet : packet[n] # 0) =>
    (answer = 0 <=> damage.was % (Base - 1) = damage.is % (Base - 1))

(* No message is long enough for the sum to leave the range of an int, so  *)
(* that the int of calc_chsum and in_cksum and the unsigned of inet_cksum  *)
(* hold the same.                                                          *)
SumFits == sum <= IntMax
=============================================================================

---------------------------- MODULE PingAddrSet ----------------------------
(***************************************************************************)
(* What the address table of the ping programs promises its callers: a set *)
(* of tracked addresses, each with the result of its last probe, and the   *)
(* return code of the call that ended last.  The sorted array, its growth  *)
(* and the binary search are PingAddrTable's business.                     *)
(***************************************************************************)
EXTENDS Integers

CONSTANTS
  Addr,   \* addresses a caller may pass (struct in_addr, compared as a number)
  Bcast   \* 255.255.255.255, the largest address, used as the deletion mark

VARIABLES
  resp,   \* tracked address -> result (enum error_code, 0 = none yet)
  ret     \* return code of the last call

vars == <<resp, ret>>

PING_OK          == 1
PING_SEND_FAIL   == 2
PING_ERROR_OCCUR == 3
Res == {0, PING_OK, PING_SEND_FAIL, PING_ERROR_OCCUR}

Tracked == DOMAIN resp

Init == resp = [a \in {} |-> 0] /\ ret = 0

(* Adding tracks the address once.  The promise is loose on purpose: a new *)
(* address may start with any result, because the array slot it is given   *)
(* keeps whatever a deleted address left there.                            *)
Add(a) ==
  /\ \/ a \in Tracked /\ UNCHANGED resp
     \/ /\ a \notin Tracked
        /\ \E r \in Res :
             resp' = [b \in Tracked \cup {a} |-> IF b = a THEN r ELSE resp[b]]
  /\ ret' = 0

(* The array could not grow: the caller is told and nothing changed.       *)
AddFails == ret' = -1 /\ UNCHANGED resp

(* Deleting an address forgets it and no other.  When the limited          *)
(* broadcast address is itself tracked, the mark left by the deletion ties *)
(* with it in the sort and may take its place, result included.            *)
Del(a) ==
  LET rest == Tracked \ {a} IN
  /\ \/ resp' = [b \in rest |-> resp[b]]
     \/ /\ a \in Tracked /\ Bcast \in rest
        /\ resp' = [b \in rest |-> IF b = Bcast THEN resp[a] ELSE resp[b]]
  /\ ret' = 0

GetResp(a) ==
  /\ ret' = IF a \notin Tracked THEN -1
            ELSE IF resp[a] = PING_OK THEN 1 ELSE 0
  /\ UNCHANGED resp

Receive(a, verdict) ==
  \/ /\ a \in Tracked
     /\ resp' = [resp EXCEPT ![a] = verdict]
     /\ ret' = 0
  \/ a \notin Tracked /\ ret' = -1 /\ UNCHANGED resp

Send ==
  /\ \E failed \in SUBSET Tracked :
       resp' = [a \in Tracked |-> IF a \in failed THEN PING_SEND_FAIL ELSE resp[a]]
  /\ ret' = 0

Clear == resp' = [a \in Tracked |-> 0] /\ UNCHANGED ret

Next ==
  \/ \E a \in Addr : Add(a) \/ Del(a) \/ GetResp(a)
  \/ \E a \in Addr, v \in {PING_OK, PING_ERROR_OCCUR} : Receive(a, v)
  \/ AddFails \/ Send \/ Clear

Spec == Init /\ [][Next]_vars
=============================================================================

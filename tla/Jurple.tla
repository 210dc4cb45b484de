-------------------------------- MODULE Jurple --------------------------------
(***************************************************************************)
(* jurple_console (src/src/jurple_console.c): prints the system log of     *)
(* each device that is attached.  The device's service and the run loop    *)
(* that calls back are external.                                           *)
(*                                                                         *)
(* A message is a string of equal bytes, its number; 0 ends a string.      *)
(***************************************************************************)
EXTENDS Naturals, Sequences

CONSTANTS
    Devices,
    BUFSIZE,      \* size of the buffer: 1024 in the code
    Cleared,      \* how much of it is cleared after a message: 128
    MaxMessages   \* bound: messages sent by all devices

ASSUME JurpleAssumption ==
    /\ BUFSIZE \in Nat \ {0} /\ Cleared \in 1 .. BUFSIZE /\ MaxMessages \in Nat

VARIABLES
    device,        \* where each device is: "new", "in" or "out"
    notices,       \* notifications the run loop has not delivered
    relay,         \* "loop": in the run loop; "exit"; or the device being relayed
    stream,        \* the messages of that device not yet received, with their lengths
    sent,          \* messages sent so far
    relayBuf,      \* buf
    received,      \* history: the bytes received
    lengths,       \* history: the lengths of the messages of this device
    printed        \* the bytes printed

bufVars == <<relayBuf, received, lengths, printed>>
jurpleVars == <<device, notices, relay, stream, sent, bufVars>>

Garbage == MaxMessages + 1
Zeros == [k \in 1 .. BUFSIZE |-> 0]

JurpleInit ==
    /\ device = [d \in Devices |-> "new"] /\ notices = <<>> /\ relay = "loop"
    /\ stream = <<>> /\ sent = 0
    /\ relayBuf = Zeros /\ received = <<>> /\ lengths = <<>> /\ printed = <<>>

-----------------------------------------------------------------------------
(* The devices                                                             *)

\* A device is attached, and detached, once.
Moves(d, from, to, msgType) ==
    /\ device[d] = from
    /\ device' = [device EXCEPT ![d] = to]
    /\ notices' = Append(notices, [msgType |-> msgType, device |-> d])
    /\ UNCHANGED <<relay, stream, sent, bufVars>>

Attach(d) == Moves(d, "new", "in", 1)
Detach(d) == Moves(d, "in", "out", 2)

Relaying == relay \notin {"loop", "exit"}

Send ==
    /\ Relaying /\ device[relay] = "in" /\ sent < MaxMessages
    /\ sent' = sent + 1
    /\ \E n \in 1 .. BUFSIZE : stream' = Append(stream, [byte |-> sent', length |-> n])
    /\ UNCHANGED <<device, notices, relay, bufVars>>

-----------------------------------------------------------------------------
(* The tool                                                                *)

IsConnect(n) == n.msgType = 1

\* callback, for a notification that needs nothing done.
CallbackOther ==
    /\ relay = "loop" /\ notices # <<>> /\ ~IsConnect(Head(notices))
    /\ notices' = Tail(notices)
    /\ UNCHANGED <<device, relay, stream, sent, bufVars>>

\* doDeviceConnect: the service is started ...
Connect ==
    /\ relay = "loop" /\ notices # <<>> /\ IsConnect(Head(notices))
    /\ device[Head(notices).device] = "in"
    /\ notices' = Tail(notices)
    /\ relay' = Head(notices).device
    /\ relayBuf' = Zeros
    /\ stream' = <<>> /\ received' = <<>> /\ lengths' = <<>> /\ printed' = <<>>
    /\ UNCHANGED <<device, sent>>

\* ... or one of the calls fails, as it must for a device that is gone by now.
ConnectFails ==
    /\ relay = "loop" /\ notices # <<>> /\ IsConnect(Head(notices))
    /\ notices' = Tail(notices)
    /\ relay' = "exit"
    /\ UNCHANGED <<device, stream, sent, bufVars>>

Times(n, c) == [k \in 1 .. n |-> c]

\* The bytes up to the first 0.  Without one, whatever follows buf is printed too.
Strings(b) ==
    IF \E k \in DOMAIN b : b[k] = 0
    THEN {SubSeq(b, 1, (CHOOSE k \in DOMAIN b : b[k] = 0 /\ \A j \in 1 .. k - 1 : b[j] # 0) - 1)}
    ELSE {b, Append(b, Garbage)}

\* Mutant: what the comment on the first memset calls enough.
ClearedAfterFirst(b) == [b EXCEPT ![1] = 0]

\* memset (buf, '\0', 128)
ClearedAfter(b) == [k \in DOMAIN b |-> IF k <= Cleared THEN 0 ELSE b[k]]

Receive ==
    /\ Relaying /\ stream # <<>>
    /\ LET m == Head(stream)
           b == [k \in DOMAIN relayBuf |-> IF k <= m.length THEN m.byte ELSE relayBuf[k]]
       IN  /\ \E out \in Strings(b) : printed' = printed \o out
           /\ relayBuf' = ClearedAfter(b)
           /\ received' = received \o Times(m.length, m.byte)
           /\ lengths' = Append(lengths, m.length)
    /\ stream' = Tail(stream)
    /\ UNCHANGED <<device, notices, relay, sent>>

EndOfStream == Relaying /\ device[relay] = "out" /\ stream = <<>>

\* The device is gone: the loop ends, and the run loop goes on.
ReceiveEnd ==
    /\ EndOfStream
    /\ relay' = "loop"
    /\ UNCHANGED <<device, notices, stream, sent, bufVars>>

JurpleStep == CallbackOther \/ Connect \/ ConnectFails \/ Receive \/ ReceiveEnd

JurpleNext == JurpleStep \/ Send \/ \E d \in Devices : Attach(d) \/ Detach(d)

-----------------------------------------------------------------------------
(* Properties                                                              *)

JurpleTypeOK ==
    /\ device \in [Devices -> {"new", "in", "out"}]
    /\ \A i \in DOMAIN notices : notices[i] \in [msgType : {1, 2}, device : Devices]
    /\ relay \in {"loop", "exit"} \cup Devices
    /\ \A i \in DOMAIN stream : stream[i] \in [byte : 1 .. MaxMessages, length : 1 .. BUFSIZE]
    /\ sent \in 0 .. MaxMessages
    /\ relayBuf \in [1 .. BUFSIZE -> 0 .. MaxMessages]
    /\ \A i \in DOMAIN printed : printed[i] \in 1 .. Garbage
    /\ \A i \in DOMAIN received : received[i] \in 1 .. MaxMessages

\* A message that is cleared entirely, or that covers all that earlier ones
\* have left in the buffer, and that leaves room for the end of the string.
Harmless(i) ==
    /\ lengths[i] < BUFSIZE
    /\ lengths[i] < Cleared \/ \A j \in 1 .. i - 1 : lengths[j] <= lengths[i]

\* What is printed is what was received, in order and byte for byte, as long as
\* no message of 128 bytes or more follows a longer one or fills the buffer.
RelayIsExact == (\A i \in DOMAIN lengths : Harmless(i)) => printed = received
=============================================================================

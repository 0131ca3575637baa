-------------------------------- MODULE Tftp --------------------------------
(***************************************************************************)
(* One TFTP download (bootd/tftp.py): TftpProtocol's two dictionaries for  *)
(* the address of one client, the timers it has running, and the client,   *)
(* over a network that loses, repeats and reorders datagrams.              *)
(*                                                                         *)
(* The protocol keeps an entry per address and entries of two addresses    *)
(* never meet, so one is modelled.  A payload is its blocks 1 .. Blocks,   *)
(* the last of which is shorter than block_size.  Packet 0 is the OACK,    *)
(* packet b the DATA of block b.  All timers run for the same interval, so *)
(* they expire in the order they were started in and no clock is needed.   *)
(***************************************************************************)
EXTENDS Naturals, FiniteSets, SequencesExt

CONSTANTS
    Blocks,         \* blocks of the payload
    MaxRetransmits, \* MAX_RETRANSMITS
    None,           \* no entry in the dictionary
    MaxRrqs         \* bound: read requests that arrive, repeated ones included

ASSUME TftpAssumption ==
    /\ Blocks \in Nat \ {0} /\ Blocks <= 65535
    /\ MaxRetransmits \in Nat \ {0} /\ MaxRrqs \in Nat
    /\ None \notin Nat

VARIABLES
    \* the server
    transfer,       \* _transfers[addr].pending_block
    calls,          \* the DelayedCalls that are running, oldest first
    current,        \* where in calls _retransmit_calls[addr] is, or 0
    resolving,      \* read requests that a pool thread is working on
    \* the network: a datagram that was sent may arrive never, once or often
    acks, wire,
    \* the client
    options,        \* whether its request has any
    phase, got,     \* what it is doing, and the last block it received in order
    \* history
    rrqs, starts,   \* how many requests have arrived, and transfers begun
    sent,           \* how often each packet was sent
    strayAck        \* an ACK has arrived for a block that was not pending

server  == <<transfer, calls, current, resolving>>
machine == <<acks, options, phase, got>>
history == <<rrqs, starts, sent, strayAck>>
vars    == <<server, wire, machine, history>>

Packets == 0 .. Blocks
Call    == [packet : Packets, attempt : 0 .. MaxRetransmits - 1]

Init ==
    /\ transfer = None /\ calls = <<>> /\ current = 0 /\ resolving = 0
    /\ acks = {} /\ wire = {}
    /\ options \in BOOLEAN /\ phase = "idle" /\ got = 0
    /\ rrqs = 0 /\ starts = 0 /\ strayAck = FALSE
    /\ sent = [b \in Packets |-> 0]

-----------------------------------------------------------------------------
(* Timers.                                                                 *)

\* What is left running after _cancel_retransmit.
Cancelled == IF current = 0 THEN calls ELSE RemoveAt(calls, current)

\* _send_and_arm_retransmit: the call it replaces in _retransmit_calls, if
\* any, keeps running.
SendAndArm(b, attempt, running) ==
    /\ wire' = wire \cup {b}
    /\ sent' = [sent EXCEPT ![b] = @ + 1]
    /\ calls' = Append(running, [packet |-> b, attempt |-> attempt])
    /\ current' = Len(running) + 1

Quiet(running) == calls' = running /\ current' = 0 /\ UNCHANGED <<wire, sent>>

\* Wrong variants: a timer that retries once too often, ...
TimeoutLate ==
    /\ calls # <<>>
    /\ LET c == Head(calls) IN
       \/ /\ c.attempt >= MaxRetransmits
          /\ transfer' = None
          /\ Quiet(Tail(calls))
       \/ /\ c.attempt < MaxRetransmits
          /\ SendAndArm(c.packet, c.attempt + 1, Tail(calls))
          /\ UNCHANGED transfer
    /\ UNCHANGED <<resolving, machine, rrqs, starts, strayAck>>

\* ... that leaves the transfer it gives up in _transfers, ...
TimeoutKeepsTransfer ==
    /\ calls # <<>>
    /\ LET c == Head(calls) IN
       \/ c.attempt + 1 >= MaxRetransmits /\ Quiet(Tail(calls))
       \/ /\ c.attempt + 1 < MaxRetransmits
          /\ SendAndArm(c.packet, c.attempt + 1, Tail(calls))
    /\ UNCHANGED <<transfer, resolving, machine, rrqs, starts, strayAck>>

\* ... or that begins to count anew.
TimeoutForgetsAttempt ==
    /\ calls # <<>>
    /\ SendAndArm(Head(calls).packet, 0, Tail(calls))
    /\ UNCHANGED <<transfer, resolving, machine, rrqs, starts, strayAck>>

\* _on_retransmit_timeout: it forgets the address's current call and may give
\* up its transfer, whichever transfer the expired call belongs to.
Timeout ==
    /\ calls # <<>>
    /\ LET c == Head(calls) IN
       \/ /\ c.attempt + 1 >= MaxRetransmits
          /\ transfer' = None
          /\ Quiet(Tail(calls))
       \/ /\ c.attempt + 1 < MaxRetransmits
          /\ SendAndArm(c.packet, c.attempt + 1, Tail(calls))
          /\ UNCHANGED transfer
    /\ UNCHANGED <<resolving, machine, rrqs, starts, strayAck>>

-----------------------------------------------------------------------------
(* Datagrams that arrive at the server.                                    *)

\* A pool thread looks for the file, or has the boot script made.
OnRrq ==
    /\ phase # "idle" /\ rrqs < MaxRrqs
    /\ rrqs' = rrqs + 1 /\ resolving' = resolving + 1
    /\ UNCHANGED <<transfer, calls, current, wire, machine, starts, sent, strayAck>>

\* _start_transfer takes the place of a transfer that is still going on.
StartTransfer ==
    LET first == IF options THEN 0 ELSE 1 IN
    /\ resolving > 0
    /\ resolving' = resolving - 1 /\ starts' = starts + 1
    /\ transfer' = first
    /\ SendAndArm(first, 0, calls)
    /\ UNCHANGED <<machine, rrqs, strayAck>>

\* No file, no binding, or a call of start_session failed: only logged.
ResolveFails ==
    /\ resolving > 0
    /\ resolving' = resolving - 1
    /\ UNCHANGED <<transfer, calls, current, wire, machine, history>>

\* Wrong: takes an ACK of any block for that of the pending one.
AckOfAnyBlock(b) ==
    /\ transfer < Blocks
    /\ transfer' = transfer + 1
    /\ SendAndArm(transfer + 1, 0, Cancelled)
    /\ UNCHANGED strayAck

\* handle_ack with the ACK of the pending block, and more to send.
AckOfPending(b) ==
    /\ b = transfer /\ b < Blocks
    /\ transfer' = b + 1
    /\ SendAndArm(b + 1, 0, Cancelled)
    /\ UNCHANGED strayAck

\* Wrong: the transfer ends when the last block is sent.
AckBeforeLast(b) ==
    /\ b = transfer /\ b >= Blocks - 1
    /\ transfer' = None
    /\ Quiet(Cancelled)
    /\ UNCHANGED strayAck

AckOfLast(b) ==
    /\ b = transfer /\ b = Blocks
    /\ transfer' = None
    /\ Quiet(Cancelled)
    /\ UNCHANGED strayAck

\* Wrong: answers every ACK, the Sorcerer's Apprentice.
AckOfOtherAnswered(b) ==
    /\ b # transfer /\ b < Blocks
    /\ strayAck' = TRUE
    /\ SendAndArm(b + 1, 0, Cancelled)
    /\ UNCHANGED transfer

\* A repeated or late ACK: nothing is sent, but the timer is cancelled.
AckOfOther(b) ==
    /\ b # transfer
    /\ strayAck' = TRUE
    /\ Quiet(Cancelled)
    /\ UNCHANGED transfer

OnAck ==
    /\ transfer # None
    /\ \E b \in acks : AckOfPending(b) \/ AckOfLast(b) \/ AckOfOther(b)
    /\ UNCHANGED <<resolving, machine, rrqs, starts>>

\* The timer of the transfer keeps running.
OnError ==
    /\ phase = "gone" /\ transfer # None
    /\ transfer' = None
    /\ UNCHANGED <<calls, current, resolving, wire, machine, history>>

-----------------------------------------------------------------------------
(* The client (RFC 1350, 2347), outside the repository.  What it sends     *)
(* again when nothing comes is a repeated datagram of the network.         *)

Ask ==
    /\ phase = "idle"
    /\ phase' = "asking"
    /\ UNCHANGED <<server, wire, acks, options, got, history>>

ReceiveOack ==
    /\ phase = "asking" /\ options /\ 0 \in wire
    /\ phase' = "receiving"
    /\ acks' = acks \cup {0}
    /\ UNCHANGED <<server, wire, options, got, history>>

ReceiveData ==
    /\ phase = "receiving" \/ (phase = "asking" /\ ~options)
    /\ got + 1 \in wire
    /\ phase' = "receiving"
    /\ got' = got + 1
    /\ acks' = acks \cup {got + 1}
    /\ UNCHANGED <<server, wire, options, history>>

\* It tells the server that it does not want the rest.
Abort ==
    /\ phase \in {"asking", "receiving"}
    /\ phase' = "gone"
    /\ UNCHANGED <<server, wire, acks, options, got, history>>

Next ==
    \/ Timeout \/ OnRrq \/ StartTransfer \/ ResolveFails \/ OnAck \/ OnError
    \/ Ask \/ ReceiveOack \/ ReceiveData \/ Abort

Spec == Init /\ [][Next]_vars

\* The reactor fires every timer that has expired.
FairSpec == Spec /\ WF_vars(Timeout)

-----------------------------------------------------------------------------
(* Properties.                                                             *)

\* Every variable of the model stays in its set.
TypeOK ==
    /\ transfer \in Packets \cup {None}
    /\ calls \in Seq(Call) /\ current \in 0 .. Len(calls)
    /\ resolving \in 0 .. MaxRrqs
    /\ acks \subseteq Packets /\ wire \subseteq Packets
    /\ options \in BOOLEAN /\ phase \in {"idle", "asking", "receiving", "gone"}
    /\ got \in Packets
    /\ rrqs \in 0 .. MaxRrqs /\ starts \in 0 .. MaxRrqs
    /\ sent \in [Packets -> Nat] /\ strayAck \in BOOLEAN

\* Nothing is sent ahead of the client: what a block is sent after, it has
\* received, however often the transfer was begun anew and whichever of its
\* ACKs arrive late (tftp.py:97-112, one block in flight).
NeverAhead == \A b \in wire : b <= got + 1

\* A transfer that an ACK brings to its end has delivered the whole payload
\* (tftp.py:102-103, 168-169).
DoneMeansDelivered == [][OnAck /\ transfer' = None => got = Blocks]_vars

\* However many ACKs are repeated, no packet is sent more than MAX_RETRANSMITS
\* times for each transfer that was begun (tftp.py:7-9, 171-183): there is no
\* Sorcerer's Apprentice.
SendsBounded == \A b \in Packets : sent[b] <= MaxRetransmits * starts

\* The sends that the timers in q may still cause, for packets in B: one for
\* each try that a timer has left.
Owed(q, B) ==
    {t \in (DOMAIN q) \X (0 .. MaxRetransmits - 1) :
        q[t[1]].packet \in B /\ t[2] > q[t[1]].attempt}

\* The packet that a transfer waits on is still being sent again: whatever
\* other transfer's timer an ACK or a timeout has just removed or replaced in
\* _retransmit_calls, a timer for it runs (tftp.py:157-183) - again as long as
\* no ACK arrives for a block that is not pending.
PendingIsTimed ==
    transfer # None /\ ~strayAck => \E i \in DOMAIN calls : calls[i].packet = transfer

\* Every timer that expires brings the timers of the address closer to their
\* end, so only finitely many expire without an ACK or a request between them:
\* a client that has gone is given up (tftp.py:7-9, 171-178).
TimersRunDown ==
    [][Timeout => Cardinality(Owed(calls, Packets))' + Len(calls')
                    < Cardinality(Owed(calls, Packets)) + Len(calls)]_vars

\* A transfer comes to its end: the client acknowledges all of it, breaks it
\* off, or is given up (tftp.py:7-9) - as long as no ACK arrives for a block
\* that is not pending.
TransferEnds == transfer # None ~> (transfer = None \/ strayAck)

\* The inductive invariant behind NeverAhead and DoneMeansDelivered: what is pending, running or
\* acknowledged is at most one block ahead of the client, or behind it.
NotAhead(b) == b \in 0 .. got + 1

OneInFlight ==
    /\ \A b \in wire : NotAhead(b)
    /\ transfer # None => NotAhead(transfer)
    /\ \A i \in DOMAIN calls : NotAhead(calls[i].packet)
    /\ \A b \in acks : b <= got

\* The inductive invariant behind SendsBounded: what has been sent, what the
\* timers may still send, and what the transfer has not come to yet, is at most
\* MaxRetransmits for each transfer that was begun.
Ahead(b) == IF transfer # None /\ transfer < b THEN MaxRetransmits ELSE 0

SendsAccounted ==
    \A b \in Packets :
        sent[b] + Cardinality(Owed(calls, {b})) + Ahead(b) <= MaxRetransmits * starts

\* Both, and that no transfer begins without a request of its own.
TransferInvariant ==
    OneInFlight /\ SendsAccounted /\ rrqs >= starts + resolving
=============================================================================

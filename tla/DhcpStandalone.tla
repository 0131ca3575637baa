--------------------------- MODULE DhcpStandalone ---------------------------
(***************************************************************************)
(* The DHCP server of a site that has no other (bootd/dhcp_standalone.py): *)
(* LeasePool's three dictionaries and their lazy timers, the handler that  *)
(* drives them, and the clients that trust them, over a network that       *)
(* loses, repeats, delays and reorders datagrams.                          *)
(*                                                                         *)
(* Time passes in ticks.  expires_at[m] - now is kept as the number of     *)
(* ticks left, so that exp <= now is left = 0 (clock is time.time, one     *)
(* clock for everybody).  A request stays in net: it may arrive never,     *)
(* late, or again.  xid is what lets a client tell the replies of its last *)
(* transaction from older ones; the server only echoes it.                 *)
(***************************************************************************)
EXTENDS Naturals

CONSTANTS
    Macs,           \* clients
    PoolSize,       \* addresses in the pool, in the order of net.hosts()
    OfferTimeout,   \* ticks an offer is reserved for (OFFER_TIMEOUT_SECONDS)
    LeaseTime,      \* ticks of a lease (LEASE_SECONDS)
    None,           \* Python's None
    MaxXid          \* bound: transactions of one client

ASSUME PoolAssumption ==
    /\ PoolSize \in Nat /\ OfferTimeout \in Nat \ {0} /\ LeaseTime \in Nat \ {0}
    /\ None \notin Nat /\ None \notin Macs

ASSUME LeaseBoundsAssumption == MaxXid \in Nat

VARIABLES
    pool,           \* LeasePool: _mac_to_ip, _ip_to_mac and _expires_at
    net,            \* the datagrams that may still arrive
    phase,          \* what each client is doing
    xid,            \* the client's last transaction
    addr,           \* the address the client uses
    valid,          \* ticks until its lease ends, by the client's count
    asked,          \* ticks a lease would last that began with its REQUEST
    spoiled         \* history: of the lease each client has "used" and the one it
                    \* has "asked" for, those that the server may not stand by

clients == <<phase, xid, addr, valid, asked>>
vars    == <<pool, net, clients, spoiled>>

-----------------------------------------------------------------------------
(* LeasePool.                                                              *)

Addrs == 1 .. PoolSize

Pool == [ip   : [Macs -> Addrs \cup {None}],
         mac  : [Addrs -> Macs \cup {None}],
         left : [Macs -> Nat \cup {None}]]

EmptyPool == [ip   |-> [m \in Macs |-> None],
              mac  |-> [a \in Addrs |-> None],
              left |-> [m \in Macs |-> None]]

\* Wrong variants of the definitions they precede: no specification uses
\* them; each breaks a property.  Here exp <= now + 1.
ExpiredEarly == {m \in Macs : pool.left[m] \in {0, 1}}

\* release, for every client whose time has run out.
Expired == {m \in Macs : pool.left[m] = 0}

\* Wrong: release that leaves _ip_to_mac as it is.
ReclaimedHalf ==
    [ip   |-> [m \in Macs |-> IF m \in Expired THEN None ELSE pool.ip[m]],
     mac  |-> pool.mac,
     left |-> [m \in Macs |-> IF m \in Expired THEN None ELSE pool.left[m]]]

Reclaimed ==
    [ip   |-> [m \in Macs |-> IF m \in Expired THEN None ELSE pool.ip[m]],
     mac  |-> [a \in Addrs |-> IF \E m \in Expired : pool.ip[m] = a
                                 THEN None ELSE pool.mac[a]],
     left |-> [m \in Macs |-> IF m \in Expired THEN None ELSE pool.left[m]]]

FreeIn(p) == {a \in Addrs : p.mac[a] = None}

Extended(p, m, ticks) == [p EXCEPT !.left = [@ EXCEPT ![m] = ticks]]
Entered(p, m, a, ticks) ==
    [ip   |-> [p.ip EXCEPT ![m] = a],
     mac  |-> [p.mac EXCEPT ![a] = m],
     left |-> [p.left EXCEPT ![m] = ticks]]

\* offer: the address the client has, or else the first free one.  When there
\* is none PoolExhaustedError is raised; what was reclaimed stays reclaimed.
Allocate(m, ticks) ==
    \/ /\ Reclaimed.ip[m] # None
       /\ pool' = Extended(Reclaimed, m, ticks)
    \/ /\ Reclaimed.ip[m] = None
       /\ \E a \in FreeIn(Reclaimed) :
            /\ \A b \in FreeIn(Reclaimed) : a <= b
            /\ pool' = Entered(Reclaimed, m, a, ticks)
    \/ /\ Reclaimed.ip[m] = None /\ FreeIn(Reclaimed) = {}
       /\ pool' = Reclaimed

Offer(m) == Allocate(m, OfferTimeout)

\* Wrong: a commit that leaves the offer's timer running.
CommitKeepsTimer(m) ==
    \/ pool.ip[m] # None /\ UNCHANGED pool
    \/ pool.ip[m] = None /\ Allocate(m, LeaseTime)

\* commit reclaims nothing from a client that is still in the dictionaries.
Commit(m) ==
    \/ pool.ip[m] # None /\ pool' = Extended(pool, m, LeaseTime)
    \/ pool.ip[m] = None /\ Allocate(m, LeaseTime)

-----------------------------------------------------------------------------
(* Datagrams.                                                              *)

Discovers == [type : {"discover"}, mac : Macs, xid : 0 .. MaxXid]
Requests  == [type : {"request"}, mac : Macs, xid : 0 .. MaxXid]
Replies   == [type : {"offer", "ack"}, mac : Macs, xid : 0 .. MaxXid, yiaddr : Addrs]

Discover(m, x)    == [type |-> "discover", mac |-> m, xid |-> x]
Request(m, x)     == [type |-> "request", mac |-> m, xid |-> x]
Reply(type, d, a) == [type |-> type, mac |-> d.mac, xid |-> d.xid, yiaddr |-> a]

Init ==
    /\ pool = EmptyPool
    /\ net = {}
    /\ phase = [m \in Macs |-> "init"]
    /\ xid = [m \in Macs |-> 0]
    /\ addr = [m \in Macs |-> None]
    /\ valid = [m \in Macs |-> 0]
    /\ asked = [m \in Macs |-> 0]
    /\ spoiled = [m \in Macs |-> {}]

-----------------------------------------------------------------------------
(* The server: datagramReceived.                                           *)

\* A DISCOVER is late when its client has gone on to ask for a lease here.
IsLate(d) == phase[d.mac] \in {"requesting", "bound", "renewing"}

\* What the server has promised some clients until now is no longer sure.
Spoil(ms) ==
    spoiled' = [m \in Macs |-> IF m \in ms THEN {"used", "asked"} ELSE spoiled[m]]

\* The datagrams that still matter: a reply that its client does not wait
\* for, any more or at all, is ignored when it arrives.
Awaited(d) ==
    /\ d.xid = xid'[d.mac]
    /\ d.type = "offer" => phase'[d.mac] = "selecting"
    /\ d.type = "ack" => phase'[d.mac] \in {"requesting", "renewing"}

Travelling(S) == {d \in S : d \in Replies => Awaited(d)}

Send(datagrams) == net' = Travelling(net \cup datagrams)

\* Wrong: a reply without an address when the pool is exhausted.
ReplyAlways(type, d) == Send({Reply(type, d, pool'.ip[d.mac])})

ReplyIfAllocated(type, d) ==
    Send(IF pool'.ip[d.mac] = None THEN {} ELSE {Reply(type, d, pool'.ip[d.mac])})

OnDiscover ==
    \E d \in net \cap Discovers :
        /\ Offer(d.mac)
        /\ Spoil(IF IsLate(d) THEN {d.mac} ELSE {})
        /\ UNCHANGED clients
        /\ ReplyIfAllocated("offer", d)

\* Neither the requested address nor the server identifier is looked at.
OnRequest ==
    \E d \in net \cap Requests :
        /\ Commit(d.mac)
        /\ UNCHANGED <<clients, spoiled>>
        /\ ReplyIfAllocated("ack", d)

\* The pool is in memory only (main.py:55).
Restart ==
    /\ pool' = EmptyPool
    /\ Spoil(Macs)
    /\ UNCHANGED <<net, clients>>

-----------------------------------------------------------------------------
(* The clients (RFC 2131), outside the repository.                         *)

NewTransaction(m) == xid[m] < MaxXid /\ xid' = [xid EXCEPT ![m] = @ + 1]

\* A machine starts, or its next boot stage does.
SendDiscover(m) ==
    /\ phase[m] = "init"
    /\ NewTransaction(m)
    /\ phase' = [phase EXCEPT ![m] = "selecting"]
    /\ Send({Discover(m, xid'[m])})
    /\ UNCHANGED <<pool, addr, valid, asked, spoiled>>

\* With a new REQUEST the client asks for a lease anew.
Ask(m) ==
    /\ asked' = [asked EXCEPT ![m] = LeaseTime]
    /\ spoiled' = [spoiled EXCEPT ![m] = @ \ {"asked"}]

\* The lease will count from the moment its REQUEST is sent.
SendRequest(m) ==
    /\ phase[m] = "selecting"
    /\ \E d \in net : d.type = "offer" /\ d.mac = m /\ d.xid = xid[m]
    /\ phase' = [phase EXCEPT ![m] = "requesting"]
    /\ Ask(m)
    /\ UNCHANGED <<pool, xid, addr, valid>>
    /\ Send({Request(m, xid[m])})

\* The REQUEST that accepts another server's offer is broadcast too.
ChooseOther(m) ==
    /\ phase[m] = "selecting"
    /\ phase' = [phase EXCEPT ![m] = "elsewhere"]
    /\ UNCHANGED <<pool, xid, addr, valid, asked, spoiled>>
    /\ Send({Request(m, xid[m])})

\* A machine that remembers its address asks for it again; one that has it
\* extends its lease.
Renew(m) ==
    /\ phase[m] \in {"init", "bound"}
    /\ NewTransaction(m)
    /\ phase' = [phase EXCEPT ![m] = IF @ = "init" THEN "requesting" ELSE "renewing"]
    /\ Send({Request(m, xid'[m])})
    /\ Ask(m)
    /\ UNCHANGED <<pool, addr, valid>>

ReceiveAck(m) ==
    /\ phase[m] \in {"requesting", "renewing"} /\ asked[m] > 0
    /\ \E d \in net :
        /\ d.type = "ack" /\ d.mac = m /\ d.xid = xid[m]
        /\ addr' = [addr EXCEPT ![m] = d.yiaddr]
    /\ phase' = [phase EXCEPT ![m] = "bound"]
    /\ valid' = [valid EXCEPT ![m] = asked[m]]
    /\ asked' = [asked EXCEPT ![m] = 0]
    /\ spoiled' = [spoiled EXCEPT ![m] = IF "asked" \in @ THEN {"used", "asked"} ELSE {}]
    /\ UNCHANGED <<pool, xid>>
    /\ Send({})

\* Switched off, restarted, or on to the next boot stage; no RELEASE is
\* understood by the server.
Leave(m) ==
    /\ phase[m] # "init"
    /\ phase' = [phase EXCEPT ![m] = "init"]
    /\ addr' = [addr EXCEPT ![m] = None]
    /\ valid' = [valid EXCEPT ![m] = 0]
    /\ asked' = [asked EXCEPT ![m] = 0]
    /\ UNCHANGED <<pool, xid, spoiled>>
    /\ Send({})

-----------------------------------------------------------------------------
(* Time.  A client gives its address up when its lease has run out.        *)

Before(n) == IF n = None \/ n = 0 THEN n ELSE n - 1

Tick ==
    /\ pool' = [pool EXCEPT !.left = [m \in Macs |-> Before(pool.left[m])]]
    /\ valid' = [m \in Macs |-> Before(valid[m])]
    /\ asked' = [m \in Macs |-> Before(asked[m])]
    /\ addr' = [m \in Macs |-> IF valid'[m] = 0 THEN None ELSE addr[m]]
    /\ phase' = [m \in Macs |-> IF phase[m] = "bound" /\ valid'[m] = 0
                                  THEN "init" ELSE phase[m]]
    /\ UNCHANGED <<net, xid, spoiled>>

Client(m) == SendDiscover(m) \/ SendRequest(m) \/ ChooseOther(m) \/ Renew(m)
             \/ ReceiveAck(m) \/ Leave(m)

Next == OnDiscover \/ OnRequest \/ Restart \/ Tick \/ \E m \in Macs : Client(m)

Spec == Init /\ [][Next]_vars

-----------------------------------------------------------------------------
(* Properties.                                                             *)

\* Every variable of the model stays in its set.
TypeOK ==
    /\ pool \in Pool
    /\ net \subseteq Discovers \cup Requests \cup Replies
    /\ phase \in [Macs -> {"init", "selecting", "requesting", "elsewhere",
                           "bound", "renewing"}]
    /\ xid \in [Macs -> 0 .. MaxXid]
    /\ addr \in [Macs -> Addrs \cup {None}]
    /\ valid \in [Macs -> 0 .. LeaseTime]
    /\ asked \in [Macs -> 0 .. LeaseTime]
    /\ spoiled \in [Macs -> SUBSET {"used", "asked"}]

\* No two clients use the same address (dhcp_standalone.py:33-36: a committed
\* address is protected for lease_seconds, and the clients believe it) ...
Shared(m, n) == m # n /\ addr[m] # None /\ addr[m] = addr[n]

NoSharedAddress == \A m, n \in Macs : ~Shared(m, n)

\* ... unless, since one of them sent the REQUEST for the lease it uses, a
\* DISCOVER of its own has arrived or the pool has been lost.  Nothing else
\* that the network or a third client does spoils a lease; and one that was
\* spoiled is sound again with its next REQUEST, that of a renewal for instance.
Stands(m) == "used" \notin spoiled[m]

AddressesExclusive ==
    \A m, n \in Macs : Shared(m, n) => ~Stands(m) \/ ~Stands(n)

\* The dictionaries are one table of leases, in which an address changes
\* hands only when its time is over, unless the whole table is lost
\* (dhcp_standalone.py:55-82).
LeaseIn(p, a) == IF p.mac[a] = None THEN [mac |-> None, left |-> 0]
                 ELSE [mac |-> p.mac[a], left |-> p.left[p.mac[a]]]

leaseOf == [a \in Addrs |-> LeaseIn(pool, a)]

Leases == INSTANCE AddressLeases WITH lease <- leaseOf,
                                      Periods <- {OfferTimeout, LeaseTime}

ImplementsLeases == Leases!Spec

\* The inductive invariant behind them.  _mac_to_ip and _ip_to_mac are each
\* other's inverse and have a timer for each entry ...
IsTable(p) ==
    /\ \A m \in Macs : /\ p.ip[m] = None <=> p.left[m] = None
                       /\ p.ip[m] # None => p.mac[p.ip[m]] = m
    /\ \A a \in Addrs : p.mac[a] # None => p.ip[p.mac[a]] = a

OneTable == IsTable(pool)

\* ... and the server's timer outlasts the client's, for the address a client
\* uses and for the one that an ACK still on its way promises, unless spoiled.
Outlasts(m, a, ticks) == pool.ip[m] = a /\ pool.left[m] >= ticks

ClientsProtected ==
    \A m \in Macs :
        /\ addr[m] # None => valid[m] > 0
        /\ addr[m] # None /\ Stands(m) => Outlasts(m, addr[m], valid[m])
        /\ phase[m] \in {"requesting", "renewing"} /\ asked[m] > 0
             /\ "asked" \notin spoiled[m] =>
              \A d \in net : d.type = "ack" /\ d.mac = m /\ d.xid = xid[m]
                                => Outlasts(m, d.yiaddr, asked[m])

\* Only a client that is bound, or renewing, uses an address; a REQUEST and
\* its ACK belong to the transaction it was sent in.
TransactionsOrdered ==
    /\ \A m \in Macs : addr[m] # None => phase[m] \in {"bound", "renewing"}
    /\ \A d \in net : /\ d.xid <= xid[d.mac]
                      /\ phase[d.mac] = "selecting" /\ d.type \in {"request", "ack"}
                            => d.xid # xid[d.mac]

LeaseInvariant == OneTable /\ ClientsProtected /\ TransactionsOrdered
=============================================================================

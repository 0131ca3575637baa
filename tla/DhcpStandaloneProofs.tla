------------------------ MODULE DhcpStandaloneProofs ------------------------
(***************************************************************************)
(* That LeasePool's dictionaries always are one table of leases, that they *)
(* implement AddressLeases, and that no two clients use one address while  *)
(* their leases stand, for any clients, pool and periods.                  *)
(***************************************************************************)
EXTENDS DhcpStandalone, TLAPS

-----------------------------------------------------------------------------
(* LeasePool.                                                              *)

\* Reclaiming leaves a table; who still has time keeps address and timer.
LEMMA ReclaimedFacts ==
    ASSUME pool \in Pool, OneTable
    PROVE  /\ Reclaimed \in Pool
           /\ IsTable(Reclaimed)
           /\ \A n \in Macs : Reclaimed.ip[n] # None =>
                 /\ Reclaimed.ip[n] = pool.ip[n] /\ Reclaimed.left[n] = pool.left[n]
                 /\ pool.left[n] # 0
           /\ \A n \in Macs : pool.left[n] # 0 =>
                 Reclaimed.ip[n] = pool.ip[n] /\ Reclaimed.left[n] = pool.left[n]
  <1>. DEFINE R == Reclaimed
  <1>1. /\ pool.ip \in [Macs -> Addrs \cup {None}]
        /\ pool.mac \in [Addrs -> Macs \cup {None}]
        /\ pool.left \in [Macs -> Nat \cup {None}]
    BY DEF Pool
  <1>2. R \in Pool
    BY <1>1 DEF Reclaimed, Pool
  <1>3. \A n \in Macs : /\ R.ip[n] = IF pool.left[n] = 0 THEN None ELSE pool.ip[n]
                        /\ R.left[n] = IF pool.left[n] = 0 THEN None ELSE pool.left[n]
    BY DEF Reclaimed, Expired
  <1>4. \A a \in Addrs : R.mac[a] = IF \E m \in Expired : pool.ip[m] = a
                                      THEN None ELSE pool.mac[a]
    BY DEF Reclaimed
  <1>5. None \notin Addrs /\ None \notin Macs
    BY PoolAssumption DEF Addrs
  <1>6. \A m \in Macs : /\ R.ip[m] = None <=> R.left[m] = None
                        /\ R.ip[m] # None => R.mac[R.ip[m]] = m
    <2>. SUFFICES ASSUME NEW m \in Macs
                  PROVE  /\ R.ip[m] = None <=> R.left[m] = None
                         /\ R.ip[m] # None => R.mac[R.ip[m]] = m
      OBVIOUS
    <2>1. R.ip[m] = None <=> R.left[m] = None
      BY <1>3 DEF OneTable, IsTable
    <2>2. ASSUME R.ip[m] # None  PROVE  R.mac[R.ip[m]] = m
      <3>1. R.ip[m] = pool.ip[m] /\ pool.left[m] # 0 /\ pool.ip[m] \in Addrs
        BY <2>2, <1>3, <1>1
      <3>2. pool.mac[pool.ip[m]] = m
        BY <3>1, <2>2 DEF OneTable, IsTable
      <3>3. ~ \E n \in Expired : pool.ip[n] = pool.ip[m]
        BY <3>1, <3>2, <1>5 DEF Expired, OneTable, IsTable
      <3>. QED  BY <3>1, <3>2, <3>3, <1>4
    <2>. QED  BY <2>1, <2>2
  <1>7. \A a \in Addrs : R.mac[a] # None => R.ip[R.mac[a]] = a
    <2>. SUFFICES ASSUME NEW a \in Addrs, R.mac[a] # None
                  PROVE  R.ip[R.mac[a]] = a
      OBVIOUS
    <2>1. R.mac[a] = pool.mac[a] /\ ~ \E m \in Expired : pool.ip[m] = a
      BY <1>4
    <2>2. pool.mac[a] \in Macs /\ pool.ip[pool.mac[a]] = a
      BY <2>1, <1>1 DEF OneTable, IsTable
    <2>. QED  BY <2>1, <2>2, <1>3 DEF Expired
  <1>8. \A n \in Macs : R.ip[n] # None =>
            R.ip[n] = pool.ip[n] /\ R.left[n] = pool.left[n] /\ pool.left[n] # 0
    BY <1>3
  <1>9. \A n \in Macs : pool.left[n] # 0 =>
            R.ip[n] = pool.ip[n] /\ R.left[n] = pool.left[n]
    BY <1>3
  <1>. QED  BY <1>2, <1>6, <1>7, <1>8, <1>9 DEF IsTable

\* A longer period, or a new entry for a client and an address without one,
\* makes a table of a table and changes nobody else's lease.
LEMMA ExtendedFacts ==
    ASSUME NEW p \in Pool, IsTable(p), NEW m \in Macs, p.ip[m] # None, NEW ticks \in Nat,
           NEW q, q = Extended(p, m, ticks)
    PROVE  /\ q \in Pool /\ IsTable(q)
           /\ q.ip[m] = p.ip[m] /\ q.left[m] = ticks
           /\ \A n \in Macs \ {m} : q.ip[n] = p.ip[n] /\ q.left[n] = p.left[n]
           /\ q.mac = p.mac
  <1>1. /\ p.ip \in [Macs -> Addrs \cup {None}]
        /\ p.mac \in [Addrs -> Macs \cup {None}]
        /\ p.left \in [Macs -> Nat \cup {None}]
    BY DEF Pool
  <1>2. q.ip = p.ip /\ q.mac = p.mac /\ q.left = [p.left EXCEPT ![m] = ticks]
    BY DEF Extended, Pool
  <1>3. q = [ip |-> p.ip, mac |-> p.mac, left |-> [p.left EXCEPT ![m] = ticks]]
    BY DEF Extended, Pool
  <1>4. q \in Pool
    BY <1>1, <1>3 DEF Pool
  <1>5. ticks # None
    BY PoolAssumption
  <1>6. IsTable(q)
    BY <1>1, <1>2, <1>5 DEF IsTable
  <1>. QED  BY <1>1, <1>2, <1>4, <1>6

LEMMA EnteredFacts ==
    ASSUME NEW p \in Pool, IsTable(p), NEW m \in Macs, p.ip[m] = None,
           NEW a \in Addrs, p.mac[a] = None, NEW ticks \in Nat,
           NEW q, q = Entered(p, m, a, ticks)
    PROVE  q \in Pool /\ IsTable(q)
  <1>1. /\ p.ip \in [Macs -> Addrs \cup {None}]
        /\ p.mac \in [Addrs -> Macs \cup {None}]
        /\ p.left \in [Macs -> Nat \cup {None}]
    BY DEF Pool
  <1>2. /\ q.ip = [p.ip EXCEPT ![m] = a] /\ q.mac = [p.mac EXCEPT ![a] = m]
        /\ q.left = [p.left EXCEPT ![m] = ticks]
    BY DEF Entered
  <1>3. q \in Pool
    BY <1>1 DEF Pool, Entered
  <1>4. None \notin Addrs /\ None \notin Macs /\ ticks # None
    BY PoolAssumption DEF Addrs
  <1>5. \A n \in Macs : p.ip[n] # a
    BY <1>1, <1>4 DEF IsTable
  <1>6. \A n \in Macs : /\ q.ip[n] = None <=> q.left[n] = None
                        /\ q.ip[n] # None => q.mac[q.ip[n]] = n
    <2>. SUFFICES ASSUME NEW n \in Macs
                  PROVE  /\ q.ip[n] = None <=> q.left[n] = None
                         /\ q.ip[n] # None => q.mac[q.ip[n]] = n
      OBVIOUS
    <2>1. CASE n = m
      <3>1. q.ip[n] = a /\ q.left[n] = ticks /\ q.mac[a] = n
        BY <1>1, <1>2, <2>1
      <3>. QED  BY <1>1, <1>4, <3>1
    <2>2. CASE n # m
      <3>1. q.ip[n] = p.ip[n] /\ q.left[n] = p.left[n]
        BY <1>1, <1>2, <2>2
      <3>2. p.ip[n] # None => p.ip[n] \in Addrs /\ q.mac[p.ip[n]] = p.mac[p.ip[n]]
        BY <1>1, <1>2, <1>5
      <3>. QED  BY <3>1, <3>2 DEF IsTable
    <2>. QED  BY <2>1, <2>2
  <1>7. \A b \in Addrs : q.mac[b] # None => q.ip[q.mac[b]] = b
    BY <1>1, <1>2, <1>4 DEF IsTable
  <1>. QED  BY <1>1, <1>2, <1>3, <1>6, <1>7 DEF IsTable

\* What a call of offer or commit leaves of the client's own lease, and of
\* the others': these lose theirs only when its time is over.
LeftFor(m, ticks) ==
    /\ pool' \in Pool /\ IsTable(pool')
    /\ pool'.ip[m] # None => pool'.left[m] = ticks
    /\ pool.ip[m] # None /\ pool.left[m] # 0 => pool'.ip[m] = pool.ip[m]
    /\ \A n \in Macs \ {m} : pool.left[n] # 0 =>
          pool'.ip[n] = pool.ip[n] /\ pool'.left[n] = pool.left[n]

LEMMA AllocateFacts ==
    ASSUME pool \in Pool, OneTable, NEW m \in Macs, NEW ticks \in Nat,
           Allocate(m, ticks)
    PROVE  LeftFor(m, ticks)
  <1>1. CASE Reclaimed.ip[m] # None /\ pool' = Extended(Reclaimed, m, ticks)
    BY <1>1, ReclaimedFacts, ExtendedFacts DEF LeftFor
  <1>2. CASE /\ Reclaimed.ip[m] = None
             /\ \E a \in FreeIn(Reclaimed) : pool' = Entered(Reclaimed, m, a, ticks)
    <2>1. PICK p \in Pool : p = Reclaimed
      BY ReclaimedFacts
    <2>2. PICK a \in FreeIn(p) : pool' = Entered(p, m, a, ticks)
      BY <1>2, <2>1
    <2>3. IsTable(p) /\ p.ip[m] = None /\ a \in Addrs /\ p.mac[a] = None
      BY <1>2, <2>1, <2>2, ReclaimedFacts DEF FreeIn
    <2>4. pool' \in Pool /\ IsTable(pool')
      BY <2>2, <2>3, EnteredFacts
    <2>5. /\ pool'.left[m] = ticks
          /\ \A n \in Macs \ {m} : pool'.ip[n] = p.ip[n] /\ pool'.left[n] = p.left[n]
      BY <2>2 DEF Entered, Pool
    <2>6. pool.ip[m] # None => pool.left[m] = 0
      BY <1>2, ReclaimedFacts
    <2>. QED  BY <2>1, <2>4, <2>5, <2>6, ReclaimedFacts DEF LeftFor
  <1>3. CASE Reclaimed.ip[m] = None /\ pool' = Reclaimed
    BY <1>3, ReclaimedFacts DEF LeftFor
  <1>. QED  BY <1>1, <1>2, <1>3 DEF Allocate

LEMMA CommitFacts ==
    ASSUME pool \in Pool, OneTable, NEW m \in Macs, Commit(m)
    PROVE  LeftFor(m, LeaseTime)
  <1>1. LeaseTime \in Nat
    BY PoolAssumption
  <1>2. CASE pool.ip[m] # None /\ pool' = Extended(pool, m, LeaseTime)
    BY <1>1, <1>2, ExtendedFacts DEF LeftFor, OneTable
  <1>3. CASE Allocate(m, LeaseTime)
    BY <1>1, <1>3, AllocateFacts
  <1>. QED  BY <1>2, <1>3 DEF Commit

-----------------------------------------------------------------------------
(* Typing.                                                                 *)

LEMMA SendTyped ==
    ASSUME TypeOK, NEW D \in SUBSET (Discovers \cup Requests \cup Replies), Send(D)
    PROVE  net' \subseteq Discovers \cup Requests \cup Replies
  BY DEF TypeOK, Send, Travelling

LEMMA ReplyTyped ==
    ASSUME TypeOK, pool' \in Pool, NEW d \in Discovers \cup Requests,
           NEW type \in {"offer", "ack"}, ReplyIfAllocated(type, d)
    PROVE  net' \subseteq Discovers \cup Requests \cup Replies
  <1>1. d.mac \in Macs /\ d.xid \in 0 .. MaxXid
    BY DEF Discovers, Requests
  <1>2. pool'.ip[d.mac] \in Addrs \cup {None}
    BY <1>1 DEF Pool
  <1>3. CASE pool'.ip[d.mac] = None
    BY <1>3 DEF TypeOK, ReplyIfAllocated, Send, Travelling
  <1>4. CASE pool'.ip[d.mac] # None
    <2>1. Reply(type, d, pool'.ip[d.mac]) \in Replies
      BY <1>1, <1>2, <1>4 DEF Reply, Replies
    <2>. QED  BY <1>4, <2>1 DEF TypeOK, ReplyIfAllocated, Send, Travelling
  <1>. QED  BY <1>3, <1>4

LEMMA ServerPool ==
    ASSUME TypeOK, OneTable, OnDiscover \/ OnRequest
    PROVE  pool' \in Pool /\ OneTable'
  <1>1. OfferTimeout \in Nat
    BY PoolAssumption
  <1>2. CASE OnDiscover
    <2>1. PICK d \in Discovers : Offer(d.mac)
      BY <1>2 DEF OnDiscover
    <2>2. d.mac \in Macs
      BY DEF Discovers
    <2>. QED  BY <1>1, <2>1, <2>2, AllocateFacts DEF TypeOK, Offer, LeftFor, OneTable
  <1>3. CASE OnRequest
    <2>1. PICK d \in Requests : Commit(d.mac)
      BY <1>3 DEF OnRequest
    <2>2. d.mac \in Macs
      BY DEF Requests
    <2>. QED  BY <2>1, <2>2, CommitFacts DEF TypeOK, LeftFor, OneTable
  <1>. QED  BY <1>2, <1>3

LEMMA TickPool ==
    ASSUME pool \in Pool, OneTable, Tick
    PROVE  /\ pool' \in Pool /\ OneTable'
           /\ pool'.ip = pool.ip /\ pool'.mac = pool.mac
           /\ pool'.left = [m \in Macs |-> Before(pool.left[m])]
  <1>1. /\ pool.ip \in [Macs -> Addrs \cup {None}]
        /\ pool.mac \in [Addrs -> Macs \cup {None}]
        /\ pool.left \in [Macs -> Nat \cup {None}]
    BY DEF Pool
  <1>2. pool' = [ip |-> pool.ip, mac |-> pool.mac,
                 left |-> [m \in Macs |-> Before(pool.left[m])]]
    BY DEF Tick, Pool
  <1>3. \A m \in Macs : /\ Before(pool.left[m]) \in Nat \cup {None}
                        /\ Before(pool.left[m]) = None <=> pool.left[m] = None
    BY <1>1, PoolAssumption DEF Before
  <1>. QED  BY <1>1, <1>2, <1>3 DEF Pool, OneTable, IsTable

LEMMA EmptyFacts == EmptyPool \in Pool /\ IsTable(EmptyPool)
  BY DEF EmptyPool, Pool, IsTable

LEMMA ClientTyped ==
    ASSUME TypeOK, NEW m \in Macs, Client(m)
    PROVE  TypeOK'
  <1>. USE PoolAssumption, LeaseBoundsAssumption
  <1>1. \A x \in 0 .. MaxXid : /\ {Discover(m, x)} \in SUBSET (Discovers \cup Requests \cup Replies)
                               /\ {Request(m, x)} \in SUBSET (Discovers \cup Requests \cup Replies)
    BY DEF Discover, Request, Discovers, Requests
  <1>2. xid[m] \in 0 .. MaxXid
    BY DEF TypeOK
  <1>3. CASE SendDiscover(m)
    <2>1. xid' \in [Macs -> 0 .. MaxXid] /\ xid'[m] \in 0 .. MaxXid
      BY <1>2, <1>3 DEF SendDiscover, NewTransaction, TypeOK
    <2>2. net' \subseteq Discovers \cup Requests \cup Replies
      BY <1>1, <1>3, <2>1, SendTyped DEF SendDiscover
    <2>. QED  BY <1>3, <2>1, <2>2 DEF SendDiscover, TypeOK
  <1>4. CASE SendRequest(m)
    <2>2. net' \subseteq Discovers \cup Requests \cup Replies
      BY <1>1, <1>2, <1>4, SendTyped DEF SendRequest
    <2>. QED  BY <1>4, <2>2 DEF SendRequest, Ask, TypeOK
  <1>5. CASE ChooseOther(m)
    <2>2. net' \subseteq Discovers \cup Requests \cup Replies
      BY <1>1, <1>2, <1>5, SendTyped DEF ChooseOther
    <2>. QED  BY <1>5, <2>2 DEF ChooseOther, TypeOK
  <1>6. CASE Renew(m)
    <2>1. xid' \in [Macs -> 0 .. MaxXid] /\ xid'[m] \in 0 .. MaxXid
      BY <1>2, <1>6 DEF Renew, NewTransaction, TypeOK
    <2>2. net' \subseteq Discovers \cup Requests \cup Replies
      BY <1>1, <1>6, <2>1, SendTyped DEF Renew
    <2>3. phase' = [phase EXCEPT ![m] = IF phase[m] = "init"
                                          THEN "requesting" ELSE "renewing"]
      BY <1>6 DEF Renew
    <2>4. /\ asked' = [asked EXCEPT ![m] = LeaseTime]
          /\ spoiled' = [spoiled EXCEPT ![m] = @ \ {"asked"}]
      BY <1>6 DEF Renew, Ask
    <2>5. phase' \in [Macs -> {"init", "selecting", "requesting", "elsewhere",
                                "bound", "renewing"}]
      BY <2>3 DEF TypeOK
    <2>6. asked' \in [Macs -> 0 .. LeaseTime] /\ spoiled' \in [Macs -> SUBSET {"used", "asked"}]
      BY <2>4 DEF TypeOK
    <2>7. UNCHANGED <<pool, addr, valid>>
      BY <1>6 DEF Renew
    <2>. QED  BY <2>1, <2>2, <2>5, <2>6, <2>7 DEF TypeOK
  <1>7. CASE ReceiveAck(m)
    <2>1. net' \subseteq net
      BY <1>7 DEF ReceiveAck, Send, Travelling
    <2>2. PICK d \in Replies : addr' = [addr EXCEPT ![m] = d.yiaddr]
      BY <1>7 DEF ReceiveAck, TypeOK, Discovers, Requests, Replies
    <2>3. d.yiaddr \in Addrs
      BY DEF Replies
    <2>4. addr' \in [Macs -> Addrs \cup {None}]
      BY <2>2, <2>3 DEF TypeOK
    <2>5. spoiled' \in [Macs -> SUBSET {"used", "asked"}]
      BY <1>7 DEF ReceiveAck, TypeOK
    <2>. QED  BY <1>7, <2>1, <2>4, <2>5 DEF ReceiveAck, TypeOK
  <1>8. CASE Leave(m)
    <2>1. net' \subseteq net
      BY <1>8 DEF Leave, Send, Travelling
    <2>. QED  BY <1>8, <2>1 DEF Leave, TypeOK
  <1>. QED  BY <1>3, <1>4, <1>5, <1>6, <1>7, <1>8 DEF Client

LEMMA InitTable == Init => TypeOK /\ OneTable
  BY EmptyFacts, PoolAssumption, LeaseBoundsAssumption DEF Init, TypeOK, OneTable

LEMMA TableStep == TypeOK /\ OneTable /\ [Next]_vars => TypeOK' /\ OneTable'
  <1>. SUFFICES ASSUME TypeOK, OneTable, [Next]_vars  PROVE  TypeOK' /\ OneTable'
    OBVIOUS
  <1>. USE PoolAssumption, LeaseBoundsAssumption
  <1>1. CASE OnDiscover
    <2>1. pool' \in Pool /\ OneTable'
      BY <1>1, ServerPool
    <2>2. net' \subseteq Discovers \cup Requests \cup Replies
      BY <1>1, <2>1, ReplyTyped DEF OnDiscover
    <2>3. spoiled' \in [Macs -> SUBSET {"used", "asked"}]
      BY <1>1 DEF OnDiscover, Spoil, TypeOK
    <2>. QED  BY <1>1, <2>1, <2>2, <2>3 DEF OnDiscover, TypeOK, clients
  <1>2. CASE OnRequest
    <2>1. pool' \in Pool /\ OneTable'
      BY <1>2, ServerPool
    <2>2. net' \subseteq Discovers \cup Requests \cup Replies
      BY <1>2, <2>1, ReplyTyped DEF OnRequest
    <2>. QED  BY <1>2, <2>1, <2>2 DEF OnRequest, TypeOK, clients
  <1>3. CASE Restart
    BY <1>3, EmptyFacts DEF Restart, Spoil, TypeOK, OneTable, clients
  <1>4. CASE Tick
    <2>1. pool' \in Pool /\ OneTable'
      BY <1>4, TickPool DEF TypeOK
    <2>2. /\ valid' \in [Macs -> 0 .. LeaseTime] /\ asked' \in [Macs -> 0 .. LeaseTime]
          /\ addr' \in [Macs -> Addrs \cup {None}]
          /\ phase' \in [Macs -> {"init", "selecting", "requesting", "elsewhere",
                                  "bound", "renewing"}]
      BY <1>4 DEF Tick, Before, TypeOK
    <2>. QED  BY <1>4, <2>1, <2>2 DEF Tick, TypeOK
  <1>5. ASSUME NEW m \in Macs, Client(m)  PROVE  TypeOK' /\ OneTable'
    <2>1. pool' = pool
      BY <1>5 DEF Client, SendDiscover, SendRequest, ChooseOther, Renew, ReceiveAck, Leave
    <2>. QED  BY <1>5, <2>1, ClientTyped DEF OneTable
  <1>6. CASE UNCHANGED vars
    BY <1>6 DEF vars, clients, TypeOK, OneTable
  <1>. QED  BY <1>1, <1>2, <1>3, <1>4, <1>5, <1>6 DEF Next

\* The variables stay in their sets, and _mac_to_ip, _ip_to_mac and
\* _expires_at stay one table, whatever arrives in whatever order, and after
\* any number of restarts.
THEOREM TableCorrect == Spec => [](TypeOK /\ OneTable)
  <1>1. Init => TypeOK /\ OneTable
    BY InitTable
  <1>2. TypeOK /\ OneTable /\ [Next]_vars => TypeOK' /\ OneTable'
    BY TableStep
  <1>. QED  BY <1>1, <1>2, PTL DEF Spec

-----------------------------------------------------------------------------
(* The clients.                                                            *)

LEMMA NetGrows ==
    \A D : Send(D) => net' \subseteq net \cup D
  BY DEF Send, Travelling

\* A reply keeps the promises that stand: an offer shortens the lease of its
\* client only, whose promises it spoils when that client has gone on.
LEMMA ServerProtects ==
    ASSUME TypeOK, OneTable, ClientsProtected, TransactionsOrdered,
           UNCHANGED clients, NEW m \in Macs, NEW ticks \in Nat, LeftFor(m, ticks),
           NEW d \in net, d.mac = m, NEW type \in {"offer", "ack"},
           type = "ack" => d.type = "request",
           ReplyIfAllocated(type, d),
           \A n \in Macs : spoiled[n] \subseteq spoiled'[n],
           type = "ack" => ticks = LeaseTime,
           ticks = LeaseTime \/ ~IsLate(d) \/ {"used", "asked"} \subseteq spoiled'[m]
    PROVE  ClientsProtected' /\ TransactionsOrdered'
  <1>1. \A e \in net' : e \in net \/ e = Reply(type, d, pool'.ip[m])
    BY NetGrows DEF ReplyIfAllocated
  <1>2. \A n \in Macs : valid[n] \in 0 .. LeaseTime /\ asked[n] \in 0 .. LeaseTime
                        /\ pool.left[n] \in Nat \cup {None} /\ None \notin Nat
    BY PoolAssumption DEF TypeOK, Pool
  <1>3. ASSUME NEW n \in Macs, NEW a, NEW t \in 1 .. LeaseTime, Outlasts(n, a, t),
               a # None,
               n = m => ticks = LeaseTime
        PROVE  Outlasts(n, a, t)'
    <2>1. pool.left[n] # 0 /\ pool.ip[n] # None
      BY <1>3, <1>2, PoolAssumption DEF Outlasts, OneTable, IsTable
    <2>2. CASE n # m
      BY <1>3, <2>1, <2>2 DEF LeftFor, Outlasts
    <2>3. CASE n = m
      BY <1>3, <2>1, <2>3, PoolAssumption DEF LeftFor, Outlasts
    <2>. QED  BY <2>2, <2>3
  <1>4. \A n \in Macs, s \in {"used", "asked"} :
           /\ phase[n] \in {"requesting", "bound", "renewing"} /\ n = m
           /\ s \notin spoiled'[n]
           => ticks = LeaseTime
    BY DEF IsLate
  <1>5. ASSUME NEW n \in Macs, addr[n] # None, Stands(n)'
        PROVE  Outlasts(n, addr[n], valid[n])'
    <2>1. /\ valid[n] \in 1 .. LeaseTime /\ Outlasts(n, addr[n], valid[n])
          /\ phase[n] \in {"bound", "renewing"} /\ "used" \notin spoiled'[n]
      BY <1>2, <1>5 DEF ClientsProtected, TransactionsOrdered, Stands
    <2>2. Outlasts(n, addr[n], valid[n])'
      BY <1>3, <1>4, <1>5, <2>1 DEF Outlasts, clients
    <2>. QED  BY <2>1, <2>2
  <1>6. ASSUME NEW n \in Macs, phase[n] \in {"requesting", "renewing"}, asked[n] > 0,
               "asked" \notin spoiled'[n],
               NEW e \in net', e.type = "ack", e.mac = n, e.xid = xid[n]
        PROVE  Outlasts(n, e.yiaddr, asked[n])'
    <2>1. asked[n] \in 1 .. LeaseTime
      BY <1>2, <1>6
    <2>2. CASE e \in net
      <3>1. Outlasts(n, e.yiaddr, asked[n])
        BY <1>6, <2>2 DEF ClientsProtected
      <3>2. e.yiaddr # None
        <4>1. e \in Replies
          BY <1>6, <2>2 DEF TypeOK, Discovers, Requests
        <4>. QED  BY <4>1, PoolAssumption DEF Replies, Addrs
      <3>3. \A a, t : a = e.yiaddr /\ t = asked[n] => Outlasts(n, a, t)'
        BY <1>3, <1>4, <1>6, <2>1, <3>1, <3>2
      <3>. QED  BY <3>3 DEF Outlasts, clients
    <2>3. CASE e = Reply(type, d, pool'.ip[m]) /\ e \notin net
      <3>1. n = m /\ type = "ack" /\ e.yiaddr = pool'.ip[m]
        BY <1>6, <2>3 DEF Reply
      <3>2. pool'.ip[m] # None
        BY <1>6, <2>3 DEF ReplyIfAllocated, Send, Travelling
      <3>3. pool'.left[m] = LeaseTime
        BY <3>1, <3>2 DEF LeftFor
      <3>. QED  BY <1>2, <3>1, <3>3, PoolAssumption DEF Outlasts, clients
    <2>. QED  BY <1>1, <2>2, <2>3
  <1>7. ClientsProtected'
    <2>1. \A n \in Macs : addr[n] # None => valid[n] > 0
      BY DEF ClientsProtected
    <2>. QED  BY <1>5, <1>6, <2>1 DEF ClientsProtected, clients, Outlasts
  <1>8. TransactionsOrdered'
    <2>1. \A e \in net' : e.xid <= xid[e.mac]
      BY <1>1 DEF TransactionsOrdered, Reply
    <2>2. \A e \in net' : phase[e.mac] = "selecting" /\ e.type \in {"request", "ack"}
                             => e.xid # xid[e.mac]
      BY <1>1 DEF TransactionsOrdered, Reply
    <2>. QED  BY <2>1, <2>2 DEF TransactionsOrdered, clients
  <1>. QED  BY <1>7, <1>8

LEMMA TickProtects ==
    ASSUME TypeOK, OneTable, ClientsProtected, TransactionsOrdered, Tick
    PROVE  ClientsProtected' /\ TransactionsOrdered'
  <1>1. /\ pool'.ip = pool.ip
        /\ \A n \in Macs : pool'.left[n] = Before(pool.left[n])
    BY TickPool DEF TypeOK
  <1>2. \A n \in Macs : /\ valid[n] \in 0 .. LeaseTime /\ asked[n] \in 0 .. LeaseTime
                        /\ valid'[n] = Before(valid[n]) /\ asked'[n] = Before(asked[n])
                        /\ addr'[n] = IF valid'[n] = 0 THEN None ELSE addr[n]
                        /\ phase'[n] = IF phase[n] = "bound" /\ valid'[n] = 0
                                         THEN "init" ELSE phase[n]
                        /\ pool.left[n] \in Nat \cup {None}
    BY DEF Tick, TypeOK, Pool
  <1>3. None \notin Nat /\ LeaseTime \in Nat
    BY PoolAssumption
  <1>4. ASSUME NEW n \in Macs, NEW a, NEW t \in 1 .. LeaseTime, a # None, Outlasts(n, a, t)
        PROVE  pool'.ip[n] = a /\ pool'.left[n] >= Before(t)
    <2>1. pool.ip[n] = a /\ pool.left[n] # None
      BY <1>4 DEF Outlasts, OneTable, IsTable
    <2>2. pool.left[n] \in Nat /\ pool.left[n] >= t
      BY <1>2, <1>4, <2>1 DEF Outlasts
    <2>. QED  BY <1>1, <1>3, <2>1, <2>2 DEF Before
  <1>7. UNCHANGED <<net, xid, spoiled>>
    BY DEF Tick
  <1>5. ASSUME NEW n \in Macs, addr'[n] # None
        PROVE  valid'[n] > 0 /\ (Stands(n)' => Outlasts(n, addr[n], valid[n])')
    <2>1. addr'[n] = addr[n] /\ addr[n] # None /\ valid'[n] # 0
      BY <1>2, <1>5
    <2>2. valid[n] \in 1 .. LeaseTime
      BY <1>2, <2>1 DEF ClientsProtected
    <2>3. valid'[n] > 0
      BY <1>2, <1>3, <2>1, <2>2 DEF Before
    <2>4. ASSUME Stands(n)'
          PROVE  pool'.ip[n] = addr[n] /\ pool'.left[n] >= Before(valid[n])
      <3>1. Outlasts(n, addr[n], valid[n])
        BY <1>7, <2>1, <2>4 DEF ClientsProtected, Stands
      <3>. QED  BY <1>4, <2>1, <2>2, <3>1
    <2>. QED  BY <1>2, <2>1, <2>3, <2>4 DEF Outlasts
  <1>6. ASSUME NEW n \in Macs, phase'[n] \in {"requesting", "renewing"}, asked'[n] > 0,
               "asked" \notin spoiled[n],
               NEW e \in net, e.type = "ack", e.mac = n, e.xid = xid[n]
        PROVE  Outlasts(n, e.yiaddr, asked[n])'
    <2>1. phase[n] \in {"requesting", "renewing"} /\ asked[n] \in 1 .. LeaseTime
      BY <1>2, <1>3, <1>6 DEF Before
    <2>2. Outlasts(n, e.yiaddr, asked[n])
      BY <1>6, <2>1 DEF ClientsProtected
    <2>3. e.yiaddr # None
      <3>1. e \in Replies
        BY <1>6 DEF TypeOK, Discovers, Requests
      <3>. QED  BY <3>1, PoolAssumption DEF Replies, Addrs
    <2>4. pool'.ip[n] = e.yiaddr /\ pool'.left[n] >= Before(asked[n])
      BY <1>4, <2>1, <2>2, <2>3
    <2>. QED  BY <1>2, <2>4 DEF Outlasts
  <1>8. ClientsProtected'
    BY <1>5, <1>6, <1>7 DEF ClientsProtected, Outlasts
  <1>9. TransactionsOrdered'
    <2>1. \A n \in Macs : addr'[n] # None => phase'[n] \in {"bound", "renewing"}
      BY <1>2 DEF TransactionsOrdered
    <2>2. \A e \in net : phase'[e.mac] = "selecting" => phase[e.mac] = "selecting"
      BY <1>2 DEF TypeOK, Discovers, Requests, Replies
    <2>. QED  BY <1>7, <2>1, <2>2 DEF TransactionsOrdered
  <1>. QED  BY <1>8, <1>9

LEMMA ClientProtects ==
    ASSUME TypeOK, OneTable, ClientsProtected, TransactionsOrdered,
           NEW m \in Macs, Client(m)
    PROVE  ClientsProtected' /\ TransactionsOrdered'
  <1>1. pool' = pool
    BY DEF Client, SendDiscover, SendRequest, ChooseOther, Renew, ReceiveAck, Leave
  <1>2. /\ phase \in [Macs -> {"init", "selecting", "requesting", "elsewhere",
                              "bound", "renewing"}]
        /\ xid \in [Macs -> 0 .. MaxXid] /\ addr \in [Macs -> Addrs \cup {None}]
        /\ valid \in [Macs -> 0 .. LeaseTime] /\ asked \in [Macs -> 0 .. LeaseTime]
        /\ LeaseTime \in Nat /\ MaxXid \in Nat
        /\ net \subseteq Discovers \cup Requests \cup Replies
        /\ spoiled \in [Macs -> SUBSET {"used", "asked"}]
    BY PoolAssumption, LeaseBoundsAssumption DEF TypeOK
  <1>3. \A e \in net : e.mac \in Macs /\ e.xid \in 0 .. MaxXid
    BY <1>2 DEF Discovers, Requests, Replies
  <1>4. ASSUME NEW x, x \in {xid[m], xid[m] + 1}, NEW d,
               d \in {Discover(m, x), Request(m, x)},
               net' \subseteq net \cup {d},
               xid' = [xid EXCEPT ![m] = x],
               UNCHANGED <<addr, valid>>,
               \E ph \in {"selecting", "requesting", "elsewhere", "renewing"} :
                  /\ phase' = [phase EXCEPT ![m] = ph]
                  /\ ph = "selecting" => d = Discover(m, x) /\ x = xid[m] + 1
                  /\ ph \in {"requesting", "renewing"} =>
                        x = xid[m] + 1 \/ phase[m] = "selecting"
                  /\ addr[m] # None => ph = "renewing",
               "used" \in spoiled'[m] <=> "used" \in spoiled[m],
               \A n \in Macs \ {m} : asked'[n] = asked[n] /\ spoiled'[n] = spoiled[n]
        PROVE  ClientsProtected' /\ TransactionsOrdered'
    <2>1. PICK ph \in {"selecting", "requesting", "elsewhere", "renewing"} :
                  /\ phase' = [phase EXCEPT ![m] = ph]
                  /\ ph = "selecting" => d = Discover(m, x) /\ x = xid[m] + 1
                  /\ ph \in {"requesting", "renewing"} =>
                        x = xid[m] + 1 \/ phase[m] = "selecting"
                  /\ addr[m] # None => ph = "renewing"
      BY <1>4
    <2>2. d.type \in {"discover", "request"} /\ d.mac = m /\ d.xid = x
      BY <1>4 DEF Discover, Request
    <2>3. \A n \in Macs : /\ phase'[n] = IF n = m THEN ph ELSE phase[n]
                          /\ xid'[n] = IF n = m THEN x ELSE xid[n]
      BY <1>2, <1>4, <2>1
    <2>4. \A e \in net' : e.type = "ack" => e \in net
      BY <1>4, <2>2
    <2>5. ASSUME NEW e \in net', e.type = "ack", e.xid = xid'[e.mac]
          PROVE  e.mac = m => ph \notin {"requesting", "renewing"}
      <3>1. e \in net /\ e.mac \in Macs /\ e.xid \in 0 .. MaxXid
        BY <1>3, <2>4, <2>5
      <3>2. ASSUME e.mac = m, ph \in {"requesting", "renewing"}  PROVE  FALSE
        <4>1. e.xid = x /\ e.xid <= xid[m]
          BY <2>3, <2>5, <3>1, <3>2 DEF TransactionsOrdered
        <4>2. x = xid[m] /\ phase[m] = "selecting"
          BY <1>2, <1>4, <2>1, <3>2, <4>1
        <4>. QED  BY <2>5, <3>1, <3>2, <4>1, <4>2 DEF TransactionsOrdered
      <3>. QED  BY <3>2
    <2>6. \A n \in Macs :
             addr[n] # None => /\ valid[n] > 0
                               /\ Stands(n)' => Outlasts(n, addr[n], valid[n])
      BY <1>4 DEF ClientsProtected, Stands
    <2>7. ASSUME NEW n \in Macs, phase'[n] \in {"requesting", "renewing"}, asked'[n] > 0,
                 "asked" \notin spoiled'[n],
                 NEW e \in net', e.type = "ack", e.mac = n, e.xid = xid'[n]
          PROVE  Outlasts(n, e.yiaddr, asked'[n])
      <3>1. n # m
        BY <2>3, <2>5, <2>7
      <3>. QED  BY <1>4, <2>3, <2>4, <2>7, <3>1 DEF ClientsProtected
    <2>8. ClientsProtected'
      BY <1>1, <1>4, <2>6, <2>7 DEF ClientsProtected, Outlasts
    <2>9. \A n \in Macs : addr'[n] # None => phase'[n] \in {"bound", "renewing"}
      BY <1>4, <2>1, <2>3 DEF TransactionsOrdered
    <2>10. ASSUME NEW e \in net'
           PROVE  /\ e.xid <= xid'[e.mac]
                  /\ phase'[e.mac] = "selecting" /\ e.type \in {"request", "ack"}
                         => e.xid # xid'[e.mac]
      <3>1. CASE e = d
        BY <1>2, <1>4, <2>1, <2>2, <2>3, <3>1 DEF Discover
      <3>2. CASE e \in net
        <4>1. e.mac \in Macs /\ e.xid \in 0 .. MaxXid /\ e.xid <= xid[e.mac]
          BY <1>3, <3>2 DEF TransactionsOrdered
        <4>2. CASE e.mac = m
          BY <1>2, <1>4, <2>1, <2>3, <4>1, <4>2
        <4>3. CASE e.mac # m
          BY <2>3, <3>2, <4>1, <4>3 DEF TransactionsOrdered
        <4>. QED  BY <4>2, <4>3
      <3>. QED  BY <1>4, <3>1, <3>2
    <2>. QED  BY <2>8, <2>9, <2>10 DEF TransactionsOrdered
  <1>5. CASE SendDiscover(m)
    <2>1. /\ xid' = [xid EXCEPT ![m] = xid[m] + 1] /\ xid'[m] = xid[m] + 1
          /\ phase' = [phase EXCEPT ![m] = "selecting"] /\ phase[m] = "init"
          /\ UNCHANGED <<addr, valid, asked, spoiled>>
      BY <1>2, <1>5 DEF SendDiscover, NewTransaction
    <2>2. net' \subseteq net \cup {Discover(m, xid[m] + 1)}
      BY <1>5, <2>1, NetGrows DEF SendDiscover
    <2>3. addr[m] = None
      BY <2>1 DEF TransactionsOrdered
    <2>. QED  BY <1>4, <2>1, <2>2, <2>3
  <1>6. CASE SendRequest(m) \/ ChooseOther(m)
    <2>1. /\ xid' = [xid EXCEPT ![m] = xid[m]] /\ phase[m] = "selecting"
          /\ \/ phase' = [phase EXCEPT ![m] = "requesting"]
             \/ phase' = [phase EXCEPT ![m] = "elsewhere"]
          /\ UNCHANGED <<addr, valid>>
          /\ "used" \in spoiled'[m] <=> "used" \in spoiled[m]
          /\ \A n \in Macs \ {m} : asked'[n] = asked[n] /\ spoiled'[n] = spoiled[n]
      BY <1>2, <1>6 DEF SendRequest, Ask, ChooseOther
    <2>2. net' \subseteq net \cup {Request(m, xid[m])}
      BY <1>6, NetGrows DEF SendRequest, ChooseOther
    <2>3. addr[m] = None
      BY <2>1 DEF TransactionsOrdered
    <2>. QED  BY <1>4, <2>1, <2>2, <2>3
  <1>7. CASE Renew(m)
    <2>1. /\ xid' = [xid EXCEPT ![m] = xid[m] + 1] /\ xid'[m] = xid[m] + 1
          /\ phase' = [phase EXCEPT ![m] = IF phase[m] = "init"
                                             THEN "requesting" ELSE "renewing"]
          /\ UNCHANGED <<addr, valid>>
      BY <1>2, <1>7 DEF Renew, NewTransaction
    <2>2. net' \subseteq net \cup {Request(m, xid[m] + 1)}
      BY <1>7, <2>1, NetGrows DEF Renew
    <2>3. /\ "used" \in spoiled'[m] <=> "used" \in spoiled[m]
          /\ \A n \in Macs \ {m} : asked'[n] = asked[n] /\ spoiled'[n] = spoiled[n]
      BY <1>2, <1>7 DEF Renew, Ask
    <2>4. phase[m] = "init" => addr[m] = None
      BY DEF TransactionsOrdered
    <2>. QED  BY <1>4, <2>1, <2>2, <2>3, <2>4
  <1>8. CASE Leave(m) \/ ReceiveAck(m)
    <2>1. /\ net' \subseteq net /\ xid' = xid
          /\ phase'[m] \in {"init", "bound"}
          /\ \A n \in Macs \ {m} : /\ phase'[n] = phase[n] /\ addr'[n] = addr[n]
                                   /\ valid'[n] = valid[n] /\ asked'[n] = asked[n]
                                   /\ spoiled'[n] = spoiled[n]
      BY <1>2, <1>8, NetGrows DEF Leave, ReceiveAck
    <2>2. addr'[m] # None =>
             /\ phase'[m] = "bound" /\ valid'[m] > 0
             /\ Stands(m)' => Outlasts(m, addr'[m], valid'[m])
      <3>1. CASE Leave(m)
        BY <1>2, <3>1 DEF Leave
      <3>2. CASE ReceiveAck(m)
        <4>1. PICK e \in net : /\ e.type = "ack" /\ e.mac = m /\ e.xid = xid[m]
                               /\ addr' = [addr EXCEPT ![m] = e.yiaddr]
          BY <3>2 DEF ReceiveAck
        <4>2. /\ phase[m] \in {"requesting", "renewing"} /\ asked[m] > 0
              /\ valid'[m] = asked[m] /\ addr'[m] = e.yiaddr /\ phase'[m] = "bound"
          BY <1>2, <3>2, <4>1 DEF ReceiveAck
        <4>3. ASSUME Stands(m)'  PROVE  Outlasts(m, e.yiaddr, asked[m])
          <5>1. "asked" \notin spoiled[m]
            BY <1>2, <3>2, <4>3 DEF ReceiveAck, Stands
          <5>. QED  BY <4>1, <4>2, <5>1 DEF ClientsProtected
        <4>. QED  BY <4>2, <4>3
      <3>. QED  BY <1>8, <3>1, <3>2
    <2>3. ClientsProtected'
      <3>1. ASSUME NEW n \in Macs, addr'[n] # None
            PROVE  valid'[n] > 0 /\ (Stands(n)' => Outlasts(n, addr'[n], valid'[n]))
        BY <2>1, <2>2, <3>1 DEF ClientsProtected, Stands
      <3>2. ASSUME NEW n \in Macs, phase'[n] \in {"requesting", "renewing"}, asked'[n] > 0,
                   "asked" \notin spoiled'[n],
                   NEW e \in net', e.type = "ack", e.mac = n, e.xid = xid'[n]
            PROVE  Outlasts(n, e.yiaddr, asked'[n])
        BY <2>1, <3>2 DEF ClientsProtected
      <3>. QED  BY <1>1, <3>1, <3>2 DEF ClientsProtected, Outlasts
    <2>4. TransactionsOrdered'
      <3>1. \A n \in Macs : addr'[n] # None => phase'[n] \in {"bound", "renewing"}
        BY <2>1, <2>2 DEF TransactionsOrdered
      <3>2. \A e \in net' : e \in net /\ e.mac \in Macs
        BY <1>3, <2>1
      <3>3. \A e \in net' : phase'[e.mac] = "selecting" => phase[e.mac] = "selecting"
        BY <2>1, <3>2
      <3>. QED  BY <2>1, <3>1, <3>2, <3>3 DEF TransactionsOrdered
    <2>. QED  BY <2>3, <2>4
  <1>. QED  BY <1>5, <1>6, <1>7, <1>8 DEF Client

LEMMA InvariantStep == TypeOK /\ LeaseInvariant /\ [Next]_vars => LeaseInvariant'
  <1>. SUFFICES ASSUME TypeOK, LeaseInvariant, [Next]_vars
                PROVE  ClientsProtected' /\ TransactionsOrdered'
    BY TableStep DEF LeaseInvariant
  <1>1. \A n \in Macs : spoiled[n] \in SUBSET {"used", "asked"}
    BY DEF TypeOK
  <1>2. OneTable /\ ClientsProtected /\ TransactionsOrdered
    BY DEF LeaseInvariant
  <1>3. CASE OnDiscover
    <2>1. PICK d \in net \cap Discovers :
             /\ Spoil(IF IsLate(d) THEN {d.mac} ELSE {})
             /\ Offer(d.mac) /\ UNCHANGED clients /\ ReplyIfAllocated("offer", d)
      BY <1>3 DEF OnDiscover
    <2>2. d.mac \in Macs
      BY DEF Discovers
    <2>3. /\ \A n \in Macs : spoiled[n] \subseteq spoiled'[n]
          /\ ~IsLate(d) \/ {"used", "asked"} \subseteq spoiled'[d.mac]
      BY <1>1, <2>1, <2>2 DEF Spoil
    <2>4. OfferTimeout \in Nat
      BY PoolAssumption
    <2>5. LeftFor(d.mac, OfferTimeout)
      BY <1>2, <2>1, <2>2, <2>4, AllocateFacts DEF Offer, TypeOK
    <2>. QED  BY <1>2, <2>1, <2>2, <2>3, <2>4, <2>5, ServerProtects
  <1>4. CASE OnRequest
    <2>1. PICK d \in net \cap Requests :
             /\ Commit(d.mac) /\ UNCHANGED clients /\ UNCHANGED spoiled
             /\ ReplyIfAllocated("ack", d)
      BY <1>4 DEF OnRequest
    <2>2. d.mac \in Macs /\ d.type = "request"
      BY DEF Requests
    <2>3. LeaseTime \in Nat
      BY PoolAssumption
    <2>4. LeftFor(d.mac, LeaseTime)
      BY <1>2, <2>1, <2>2, CommitFacts DEF TypeOK
    <2>. QED  BY <1>2, <2>1, <2>2, <2>3, <2>4, ServerProtects
  <1>5. CASE Restart
    <2>1. /\ UNCHANGED <<net, clients>>
          /\ \A n \in Macs : spoiled'[n] = {"used", "asked"}
      BY <1>5 DEF Restart, Spoil
    <2>. QED  BY <1>2, <2>1 DEF clients, ClientsProtected, TransactionsOrdered, Stands
  <1>6. CASE Tick
    BY <1>2, <1>6, TickProtects
  <1>7. ASSUME NEW m \in Macs, Client(m)  PROVE  ClientsProtected' /\ TransactionsOrdered'
    BY <1>2, <1>7, ClientProtects
  <1>8. CASE UNCHANGED vars
    BY <1>2, <1>8 DEF vars, clients, ClientsProtected, TransactionsOrdered, Outlasts, Stands
  <1>. QED  BY <1>3, <1>4, <1>5, <1>6, <1>7, <1>8 DEF Next

LEMMA InitLeases == Init => LeaseInvariant
  <1>. SUFFICES ASSUME Init  PROVE  LeaseInvariant
    OBVIOUS
  <1>1. OneTable
    BY InitTable
  <1>. QED  BY <1>1 DEF Init, LeaseInvariant, ClientsProtected, TransactionsOrdered

\* The server's lease of an address outlasts its client's, unless a DISCOVER of
\* that client's own was late or the pool was lost since the lease was asked for.
THEOREM LeasesCorrect == Spec => []LeaseInvariant
  <1>1. Init => TypeOK /\ LeaseInvariant
    BY InitTable, InitLeases
  <1>2. TypeOK /\ LeaseInvariant /\ [Next]_vars => (TypeOK /\ LeaseInvariant)'
    BY InvariantStep, TableStep DEF LeaseInvariant
  <1>3. Spec => [](TypeOK /\ LeaseInvariant)
    BY <1>1, <1>2, PTL DEF Spec
  <1>. QED  BY <1>3, PTL

\* So a client whose lease stands shares its address with none whose lease
\* stands, whatever the network loses, repeats or reorders, whatever other
\* clients do, and however often the daemon was restarted before it asked.
THEOREM NobodySharesAnAddress == Spec => []AddressesExclusive
  <1>1. TypeOK /\ LeaseInvariant => AddressesExclusive
    <2>. SUFFICES ASSUME TypeOK, LeaseInvariant, NEW m \in Macs, NEW n \in Macs,
                         addr[m] # None, addr[m] = addr[n], Stands(m), Stands(n)
                  PROVE  m = n
      BY DEF AddressesExclusive, Shared
    <2>1. pool.ip[m] = addr[m] /\ pool.ip[n] = addr[m]
      BY DEF LeaseInvariant, ClientsProtected, Outlasts
    <2>. QED  BY <2>1 DEF LeaseInvariant, OneTable, IsTable
  <1>2. Spec => []TypeOK
    BY TableCorrect, PTL
  <1>3. Spec => []LeaseInvariant
    BY LeasesCorrect
  <1>. QED  BY <1>1, <1>2, <1>3, PTL

-----------------------------------------------------------------------------
(* The table of leases that the dictionaries implement.                    *)

LEMMA InitLeased == Init => Leases!Init
  BY DEF Init, EmptyPool, leaseOf, LeaseIn, Leases!Init, Leases!NoLease

\* The table after the expired entries are gone.
LEMMA ReclaimedLeases ==
    ASSUME pool \in Pool, OneTable
    PROVE  \E gone \in SUBSET Leases!Lapsed :
             /\ \A a \in Addrs : Leases!Without(gone)[a] = LeaseIn(Reclaimed, a)
             /\ gone = {a \in Addrs : pool.mac[a] # None /\ pool.left[pool.mac[a]] = 0}
  <1>. DEFINE gone == {a \in Addrs : pool.mac[a] # None /\ pool.left[pool.mac[a]] = 0}
  <1>1. /\ pool.ip \in [Macs -> Addrs \cup {None}]
        /\ pool.mac \in [Addrs -> Macs \cup {None}]
        /\ pool.left \in [Macs -> Nat \cup {None}]
        /\ None \notin Addrs /\ None \notin Macs
    BY PoolAssumption DEF Pool, Addrs
  <1>2. \A a \in Addrs : leaseOf[a] = IF pool.mac[a] = None THEN [mac |-> None, left |-> 0]
                                      ELSE [mac |-> pool.mac[a],
                                            left |-> pool.left[pool.mac[a]]]
    BY DEF leaseOf, LeaseIn
  <1>3. gone \in SUBSET Leases!Lapsed
    <2>1. ASSUME NEW a \in gone  PROVE  a \in Addrs /\ leaseOf[a].left = 0
      <3>1. a \in Addrs /\ pool.mac[a] # None /\ pool.left[pool.mac[a]] = 0
        OBVIOUS
      <3>2. leaseOf[a] = [mac |-> pool.mac[a], left |-> 0]
        BY <1>2, <3>1
      <3>. QED  BY <3>1, <3>2
    <2>2. gone \subseteq Leases!Lapsed
      BY <2>1 DEF Leases!Lapsed
    <2>. QED  BY <2>2
  <1>4. ASSUME NEW a \in Addrs
        PROVE  Leases!Without(gone)[a] = LeaseIn(Reclaimed, a)
    <2>1. Leases!Without(gone)[a] = IF a \in gone THEN [mac |-> None, left |-> 0]
                                    ELSE leaseOf[a]
      BY DEF Leases!Without, Leases!NoLease
    <2>2. (\E m \in Expired : pool.ip[m] = a) <=> a \in gone
      BY <1>1 DEF Expired, OneTable, IsTable
    <2>3. Reclaimed.mac[a] = IF a \in gone THEN None ELSE pool.mac[a]
      BY <2>2 DEF Reclaimed
    <2>4. CASE a \in gone
      BY <2>1, <2>3, <2>4 DEF LeaseIn
    <2>5. CASE a \notin gone /\ pool.mac[a] = None
      BY <1>2, <2>1, <2>3, <2>5 DEF LeaseIn
    <2>6. CASE a \notin gone /\ pool.mac[a] # None
      <3>1. pool.mac[a] \in Macs /\ pool.left[pool.mac[a]] # 0
        BY <1>1, <2>6
      <3>2. Reclaimed.left[pool.mac[a]] = pool.left[pool.mac[a]]
        BY <3>1, ReclaimedFacts
      <3>. QED  BY <1>2, <2>1, <2>3, <2>6, <3>2 DEF LeaseIn
    <2>. QED  BY <2>4, <2>5, <2>6
  <1>. QED  BY <1>3, <1>4

\* A client is served out of the table base, in which only lapsed leases are
\* missing, when its entry alone changes.
LEMMA ServedFrom ==
    ASSUME pool' \in Pool, NEW m \in Macs, NEW a \in Addrs,
           NEW ticks \in {OfferTimeout, LeaseTime},
           NEW gone \in SUBSET Leases!Lapsed,
           pool'.mac[a] = m, pool'.left[m] = ticks,
           \A b \in Addrs \ {a} : LeaseIn(pool', b) = Leases!Without(gone)[b],
           \/ Leases!Without(gone)[a].mac = m
           \/ /\ Leases!Without(gone)[a] = Leases!NoLease
              /\ \A b \in Addrs : Leases!Without(gone)[b].mac # m
    PROVE  Leases!Serve(m)
  <1>. DEFINE base == Leases!Without(gone)
  <1>1. base = [b \in Addrs |-> base[b]]
    BY DEF Leases!Without
  <1>2. leaseOf' = [b \in Addrs |-> LeaseIn(pool', b)]
    BY DEF leaseOf, LeaseIn
  <1>3. LeaseIn(pool', a) = [mac |-> m, left |-> ticks]
    BY PoolAssumption DEF LeaseIn
  <1>4. leaseOf' = [base EXCEPT ![a] = [mac |-> m, left |-> ticks]]
    <2>1. \A b \in Addrs \ {a} : LeaseIn(pool', b) = base[b]
      OBVIOUS
    <2>. HIDE DEF base
    <2>. QED  BY <1>1, <1>2, <1>3, <2>1
  <1>. QED  BY <1>4 DEF Leases!Serve

LEMMA AllocateServes ==
    ASSUME TypeOK, OneTable, NEW m \in Macs, NEW ticks \in {OfferTimeout, LeaseTime},
           Allocate(m, ticks)
    PROVE  Leases!Serve(m) \/ Leases!Refuse
  <1>1. PICK gone \in SUBSET Leases!Lapsed :
           /\ \A a \in Addrs : Leases!Without(gone)[a] = LeaseIn(Reclaimed, a)
           /\ gone = {a \in Addrs : pool.mac[a] # None /\ pool.left[pool.mac[a]] = 0}
    BY ReclaimedLeases DEF TypeOK
  <1>2. PICK p \in Pool : p = Reclaimed
    BY ReclaimedFacts DEF TypeOK
  <1>3. IsTable(p)
    BY <1>2, ReclaimedFacts DEF TypeOK
  <1>4. /\ p.ip \in [Macs -> Addrs \cup {None}]
        /\ p.mac \in [Addrs -> Macs \cup {None}]
        /\ p.left \in [Macs -> Nat \cup {None}]
        /\ None \notin Addrs /\ None \notin Macs
    BY PoolAssumption DEF Pool, Addrs
  <1>5. pool' \in Pool
    <2>1. ticks \in Nat
      BY PoolAssumption
    <2>. QED  BY <2>1, AllocateFacts DEF TypeOK, LeftFor
  <1>6. \A b \in Addrs : LeaseIn(p, b).mac = p.mac[b]
    BY DEF LeaseIn
  <1>7. CASE p.ip[m] # None /\ pool' = Extended(p, m, ticks)
    <2>. DEFINE a == p.ip[m]
    <2>1. a \in Addrs /\ p.mac[a] = m
      BY <1>3, <1>4, <1>7 DEF IsTable
    <2>2. pool'.mac = p.mac /\ pool'.left = [p.left EXCEPT ![m] = ticks]
      BY <1>7 DEF Extended, Pool
    <2>3. \A b \in Addrs \ {a} : p.mac[b] # m
      BY <1>3, <1>4 DEF IsTable
    <2>4. \A b \in Addrs \ {a} : LeaseIn(pool', b) = LeaseIn(p, b)
      BY <1>4, <2>2, <2>3 DEF LeaseIn
    <2>5. pool'.left[m] = ticks
      BY <1>4, <2>2
    <2>6. Leases!Without(gone)[a].mac = m
      BY <1>1, <1>2, <1>6, <2>1
    <2>. QED  BY <1>1, <1>2, <1>5, <2>1, <2>2, <2>4, <2>5, <2>6, ServedFrom
  <1>8. CASE p.ip[m] = None /\ \E a \in FreeIn(p) : pool' = Entered(p, m, a, ticks)
    <2>1. PICK a \in FreeIn(p) : pool' = Entered(p, m, a, ticks)
      BY <1>8
    <2>2. a \in Addrs /\ p.mac[a] = None
      BY DEF FreeIn
    <2>3. pool'.mac = [p.mac EXCEPT ![a] = m] /\ pool'.left = [p.left EXCEPT ![m] = ticks]
      BY <2>1 DEF Entered
    <2>4. \A b \in Addrs : p.mac[b] # m
      BY <1>3, <1>4, <1>8 DEF IsTable
    <2>5. \A b \in Addrs \ {a} : LeaseIn(pool', b) = LeaseIn(p, b)
      BY <1>4, <2>2, <2>3, <2>4 DEF LeaseIn
    <2>6. pool'.mac[a] = m /\ pool'.left[m] = ticks
      BY <1>4, <2>2, <2>3
    <2>7. Leases!Without(gone)[a] = Leases!NoLease
      BY <1>1, <1>2, <2>2 DEF LeaseIn, Leases!NoLease
    <2>8. \A b \in Addrs : Leases!Without(gone)[b].mac # m
      BY <1>1, <1>2, <1>6, <2>4
    <2>. QED  BY <1>1, <1>2, <1>5, <2>2, <2>5, <2>6, <2>7, <2>8, ServedFrom
  <1>9. CASE p.ip[m] = None /\ FreeIn(p) = {} /\ pool' = p
    <2>1. \A b \in Addrs : p.mac[b] # None
      BY <1>9 DEF FreeIn
    <2>2. \A b \in Addrs : Leases!Without(Leases!Lapsed)[b] = Leases!Without(gone)[b]
      <3>1. ASSUME NEW b \in Addrs, b \in Leases!Lapsed  PROVE  b \in gone
        <4>1. leaseOf[b] = LeaseIn(pool, b) /\ leaseOf[b].left = 0
          BY <3>1 DEF Leases!Lapsed, leaseOf
        <4>2. CASE pool.mac[b] = None
          <5>1. p.mac[b] = None
            BY <1>2, <4>2 DEF Reclaimed
          <5>. QED  BY <2>1, <5>1
        <4>3. CASE pool.mac[b] # None
          BY <1>1, <4>1, <4>3 DEF LeaseIn
        <4>. QED  BY <4>2, <4>3
      <3>2. gone \subseteq Leases!Lapsed
        BY <1>1
      <3>. QED  BY <3>1, <3>2 DEF Leases!Without
    <2>3. \A b \in Addrs : Leases!Without(Leases!Lapsed)[b] = LeaseIn(p, b)
      BY <1>1, <1>2, <2>2
    <2>4. \A b \in Addrs : LeaseIn(p, b) # Leases!NoLease
      BY <1>4, <1>6, <2>1 DEF Leases!NoLease
    <2>5. leaseOf' = [b \in Addrs |-> LeaseIn(p, b)]
      BY <1>9 DEF leaseOf, LeaseIn
    <2>6. Leases!Without(Leases!Lapsed) =
             [b \in Addrs |-> Leases!Without(Leases!Lapsed)[b]]
      BY DEF Leases!Without
    <2>7. leaseOf' = Leases!Without(Leases!Lapsed)
      BY <2>3, <2>5, <2>6
    <2>. QED  BY <2>3, <2>4, <2>7 DEF Leases!Refuse
  <1>. QED  BY <1>2, <1>7, <1>8, <1>9 DEF Allocate

LEMMA CommitServes ==
    ASSUME TypeOK, OneTable, NEW m \in Macs, Commit(m)
    PROVE  Leases!Serve(m) \/ Leases!Refuse
  <1>1. CASE pool.ip[m] # None /\ pool' = Extended(pool, m, LeaseTime)
    <2>. DEFINE a == pool.ip[m]
    <2>1. /\ pool.ip \in [Macs -> Addrs \cup {None}]
          /\ pool.mac \in [Addrs -> Macs \cup {None}]
          /\ pool.left \in [Macs -> Nat \cup {None}]
          /\ None \notin Addrs /\ None \notin Macs /\ LeaseTime \in Nat
      BY PoolAssumption DEF TypeOK, Pool, Addrs
    <2>2. a \in Addrs /\ pool.mac[a] = m
      BY <1>1, <2>1 DEF OneTable, IsTable
    <2>3. pool' \in Pool
      BY <1>1, CommitFacts DEF TypeOK, LeftFor
    <2>4. pool'.mac = pool.mac /\ pool'.left = [pool.left EXCEPT ![m] = LeaseTime]
      BY <1>1 DEF Extended, TypeOK, Pool
    <2>5. \A b \in Addrs \ {a} : pool.mac[b] # m
      BY <2>1 DEF OneTable, IsTable
    <2>6. \A b \in Addrs \ {a} : LeaseIn(pool', b) = LeaseIn(pool, b)
      BY <2>1, <2>4, <2>5 DEF LeaseIn
    <2>7. Leases!Without({}) = leaseOf
      BY DEF Leases!Without, leaseOf
    <2>8. \A b \in Addrs : Leases!Without({})[b] = LeaseIn(pool, b)
      BY <2>7 DEF leaseOf
    <2>9. Leases!Without({})[a].mac = m
      <3>1. LeaseIn(pool, a).mac = m
        BY <2>1, <2>2 DEF LeaseIn
      <3>. QED  BY <2>2, <2>8, <3>1
    <2>10. pool'.mac[a] = m /\ pool'.left[m] = LeaseTime
      BY <2>1, <2>2, <2>4
    <2>11. {} \in SUBSET Leases!Lapsed
      OBVIOUS
    <2>. QED  BY <2>2, <2>3, <2>6, <2>8, <2>9, <2>10, <2>11, ServedFrom
  <1>2. CASE Allocate(m, LeaseTime)
    BY <1>2, AllocateServes
  <1>. QED  BY <1>1, <1>2 DEF Commit

LEMMA TickRunsDown ==
    ASSUME TypeOK, OneTable, Tick
    PROVE  Leases!Tick
  <1>1. /\ pool.mac \in [Addrs -> Macs \cup {None}]
        /\ pool.left \in [Macs -> Nat \cup {None}]
        /\ None \notin Nat /\ None \notin Macs
    BY PoolAssumption DEF TypeOK, Pool
  <1>2. pool'.mac = pool.mac /\ \A m \in Macs : pool'.left[m] = Before(pool.left[m])
    BY TickPool DEF TypeOK
  <1>3. ASSUME NEW a \in Addrs
        PROVE  LeaseIn(pool', a) =
                 [LeaseIn(pool, a) EXCEPT !.left = IF @ = 0 THEN 0 ELSE @ - 1]
    <2>1. CASE pool.mac[a] = None
      BY <1>2, <2>1 DEF LeaseIn
    <2>2. CASE pool.mac[a] # None
      <3>. DEFINE m == pool.mac[a]
      <3>0. m \in Macs /\ pool.ip[m] = a
        BY <1>1, <2>2 DEF OneTable, IsTable
      <3>1. pool.mac[a] \in Macs /\ pool.left[pool.mac[a]] \in Nat
        <4>1. pool.left[m] # None
          BY <3>0, PoolAssumption DEF OneTable, IsTable, Addrs
        <4>. QED  BY <1>1, <3>0, <4>1
      <3>2. pool'.left[pool.mac[a]] =
               IF pool.left[pool.mac[a]] = 0 THEN 0 ELSE pool.left[pool.mac[a]] - 1
        BY <1>1, <1>2, <3>1 DEF Before
      <3>. QED  BY <1>2, <2>2, <3>1, <3>2 DEF LeaseIn
    <2>. QED  BY <2>1, <2>2
  <1>. QED  BY <1>3 DEF Leases!Tick, leaseOf

LEMMA NextLeased ==
    ASSUME TypeOK, OneTable, [Next]_vars
    PROVE  [Leases!Next]_leaseOf
  <1>1. CASE OnDiscover
    <2>1. PICK d \in Discovers : Offer(d.mac)
      BY <1>1 DEF OnDiscover
    <2>2. d.mac \in Macs
      BY DEF Discovers
    <2>. QED  BY <2>1, <2>2, AllocateServes DEF Offer, Leases!Next
  <1>2. CASE OnRequest
    <2>1. PICK d \in Requests : Commit(d.mac)
      BY <1>2 DEF OnRequest
    <2>2. d.mac \in Macs
      BY DEF Requests
    <2>. QED  BY <2>1, <2>2, CommitServes DEF Leases!Next
  <1>3. CASE Restart
    <2>1. leaseOf' = [a \in Addrs |-> Leases!NoLease]
      BY <1>3 DEF Restart, leaseOf, LeaseIn, EmptyPool, Leases!NoLease
    <2>. QED  BY <2>1 DEF Leases!Forget, Leases!Next
  <1>4. CASE Tick
    BY <1>4, TickRunsDown DEF Leases!Next
  <1>5. CASE (\E m \in Macs : Client(m)) \/ UNCHANGED vars
    <2>1. pool' = pool
      BY <1>5 DEF Client, SendDiscover, SendRequest, ChooseOther, Renew, ReceiveAck,
                  Leave, vars
    <2>. QED  BY <2>1 DEF leaseOf
  <1>. QED  BY <1>1, <1>2, <1>3, <1>4, <1>5 DEF Next

\* LeasePool's dictionaries and lazy timers promise what AddressLeases does: an
\* address changes hands only when its time is over or all are forgotten, and a
\* client that is refused takes no address from anybody.
THEOREM PoolImplementsLeases == Spec => ImplementsLeases
  <1>1. TypeOK /\ OneTable /\ [Next]_vars => [Leases!Next]_leaseOf
    BY NextLeased
  <1>. QED  BY <1>1, InitLeased, TableCorrect, PTL DEF Spec, ImplementsLeases, Leases!Spec
=============================================================================

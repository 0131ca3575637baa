---------------------------- MODULE AddressLeases ----------------------------
(***************************************************************************)
(* What a pool of DHCP addresses promises: a client that asks is given the *)
(* address it has, or one that nobody has; an address changes hands only   *)
(* after the time it was promised for has run out; a client that finds all *)
(* addresses promised changes none of them.  The table is kept in memory,  *)
(* and lost as a whole.  DhcpStandalone's three dictionaries implement it. *)
(***************************************************************************)
EXTENDS Naturals

CONSTANTS Macs, Addrs, Periods, None

VARIABLE lease      \* who has each address, and for how much longer

NoLease == [mac |-> None, left |-> 0]

Lapsed == {a \in Addrs : lease[a].left = 0}

\* The table without the leases of some addresses whose time has run out.
Without(gone) == [a \in Addrs |-> IF a \in gone THEN NoLease ELSE lease[a]]

LeasesTypeOK ==
    lease \in [Addrs -> [mac : Macs, left : 0 .. 0 \cup UNION {0 .. p : p \in Periods}]
                        \cup {NoLease}]

Init == lease = [a \in Addrs |-> NoLease]

\* The one address of m, or a new one if m has none.
Serve(m) ==
    \E gone \in SUBSET Lapsed, a \in Addrs, p \in Periods :
        /\ \/ Without(gone)[a].mac = m
           \/ Without(gone)[a] = NoLease /\ \A b \in Addrs : Without(gone)[b].mac # m
        /\ lease' = [Without(gone) EXCEPT ![a] = [mac |-> m, left |-> p]]

Refuse ==
    /\ \A a \in Addrs : Without(Lapsed)[a] # NoLease
    /\ lease' = Without(Lapsed)

Tick == lease' = [a \in Addrs |-> [lease[a] EXCEPT !.left = IF @ = 0 THEN 0 ELSE @ - 1]]

Forget == lease' = [a \in Addrs |-> NoLease]

Next == (\E m \in Macs : Serve(m)) \/ Refuse \/ Tick \/ Forget

Spec == Init /\ [][Next]_lease
=============================================================================

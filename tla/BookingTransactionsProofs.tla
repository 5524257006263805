---------------------- MODULE BookingTransactionsProofs ----------------------
(***************************************************************************)
(* Proofs about BookingTransactions, for any number of requests and expiry *)
(* jobs on any seats: that their row locks never wait in a circle, that    *)
(* what they commit is one operation of SeatInventory unless a cancel      *)
(* comes late, and that nothing but a late cancel throws.                  *)
(***************************************************************************)
EXTENDS BookingTransactions, FiniteSetTheorems, NaturalsInduction, TLAPS

-------------------------------------------------------------------------------
(* Least and greatest places in the lock order *)

LEMMA NatHasLeast ==
  ASSUME NEW S, S \subseteq Nat, S # {}
  PROVE  \E n \in S : \A m \in S : n <= m
<1>1. \E n \in S : \A m \in S : ~(<<m, n>> \in OpToRel(<, Nat))
  BY NatLessThanWellFounded, WFMin
<1>2. PICK n \in S : \A m \in S : ~(<<m, n>> \in OpToRel(<, Nat))
  BY <1>1
<1>3. \A m \in S : ~(m < n)
  BY <1>2 DEF OpToRel
<1> QED
  BY <1>3

LEMMA LowestIsLeast ==
  ASSUME NEW S, S \subseteq Seats, S # {}
  PROVE  Lowest(S) \in S /\ \A s \in S : Lowest(S) <= s
BY NatHasLeast, SeatsAssumption DEF Lowest

\* A finite set of seats has a last one: the one with the fewest seats behind it.
LEMMA SeatsHaveGreatest ==
  ASSUME NEW S, S \subseteq Seats, S # {}
  PROVE  \E s \in S : \A u \in S : ~(s < u)
<1> DEFINE Behind(s) == {u \in S : s < u}
<1>1. S \subseteq Nat /\ IsFiniteSet(S)
  BY SeatsAssumption, TransactionsAssumption, FS_Subset
<1>2. \A s \in S : IsFiniteSet(Behind(s)) /\ Cardinality(Behind(s)) \in Nat
  BY <1>1, FS_Subset, FS_CardinalityType
<1>3. PICK s \in S : \A u \in S : Cardinality(Behind(s)) <= Cardinality(Behind(u))
  <2> DEFINE C == {Cardinality(Behind(s)) : s \in S}
  <2>1. C \subseteq Nat /\ C # {}
    BY <1>2
  <2> HIDE DEF C
  <2>2. PICK n \in C : \A m \in C : n <= m
    BY <2>1, NatHasLeast
  <2> QED
    BY <2>2 DEF C
<1>4. ASSUME NEW u \in S, s < u PROVE FALSE
  <2>1. Behind(u) \subseteq Behind(s) /\ u \in Behind(s) /\ u \notin Behind(u)
    <3>1. \A v \in S : u < v => s < v
      BY <1>1, <1>4
    <3>2. ~(u < u)
      BY <1>1, <1>4
    <3> QED
      BY <1>4, <3>1, <3>2
  <2>2. Cardinality(Behind(u)) < Cardinality(Behind(s))
    BY <1>2, <2>1, FS_Subset
  <2> QED
    BY <1>2, <1>3, <2>2
<1> QED
  BY <1>4

-------------------------------------------------------------------------------
(* Who can hold what *)

LockTypes ==
  /\ bookingLock \in [Bookings -> Txs \cup {Nobody}]
  /\ seatLock \in [Seats -> Txs \cup {Nobody}]
  /\ DOMAIN pc = Txs /\ DOMAIN req = Txs
  /\ rows \in [Txs -> SUBSET Seats]
  /\ paxSeat \in [Bookings -> [Positions -> Seats \cup {NoSeat}]]

\* A transaction that is under way knows its arguments.
RequestInv(p) ==
  pc[p] \notin {"idle", "done"} =>
    /\ req[p].kind \in {"hold", "auto", "confirm", "cancel", "change"} => req[p].b \in Bookings
    /\ req[p].kind = "hold" => req[p].party \in Inventory!Parties
    /\ req[p].kind = "change" => req[p].i \in Positions /\ req[p].target \in Seats
    /\ pc[p] \in {"prelock", "cancel-scan", "classify"} => req[p].kind = "cancel"
    /\ pc[p] = "lock-booking" => req[p].kind \in {"confirm", "cancel"}

\* Seats are locked last and in order; before them a transaction has at most the lock of the
\* booking it cancels.
LockInv(p) ==
  /\ \A s \in Seats : seatLock[s] = p =>
       /\ pc[p] = "lock-seats"
       /\ req[p].kind # "auto" => \A u \in rows[p] : s < u
  /\ \A b \in Bookings : bookingLock[b] = p =>
       \/ pc[p] = "lock-seats"
       \/ /\ pc[p] \in {"cancel-scan", "lock-booking", "classify"}
          /\ req[p].kind = "cancel" /\ req[p].b = b

TxInv == LockTypes /\ \A p \in Txs : RequestInv(p) /\ LockInv(p)

LEMMA InitTxInv == Init => TxInv
<1> SUFFICES ASSUME Init PROVE TxInv
  OBVIOUS
<1>1. LockTypes
  <2>1. NoParty \in [Positions -> Seats \cup {NoSeat}]
    BY DEF NoParty
  <2> QED
    BY <2>1 DEF Init, LockTypes, Inventory!Init, Inventory!NoParty, Inventory!Positions, NoParty, Positions
<1>2. ASSUME NEW p \in Txs PROVE RequestInv(p) /\ LockInv(p)
  BY TransactionsAssumption DEF Init, RequestInv, LockInv
<1> QED
  BY <1>1, <1>2 DEF TxInv

LEMMA PartiesAreSeats ==
  Inventory!Parties \subseteq [Positions -> Seats \cup {NoSeat}]
BY DEF Inventory!Parties, Inventory!Positions, Positions

\* The other transactions keep their places while p takes a step.
LEMMA OthersStay ==
  ASSUME TxInv, NEW p, NEW q \in Txs, p # q,
         pc'[q] = pc[q], req'[q] = req[q], rows'[q] = rows[q],
         \A s \in Seats : seatLock'[s] \in {seatLock[s], p, Nobody},
         \A b \in Bookings : bookingLock'[b] \in {bookingLock[b], p, Nobody}
  PROVE  RequestInv(q)' /\ LockInv(q)'
BY TransactionsAssumption DEF TxInv, RequestInv, LockInv

LEMMA TxStep == TxInv /\ [Next]_vars => TxInv'
<1> SUFFICES ASSUME TxInv, [Next]_vars PROVE TxInv'
  OBVIOUS
<1>1. LockTypes /\ Nobody \notin Txs /\ \A p \in Txs : RequestInv(p) /\ LockInv(p)
  BY TransactionsAssumption DEF TxInv
\* What p does to its own place is left to show.
<1>2. ASSUME NEW p \in Txs, LockTypes', RequestInv(p)', LockInv(p)',
             \A q \in Txs \ {p} : pc'[q] = pc[q] /\ req'[q] = req[q] /\ rows'[q] = rows[q],
             \A s \in Seats : seatLock'[s] \in {seatLock[s], p, Nobody},
             \A b \in Bookings : bookingLock'[b] \in {bookingLock[b], p, Nobody}
      PROVE  TxInv'
  BY <1>2, OthersStay DEF TxInv
<1> USE DEF tables, flightVars, locks, local
<1>3. ASSUME NEW p \in Txs, NEW next \in {"scan", "idle", "done"}, NEW result, End(p, next, result),
             next = "scan" => req[p].kind = "expire",
             paxSeat' \in [Bookings -> [Positions -> Seats \cup {NoSeat}]]
      PROVE  TxInv'
  <2>1. LockTypes'
    BY <1>1, <1>3 DEF LockTypes, End, LetGo
  <2>2. RequestInv(p)' /\ LockInv(p)'
    BY <1>1, <1>3 DEF LockTypes, End, LetGo, RequestInv, LockInv
  <2>3. /\ \A q \in Txs \ {p} : pc'[q] = pc[q] /\ req'[q] = req[q] /\ rows'[q] = rows[q]
        /\ \A s \in Seats : seatLock'[s] \in {seatLock[s], p, Nobody}
        /\ \A b \in Bookings : bookingLock'[b] \in {bookingLock[b], p, Nobody}
    BY <1>1, <1>3 DEF LockTypes, End, LetGo
  <2> QED
    BY <1>2, <2>1, <2>2, <2>3
<1>4. ASSUME NEW p \in Txs, Refused(p) \/ Threw(p) \/ Abort(p) PROVE TxInv'
  <2>1. /\ \E next \in {"idle", "done"}, result \in {"refused", "threw", "aborted"} : End(p, next, result)
        /\ UNCHANGED paxSeat
    BY <1>4 DEF Refused, Threw, Abort
  <2> QED
    BY <1>1, <1>3, <2>1 DEF LockTypes
<1>5. ASSUME NEW p \in Requests, Begin(p) PROVE TxInv'
  <2>1. /\ p \in Txs /\ pc[p] = "idle" /\ pc' = [pc EXCEPT ![p] = "scan"]
        /\ UNCHANGED <<bookingLock, seatLock, rows, paxSeat>>
    BY <1>5 DEF Begin, Txs
  <2>2. PICK kind \in RequestKinds[p] : \E r \in RequestsOf(kind) : req' = [req EXCEPT ![p] = r]
    BY <1>5 DEF Begin
  <2>3. RequestKinds[p] \subseteq {"hold", "auto", "confirm", "cancel", "change"}
    BY <1>5, TransactionsAssumption
  <2>4. PICK r \in RequestsOf(kind) : req' = [req EXCEPT ![p] = r]
    BY <2>2
  <2>5. /\ r.kind = kind /\ r.b \in Bookings
        /\ kind = "hold" => r.party \in Inventory!Parties
        /\ kind = "change" => r.i \in Positions /\ r.target \in Seats
    BY <2>2, <2>3 DEF RequestsOf
  <2>6. RequestInv(p)' /\ LockInv(p)'
    BY <1>1, <2>1, <2>3, <2>4, <2>5 DEF LockTypes, RequestInv, LockInv
  <2> QED
    BY <1>1, <1>2, <2>1, <2>4, <2>6 DEF LockTypes
<1>6. ASSUME NEW p \in Sweepers, StartSweep(p) PROVE TxInv'
  <2>1. p \in Txs /\ RequestInv(p)' /\ LockInv(p)'
    BY <1>1, <1>6 DEF StartSweep, Txs, LockTypes, RequestInv, LockInv
  <2> QED
    BY <1>1, <1>2, <1>6, <2>1 DEF StartSweep, LockTypes
<1>7. ASSUME NEW p \in Txs, LockSeat(p) PROVE TxInv'
  <2>1. NextRow(p) \in rows[p] /\ rows[p] \subseteq Seats /\ \A s \in rows[p] : NextRow(p) <= s
    BY <1>1, <1>7, LowestIsLeast DEF LockSeat, NextRow, LockTypes
  <2>2. LockInv(p)'
    BY <1>1, <1>7, <2>1, SeatsAssumption DEF LockSeat, At, LockTypes, LockInv
  <2>3. RequestInv(p)'
    BY <1>1, <1>7 DEF LockSeat, RequestInv
  <2> QED
    BY <1>1, <1>2, <1>7, <2>1, <2>2, <2>3 DEF LockSeat, LockTypes
<1>8. ASSUME NEW p \in Txs, LockOrSkipSeat(p) PROVE TxInv'
  <2>1. LockInv(p)'
    BY <1>1, <1>8 DEF LockOrSkipSeat, At, LockTypes, LockInv
  <2>2. RequestInv(p)'
    BY <1>1, <1>8 DEF LockOrSkipSeat, RequestInv
  <2> QED
    BY <1>1, <1>2, <1>8, <2>1, <2>2 DEF LockOrSkipSeat, LockTypes
\* A statement that only looks at a snapshot, or takes the lock of one booking.
<1>9. ASSUME NEW p \in Txs, NEW label, Goto(p, label), UNCHANGED <<seatLock, req, paxSeat>>,
             \A q \in Txs \ {p} : rows'[q] = rows[q], rows' \in [Txs -> SUBSET Seats],
             bookingLock' \in [Bookings -> Txs \cup {Nobody}],
             \A b \in Bookings : bookingLock'[b] \in {bookingLock[b], p},
             pc[p] \notin {"idle", "done", "lock-seats"}, LockInv(p)', RequestInv(p)'
      PROVE  TxInv'
  BY <1>1, <1>2, <1>9 DEF Goto, LockTypes
<1>10. ASSUME NEW p \in Txs, pc[p] # "lock-seats" PROVE \A s \in Seats : seatLock[s] # p
  BY <1>1, <1>10 DEF LockInv
<1>11. ASSUME NEW p \in Txs, HoldScan(p) PROVE TxInv'
  <2>1. /\ pc[p] = "scan" /\ rows' = [rows EXCEPT ![p] = rows'[p]] /\ rows'[p] \subseteq Seats
        /\ Goto(p, "lock-seats") /\ UNCHANGED <<seatLock, bookingLock, req, paxSeat>>
        /\ req[p].kind \in {"hold", "auto"}
    <3> DEFINE shown == IF req[p].kind = "hold"
                        THEN SeatsOf(req[p].party)
                        ELSE {s \in Seats : ClassOf[s] = req[p].class /\ seatStatus[s] = "AVAILABLE"}
               found == {s \in shown :
                           /\ OnSaleSql(flightStatus[req[p].f], DepartureAt[req[p].f], req[p].t)
                           /\ FlightOf[s] = req[p].f}
    <3>1. rows' = [rows EXCEPT ![p] = found] /\ req[p].kind \in {"hold", "auto"} /\ pc[p] = "scan"
      BY <1>11 DEF HoldScan, At
    <3>2. found \subseteq Seats
      <4>1. CASE req[p].kind = "hold"
        BY <1>1, <3>1, <4>1, PartiesAreSeats DEF RequestInv, SeatsOf
      <4>2. CASE req[p].kind # "hold"
        BY <4>2
      <4> QED
        BY <4>1, <4>2
    <3> HIDE DEF found
    <3> QED
      BY <1>1, <1>11, <3>1, <3>2 DEF HoldScan, At, LockTypes
  <2>2. LockInv(p)' /\ RequestInv(p)'
    BY <1>1, <1>10, <2>1 DEF Goto, LockTypes, LockInv, RequestInv
  <2> QED
    BY <1>1, <1>9, <2>1, <2>2 DEF LockTypes
<1>12. ASSUME NEW p \in Txs, HoldChosen(p) PROVE TxInv'
  <2>1. CASE Refused(p)
    BY <1>4, <2>1
  <2>2. CASE Inventory!StoreHold(req[p].b, req[p].f, req[p].party, req[p].t) /\ Committed(p)
    <3>1. req[p].party \in [Positions -> Seats \cup {NoSeat}]
      <4>1. req[p].party \in Inventory!Parties
        BY <1>1, <1>12 DEF HoldChosen, At, RequestInv
      <4> QED
        BY <4>1, PartiesAreSeats
    <3> QED
      BY <1>1, <1>3, <2>2, <3>1 DEF Committed, Inventory!StoreHold, LockTypes
  <2> QED
    BY <1>12, <2>1, <2>2 DEF HoldChosen
<1>13. ASSUME NEW p \in Txs, HoldAuto(p) PROVE TxInv'
  <2>1. CASE Refused(p)
    BY <1>4, <2>1
  <2>2. CASE /\ \E party \in Inventory!Parties : Inventory!StoreHold(req[p].b, req[p].f, party, req[p].t)
             /\ Committed(p)
    <3>1. PICK party \in Inventory!Parties : Inventory!StoreHold(req[p].b, req[p].f, party, req[p].t)
      BY <2>2
    <3>2. party \in [Positions -> Seats \cup {NoSeat}]
      BY <3>1, PartiesAreSeats
    <3> QED
      BY <1>1, <1>3, <2>2, <3>1, <3>2 DEF Committed, Inventory!StoreHold, LockTypes
  <2> QED
    BY <1>13, <2>1, <2>2 DEF HoldAuto
<1>14. ASSUME NEW p \in Txs, ConfirmScan(p) PROVE TxInv'
  <2>1. CASE Refused(p)
    BY <1>4, <2>1
  <2>2. CASE ~Refused(p)
    <3>1. /\ pc[p] = "scan" /\ req[p].kind = "confirm" /\ Inventory!HeldBy(req[p].b) \subseteq Seats
          /\ rows' = [rows EXCEPT ![p] = Inventory!HeldBy(req[p].b)]
          /\ Goto(p, "lock-booking") /\ UNCHANGED <<seatLock, bookingLock, req, paxSeat>>
      BY <1>14, <2>2 DEF ConfirmScan, At, Inventory!HeldBy
    <3>2. LockInv(p)' /\ RequestInv(p)'
      BY <1>1, <1>10, <3>1 DEF Goto, LockTypes, LockInv, RequestInv
    <3> QED
      BY <1>1, <1>9, <3>1, <3>2 DEF LockTypes
  <2> QED
    BY <2>1, <2>2
<1>15. ASSUME NEW p \in Txs, ConfirmLock(p) PROVE TxInv'
  <2>1. CASE Refused(p)
    BY <1>4, <2>1
  <2>2. CASE ~Refused(p)
    <3>1. /\ pc[p] = "lock-booking" /\ req[p].kind = "confirm"
          /\ bookingLock' = [bookingLock EXCEPT ![req[p].b] = p]
          /\ Goto(p, "lock-seats") /\ UNCHANGED <<seatLock, req, rows, paxSeat>>
      BY <1>15, <2>2 DEF ConfirmLock, At
    <3>2. LockInv(p)' /\ RequestInv(p)'
      BY <1>1, <1>10, <3>1 DEF Goto, LockTypes, LockInv, RequestInv
    <3> QED
      BY <1>1, <1>9, <3>1, <3>2 DEF LockTypes
  <2> QED
    BY <2>1, <2>2
<1>16. ASSUME NEW p \in Txs, ConfirmCommit(p) PROVE TxInv'
  BY <1>1, <1>3, <1>16 DEF ConfirmCommit, Committed, LockTypes
<1>17. ASSUME NEW p \in Txs, CancelPrelockScan(p) PROVE TxInv'
  <2>1. PICK label \in {"prelock", "cancel-scan"} : Goto(p, label)
    BY <1>17 DEF CancelPrelockScan
  <2>2. /\ pc[p] = "scan" /\ req[p].kind = "cancel"
        /\ UNCHANGED <<seatLock, bookingLock, req, rows, paxSeat>>
    BY <1>17 DEF CancelPrelockScan, At
  <2>3. LockInv(p)' /\ RequestInv(p)'
    BY <1>1, <1>10, <2>1, <2>2 DEF Goto, LockTypes, LockInv, RequestInv
  <2> QED
    BY <1>1, <1>9, <2>1, <2>2, <2>3 DEF LockTypes
<1>18. ASSUME NEW p \in Txs, CancelPrelock(p) PROVE TxInv'
  <2>1. /\ pc[p] = "prelock" /\ req[p].kind = "cancel" /\ Goto(p, "cancel-scan")
        /\ bookingLock' = [bookingLock EXCEPT ![req[p].b] = p]
        /\ UNCHANGED <<seatLock, req, rows, paxSeat>>
    BY <1>18 DEF CancelPrelock, At
  <2>2. LockInv(p)' /\ RequestInv(p)'
    BY <1>1, <1>10, <2>1 DEF Goto, LockTypes, LockInv, RequestInv
  <2> QED
    BY <1>1, <1>9, <2>1, <2>2 DEF LockTypes
<1>19. ASSUME NEW p \in Txs, CancelScan(p) PROVE TxInv'
  <2>1. PICK label \in {"lock-booking", "classify"} : Goto(p, label)
    BY <1>19 DEF CancelScan
  <2>2. /\ pc[p] = "cancel-scan" /\ req[p].kind = "cancel" /\ UNCHANGED <<seatLock, bookingLock, req, paxSeat>>
        /\ \E found \in SUBSET Seats : rows' = [rows EXCEPT ![p] = found]
    <3>1. Inventory!HeldBy(req[p].b) \subseteq Seats
      BY DEF Inventory!HeldBy
    <3> QED
      BY <1>1, <1>19, <3>1 DEF CancelScan, At, LockTypes
  <2>3. LockInv(p)' /\ RequestInv(p)'
    BY <1>1, <1>10, <2>1, <2>2 DEF Goto, LockTypes, LockInv, RequestInv
  <2> QED
    BY <1>1, <1>9, <2>1, <2>2, <2>3 DEF LockTypes
<1>20. ASSUME NEW p \in Txs, CancelLock(p) PROVE TxInv'
  <2>1. PICK label \in {"lock-seats", "classify"} : Goto(p, label)
    BY <1>20 DEF CancelLock
  <2>2. /\ pc[p] = "lock-booking" /\ req[p].kind = "cancel"
        /\ bookingLock' = [bookingLock EXCEPT ![req[p].b] = p]
        /\ UNCHANGED <<seatLock, req, rows, paxSeat>>
    BY <1>20 DEF CancelLock, At
  <2>3. LockInv(p)' /\ RequestInv(p)'
    BY <1>1, <1>10, <2>1, <2>2 DEF Goto, LockTypes, LockInv, RequestInv
  <2> QED
    BY <1>1, <1>9, <2>1, <2>2, <2>3 DEF LockTypes
<1>21. ASSUME NEW p \in Txs, CancelCommit(p) PROVE TxInv'
  BY <1>1, <1>3, <1>21 DEF CancelCommit, EndBookings, Committed, LockTypes
<1>22. ASSUME NEW p \in Txs, CancelClassify(p) PROVE TxInv'
  BY <1>4, <1>22 DEF CancelClassify
<1>23. ASSUME NEW p \in Txs, ExpireScan(p) PROVE TxInv'
  <2>1. PICK due : /\ bookingLock' = [b \in Bookings |-> IF b \in due THEN p ELSE bookingLock[b]]
                   /\ rows' = [rows EXCEPT ![p] = {s \in Seats : seatBooking[s] \in due}]
    BY <1>23 DEF ExpireScan
  <2>2. /\ pc[p] = "scan" /\ req[p].kind = "expire" /\ Goto(p, "lock-seats")
        /\ UNCHANGED <<seatLock, req, paxSeat>>
    BY <1>23 DEF ExpireScan, At
  <2>3. LockInv(p)' /\ RequestInv(p)'
    BY <1>1, <1>10, <2>1, <2>2 DEF Goto, LockTypes, LockInv, RequestInv
  <2> QED
    BY <1>1, <1>9, <2>1, <2>2, <2>3 DEF LockTypes
<1>24. ASSUME NEW p \in Txs, ExpireCommit(p) PROVE TxInv'
  <2>1. /\ req[p].kind = "expire" /\ UNCHANGED paxSeat
        /\ \E next \in {"scan", "idle"} : End(p, next, "ok")
    BY <1>24 DEF ExpireCommit, EndBookings, At
  <2> QED
    BY <1>1, <1>3, <2>1 DEF LockTypes
<1>25. ASSUME NEW p \in Txs, ChangeLock(p) PROVE TxInv'
  <2>1. CASE Refused(p)
    BY <1>4, <2>1
  <2>2. CASE ~Refused(p)
    <3>1. /\ pc[p] = "scan" /\ req[p].kind = "change" /\ Goto(p, "lock-seats")
          /\ paxSeat[req[p].b][req[p].i] # NoSeat
          /\ bookingLock' = [bookingLock EXCEPT ![req[p].b] = p]
          /\ rows' = [rows EXCEPT ![p] = {s \in {paxSeat[req[p].b][req[p].i], req[p].target} :
                                             FlightOf[s] = flightId[req[p].b]}]
          /\ UNCHANGED <<seatLock, req, paxSeat>>
      BY <1>25, <2>2 DEF ChangeLock, At
    <3>2. /\ req[p].target \in Seats /\ paxSeat[req[p].b][req[p].i] \in Seats
          /\ req[p].b \in Bookings
      BY <1>1, <3>1 DEF RequestInv, LockTypes
    <3>3. LockInv(p)' /\ RequestInv(p)'
      BY <1>1, <1>10, <3>1 DEF Goto, LockTypes, LockInv, RequestInv
    <3> QED
      BY <1>1, <1>9, <3>1, <3>2, <3>3 DEF LockTypes
  <2> QED
    BY <2>1, <2>2
<1>26. ASSUME NEW p \in Txs, ChangeCommit(p) PROVE TxInv'
  <2>1. CASE Refused(p) \/ Threw(p)
    BY <1>4, <2>1
  <2>2. CASE MoveSeat(req[p].b, req[p].i, req[p].target) /\ Committed(p)
    <3>1. req[p].target \in Seats
      BY <1>1, <1>26 DEF ChangeCommit, At, RequestInv
    <3> QED
      BY <1>1, <1>3, <2>2, <3>1 DEF Committed, MoveSeat, LockTypes
  <2> QED
    BY <1>26, <2>1, <2>2 DEF ChangeCommit
<1>27. ASSUME UNCHANGED <<paxSeat, locks, local>> PROVE TxInv'
  BY <1>27 DEF TxInv, LockTypes, RequestInv, LockInv
<1>28. ASSUME NEW p \in Txs, Step(p) PROVE TxInv'
  BY <1>7, <1>8, <1>11, <1>12, <1>13, <1>14, <1>15, <1>16, <1>17, <1>18, <1>19, <1>20, <1>21, <1>22,
     <1>23, <1>24, <1>25, <1>26, <1>28 DEF Step
<1>29. ASSUME Tick \/ \E f \in Flights : OpenFlight(f) PROVE TxInv'
  BY <1>27, <1>29 DEF Tick, OpenFlight, Inventory!Tick, Inventory!OpenFlight, Inventory!bookingVars
<1> QED
  BY <1>4, <1>5, <1>6, <1>27, <1>28, <1>29 DEF Next, vars

-------------------------------------------------------------------------------
(* No circle of waiting transactions *)

WaitsForSeat(p) == pc[p] = "lock-seats" /\ req[p].kind # "auto" /\ rows[p] # {}

LEMMA WaitsWhere ==
  ASSUME TxInv, NEW p \in Txs, WaitsFor(p) # Nobody
  PROVE  \/ /\ WaitsForSeat(p)
            /\ NextRow(p) \in rows[p] /\ NextRow(p) \in Seats
            /\ WaitsFor(p) = seatLock[NextRow(p)]
         \/ /\ pc[p] \notin {"lock-seats", "cancel-scan", "classify"}
            /\ req[p].b \in Bookings
            /\ WaitsFor(p) = bookingLock[req[p].b]
<1>1. LockTypes /\ RequestInv(p)
  BY DEF TxInv
<1>2. CASE pc[p] \in {"prelock", "lock-booking"} \/ At(p, "scan", {"change"})
  <2>1. req[p].b \in Bookings
    BY <1>1, <1>2 DEF RequestInv, At
  <2> QED
    BY <1>2, <2>1 DEF WaitsFor, At
<1>3. CASE WaitsForSeat(p)
  <2>1. NextRow(p) \in rows[p] /\ rows[p] \subseteq Seats
    BY <1>1, <1>3, LowestIsLeast DEF WaitsForSeat, NextRow, LockTypes
  <2> QED
    BY <1>3, <2>1 DEF WaitsFor, WaitsForSeat, At
<1> QED
  BY <1>2, <1>3 DEF WaitsFor, WaitsForSeat

LEMMA NobodyInCircle == TxInv => NoLockCycle
<1> SUFFICES ASSUME TxInv,
                    NEW S, S \subseteq Txs, \A p \in S : WaitsFor(p) # Nobody,
                    S # {}, \A p \in S : WaitsFor(p) \in S /\ WaitsFor(p) # p
             PROVE  FALSE
  BY DEF NoLockCycle
<1>1. \A p \in Txs : LockInv(p)
  BY DEF TxInv
\* Who holds a seat that another one waits for waits for a later seat.
<1>2. ASSUME NEW p \in S, WaitsForSeat(p)
      PROVE  \E q \in S : WaitsForSeat(q) /\ NextRow(p) < NextRow(q)
  <2>1. NextRow(p) \in Seats /\ WaitsFor(p) = seatLock[NextRow(p)]
    BY <1>2, WaitsWhere DEF WaitsForSeat
  <2>2. PICK q \in S : q = seatLock[NextRow(p)]
    BY <2>1
  <2>3. pc[q] = "lock-seats" /\ (req[q].kind # "auto" => \A u \in rows[q] : NextRow(p) < u)
    BY <1>1, <2>1, <2>2 DEF LockInv
  <2>4. WaitsForSeat(q) /\ NextRow(q) \in rows[q]
    BY <2>3, WaitsWhere
  <2> QED
    BY <2>3, <2>4 DEF WaitsForSeat
\* Who holds a booking that another one waits for waits for a seat.
<1>3. \E p \in S : WaitsForSeat(p)
  <2>1. PICK p \in S : TRUE
    OBVIOUS
  <2>2. CASE WaitsForSeat(p)
    BY <2>2
  <2>3. CASE ~WaitsForSeat(p)
    <3>1. req[p].b \in Bookings /\ WaitsFor(p) = bookingLock[req[p].b]
      BY <2>3, WaitsWhere
    <3>2. PICK q \in S : q = bookingLock[req[p].b]
      BY <3>1
    <3>3. \/ pc[q] = "lock-seats"
          \/ pc[q] \in {"cancel-scan", "lock-booking", "classify"} /\ req[q].b = req[p].b
      BY <1>1, <3>1, <3>2 DEF LockInv
    <3>4. WaitsForSeat(q)
      BY <3>2, <3>3, WaitsWhere
    <3> QED
      BY <3>4
  <2> QED
    BY <2>2, <2>3
<1>4. PICK T : T = {NextRow(p) : p \in {q \in S : WaitsForSeat(q)}}
  OBVIOUS
<1>5. T \subseteq Seats /\ T # {}
  BY <1>3, <1>4, WaitsWhere DEF WaitsForSeat
<1>6. PICK last \in T : \A u \in T : ~(last < u)
  BY <1>5, SeatsHaveGreatest
<1>7. PICK p \in S : WaitsForSeat(p) /\ last = NextRow(p)
  BY <1>4
<1> QED
  BY <1>2, <1>4, <1>6, <1>7

\* The global lock order of the domain model: bookings before seats, seats in order.  Whatever
\* mix of holds, confirms, cancels, seat changes and sweeps meets, no set of transactions waits
\* in a circle, so none is aborted as a deadlock victim.
THEOREM NoLocksInCircle == Spec => []NoLockCycle
<1>1. Spec => []TxInv
  BY InitTxInv, TxStep, PTL DEF Spec
<1> QED
  BY <1>1, NobodyInCircle, PTL

-------------------------------------------------------------------------------
(* What a transaction under way may rely on *)

\* What the committed tables hold.
TableTypes ==
  /\ now \in Nat
  /\ flightStatus \in [Flights -> StoredFlightStatuses]
  /\ status \in [Bookings -> BookingStatuses]
  /\ flightId \in [Bookings -> Flights]
  /\ holdExpiresAt \in [Bookings -> Nat]
  /\ seatStatus \in [Seats -> SeatStatuses]
  /\ seatBooking \in [Seats -> Bookings \cup {NoBooking}]

\* A seat with an owner is not for sale.
OwnedAreTaken == \A s \in Seats : seatBooking[s] \in Bookings => seatStatus[s] # "AVAILABLE"

Holding(p) == UnderWay(p) /\ req[p].kind \in {"hold", "auto"}

\* Two requests never draw one booking id.
DrawsApart ==
  \A p, q \in Txs : p # q /\ Holding(p) /\ Holding(q) => req[p].b # req[q].b

\* The arguments of a transaction under way are those of its kind.
Args(p) == UnderWay(p) =>
  /\ req[p].kind \in {"hold", "auto", "confirm", "cancel", "change", "expire"}
  /\ req[p].t \in 0..now
  /\ req[p].kind # "expire" => p \in Requests /\ req[p].kind \in RequestKinds[p]
  /\ req[p].kind \in {"hold", "auto"} => req[p].f \in Flights /\ status[req[p].b] = "NONE"
  /\ req[p].kind = "auto" => req[p].count \in Positions
  /\ req[p].kind \in {"confirm", "cancel", "change"} => status[req[p].b] # "NONE"

\* The seats a statement has locked or will.
Chosen(p) == rows[p] \cup LockedSeats(p)

HoldView(p) == pc[p] = "lock-seats" /\ req[p].kind \in {"hold", "auto"} =>
  \A s \in Chosen(p) :
    /\ FlightOf[s] = req[p].f
    /\ OnSaleSql(flightStatus[req[p].f], DepartureAt[req[p].f], req[p].t)
    /\ req[p].kind = "auto" => ClassOf[s] = req[p].class

ConfirmView(p) == req[p].kind = "confirm" =>
  /\ pc[p] \in {"lock-booking", "lock-seats"} /\ status[req[p].b] = "HELD" =>
       Inventory!HeldBy(req[p].b) \subseteq Chosen(p)
  /\ pc[p] = "lock-seats" => bookingLock[req[p].b] = p /\ ConfirmMatches(p)

\* The hold is over at p's reading of the clock.
Lapsed(p) == IsHoldLapsed(holdExpiresAt[req[p].b], req[p].t)

\* A cancel that goes on without the lock its first statement was to take is late: by its
\* clock the hold is over, so that it can only find its booking to be cancelled once that
\* is paid.
CancelView(p) == req[p].kind = "cancel" =>
  /\ pc[p] = "lock-seats" => bookingLock[req[p].b] = p /\ CancelMatches(p)
  /\ pc[p] = "cancel-scan" => Lapsed(p) \/ bookingLock[req[p].b] = p \/ ~CancelMatches(p)
  /\ pc[p] \in {"lock-booking", "lock-seats"} =>
       Lapsed(p) \/ (bookingLock[req[p].b] = p /\ Inventory!HeldBy(req[p].b) \subseteq Chosen(p))
  /\ pc[p] = "classify" => Lapsed(p) \/ ~CancelMatches(p)

ExpireView(p) == pc[p] = "lock-seats" /\ req[p].kind = "expire" =>
  \A b \in Bookings : bookingLock[b] = p =>
    /\ DueForExpiry(status[b], holdExpiresAt[b], req[p].t)
    /\ Inventory!HeldBy(b) \subseteq Chosen(p)

ChangeView(p) == pc[p] = "lock-seats" /\ req[p].kind = "change" =>
  LET b == req[p].b IN
  /\ bookingLock[b] = p
  /\ status[b] = "CONFIRMED"
  /\ paxSeat[b][req[p].i] \notin {NoSeat, req[p].target}
  /\ IsBookable(flightStatus[flightId[b]], DepartureAt[flightId[b]], req[p].t)
  /\ \A s \in Chosen(p) : FlightOf[s] = flightId[b]

View(p) == UnderWay(p) =>
  HoldView(p) /\ ConfirmView(p) /\ CancelView(p) /\ ExpireView(p) /\ ChangeView(p)

ViewInv ==
  /\ TableTypes /\ OwnedAreTaken /\ DrawsApart
  /\ \A p \in Txs : Args(p) /\ View(p)

-------------------------------------------------------------------------------
(* What a step leaves to the others *)

Kept(b) ==
  /\ status'[b] = status[b] /\ flightId'[b] = flightId[b]
  /\ holdExpiresAt'[b] = holdExpiresAt[b] /\ paxSeat'[b] = paxSeat[b]
  /\ \A s \in Seats : seatBooking'[s] = b <=> seatBooking[s] = b

\* A step of p creates the booking p holds for, or changes one that p has locked.
Touched(p, b) ==
  \/ Kept(b)
  \/ Holding(p) /\ req[p].b = b
  \/ /\ bookingLock[b] = p
     /\ status[b] \in ActiveStatuses /\ status'[b] \in {"CONFIRMED", "CANCELLED", "EXPIRED"}
     /\ flightId'[b] = flightId[b] /\ holdExpiresAt'[b] = holdExpiresAt[b]

FlightsMove ==
  /\ now' \in Nat /\ now <= now'
  /\ \A f \in Flights : flightStatus[f] = "OPEN" => flightStatus'[f] = "OPEN"

OthersStill(p) ==
  \A q \in Txs \ {p} :
    /\ pc'[q] = pc[q] /\ req'[q] = req[q] /\ rows'[q] = rows[q]
    /\ \A s \in Seats : seatLock'[s] = q <=> seatLock[s] = q
    /\ \A b \in Bookings : bookingLock'[b] = q <=> bookingLock[b] = q

LEMMA OthersView ==
  ASSUME TxInv, ViewInv, NEW p, NEW q \in Txs, p # q, p \in Txs \/ \A b \in Bookings : Kept(b),
         OthersStill(p), FlightsMove, \A b \in Bookings : Touched(p, b)
  PROVE  Args(q)' /\ View(q)'
<1> SUFFICES ASSUME UnderWay(q) PROVE Args(q)' /\ View(q)'
  BY DEF OthersStill, UnderWay, Args, View
<1>1. /\ pc'[q] = pc[q] /\ req'[q] = req[q] /\ rows'[q] = rows[q]
      /\ \A s \in Seats : seatLock'[s] = q <=> seatLock[s] = q
      /\ \A b \in Bookings : bookingLock'[b] = q <=> bookingLock[b] = q
  BY DEF OthersStill
<1>2. Chosen(q)' = Chosen(q)
  BY <1>1 DEF Chosen, LockedSeats
<1>3. Args(q) /\ View(q) /\ RequestInv(q) /\ TableTypes
  BY DEF ViewInv, TxInv
<1>4. /\ req[q].kind # "expire" => req[q].b \in Bookings
      /\ req[q].kind \in {"hold", "auto", "confirm", "cancel", "change", "expire"}
  BY <1>3 DEF Args, RequestInv, UnderWay
\* A booking q is about: kept, or q has not locked it.
<1>5. ASSUME NEW b \in Bookings
      PROVE  \/ Kept(b)
             \/ /\ status[b] = "NONE" /\ p \in Txs /\ Holding(p) /\ req[p].b = b
             \/ /\ bookingLock[b] # q /\ status[b] \in ActiveStatuses
                /\ status'[b] \in {"CONFIRMED", "CANCELLED", "EXPIRED"}
                /\ flightId'[b] = flightId[b] /\ holdExpiresAt'[b] = holdExpiresAt[b]
  <2>1. CASE Kept(b)
    BY <2>1
  <2>2. CASE p \in Txs /\ Holding(p) /\ req[p].b = b
    <3>1. Args(p)
      BY <2>2 DEF ViewInv
    <3> QED
      BY <2>2, <3>1 DEF Args, Holding
  <2>3. CASE p \in Txs /\ ~Holding(p)
    BY <2>3 DEF Touched
  <2> QED
    BY <2>1, <2>2, <2>3 DEF Touched
<1>6. Args(q)'
  <2>1. CASE req[q].kind \in {"hold", "auto"}
    <3>1. ~(p \in Txs /\ Holding(p) /\ req[p].b = req[q].b)
      BY <2>1 DEF ViewInv, DrawsApart, Holding
    <3>2. status'[req[q].b] = "NONE"
      BY <1>3, <1>4, <1>5, <2>1, <3>1 DEF Kept, Args, ActiveStatuses
    <3> QED
      BY <1>1, <1>3, <2>1, <3>2 DEF Args, FlightsMove, UnderWay, TableTypes
  <2>2. CASE req[q].kind \in {"confirm", "cancel", "change"}
    <3>1. status'[req[q].b] # "NONE"
      BY <1>3, <1>4, <1>5, <2>2 DEF Kept, Args
    <3> QED
      BY <1>1, <1>3, <2>2, <3>1 DEF Args, FlightsMove, UnderWay, TableTypes
  <2>3. CASE req[q].kind = "expire"
    BY <1>1, <1>3, <2>3 DEF Args, FlightsMove, UnderWay, TableTypes
  <2> QED
    BY <1>4, <2>1, <2>2, <2>3
<1>7. HoldView(q)'
  BY <1>1, <1>2, <1>3 DEF HoldView, View, OnSaleSql, FlightsMove, Args
<1>8. ConfirmView(q)'
  <2> SUFFICES ASSUME req[q].kind = "confirm" PROVE ConfirmView(q)'
    BY <1>1 DEF ConfirmView
  <2>1. req[q].b \in Bookings /\ status[req[q].b] # "NONE"
    BY <1>3, <1>4 DEF Args
  <2>2. ConfirmView(q)
    BY <1>3 DEF View
  <2>3. CASE Kept(req[q].b)
    BY <1>1, <1>2, <2>1, <2>2, <2>3 DEF ConfirmView, Kept, Inventory!HeldBy, ConfirmMatches
  <2> QED
    BY <1>1, <1>5, <2>1, <2>2, <2>3 DEF ConfirmView
<1>9. CancelView(q)'
  <2> SUFFICES ASSUME req[q].kind = "cancel" PROVE CancelView(q)'
    BY <1>1 DEF CancelView
  <2>1. req[q].b \in Bookings /\ status[req[q].b] # "NONE"
    BY <1>3, <1>4 DEF Args
  <2>2. CancelView(q)
    BY <1>3 DEF View
  <2>3. CASE Kept(req[q].b)
    BY <1>1, <1>2, <2>1, <2>2, <2>3 DEF CancelView, Lapsed, Kept, Inventory!HeldBy, CancelMatches, DepartureOf
  <2>4. CASE ~Kept(req[q].b)
    <3>1. /\ bookingLock[req[q].b] # q
          /\ status[req[q].b] \in ActiveStatuses
          /\ status'[req[q].b] \in {"CONFIRMED", "CANCELLED", "EXPIRED"}
          /\ flightId'[req[q].b] = flightId[req[q].b]
          /\ holdExpiresAt'[req[q].b] = holdExpiresAt[req[q].b]
      BY <1>1, <1>5, <2>1, <2>4 DEF Inventory!HeldBy
    <3>2. /\ holdExpiresAt[req[q].b] \in Nat /\ req[q].t \in Nat
          /\ Lapsed(q)' <=> Lapsed(q)
      BY <1>1, <1>3, <2>1, <3>1 DEF Lapsed, Args, TableTypes
    <3>3. ASSUME ~Lapsed(q), ~CancelMatches(q) PROVE ~CancelMatches(q)'
      BY <1>1, <3>1, <3>2, <3>3
      DEF CancelMatches, Cancellable, Lapsed, IsHoldLapsed, IsCancellationWindowOpen, DepartureOf, ActiveStatuses
    <3> QED
      BY <1>1, <2>1, <2>2, <3>1, <3>2, <3>3 DEF CancelView
  <2> QED
    BY <2>3, <2>4
<1>10. ExpireView(q)'
  <2> SUFFICES ASSUME req[q].kind = "expire", pc[q] = "lock-seats", NEW b \in Bookings, bookingLock[b] = q
               PROVE  (/\ DueForExpiry(status[b], holdExpiresAt[b], req[q].t)
                       /\ Inventory!HeldBy(b) \subseteq Chosen(q))'
    BY <1>1 DEF ExpireView
  <2>1. /\ DueForExpiry(status[b], holdExpiresAt[b], req[q].t)
        /\ Inventory!HeldBy(b) \subseteq Chosen(q)
    BY <1>3 DEF View, ExpireView
  <2>2. Kept(b)
    BY <1>5, <2>1 DEF DueForExpiry
  <2> QED
    BY <1>1, <1>2, <2>1, <2>2 DEF Kept, Inventory!HeldBy
<1>11. ChangeView(q)'
  <2> SUFFICES ASSUME req[q].kind = "change", pc[q] = "lock-seats" PROVE ChangeView(q)'
    BY <1>1 DEF ChangeView
  <2>1. ChangeView(q) /\ req[q].b \in Bookings
    BY <1>3, <1>4 DEF View
  <2>2. Kept(req[q].b) /\ flightId[req[q].b] \in Flights
    BY <1>3, <1>5, <2>1 DEF ChangeView, TableTypes
  <2>3. /\ flightStatus[flightId[req[q].b]] = "OPEN"
        /\ IsBookable("OPEN", DepartureAt[flightId[req[q].b]], req[q].t)
    BY <1>3, <2>1, <2>2 DEF ChangeView, IsBookable, EffectiveFlightStatus, TableTypes, StoredFlightStatuses
  <2>4. flightStatus'[flightId[req[q].b]] = "OPEN"
    BY <2>2, <2>3 DEF FlightsMove
  <2> QED
    BY <1>1, <1>2, <2>1, <2>2, <2>3, <2>4 DEF ChangeView, Kept
<1> QED
  BY <1>6, <1>7, <1>8, <1>9, <1>10, <1>11 DEF View

LEMMA AllViews ==
  ASSUME TxInv, ViewInv, NEW p \in Txs, OthersStill(p), FlightsMove, \A b \in Bookings : Touched(p, b),
         TableTypes', OwnedAreTaken', DrawsApart', Args(p)', View(p)'
  PROVE  ViewInv'
<1>1. \A q \in Txs \ {p} : Args(q)' /\ View(q)'
  BY OthersView
<1> QED
  BY <1>1 DEF ViewInv

LEMMA StillApart ==
  ASSUME ViewInv, NEW p \in Txs, OthersStill(p), Holding(p)' => Holding(p) /\ req'[p] = req[p]
  PROVE  DrawsApart'
<1>1. \A q \in Txs \ {p} : Holding(q)' => Holding(q) /\ req'[q] = req[q]
  BY DEF OthersStill, Holding, UnderWay
<1> QED
  BY <1>1 DEF ViewInv, DrawsApart

\* A step that changes no table and keeps the request under way.
LEMMA LocalStep ==
  ASSUME TxInv, ViewInv, NEW p \in Txs, UnderWay(p), UNCHANGED <<tables, req>>, OthersStill(p), View(p)'
  PROVE  ViewInv'
<1> USE DEF tables, flightVars
<1>1. FlightsMove /\ \A b \in Bookings : Touched(p, b)
  BY DEF ViewInv, TableTypes, FlightsMove, Touched, Kept
<1>2. TableTypes' /\ OwnedAreTaken'
  BY DEF ViewInv, TableTypes, OwnedAreTaken
<1>3. Args(p)'
  BY DEF ViewInv, Args
<1>4. DrawsApart'
  BY StillApart DEF Holding
<1> QED
  BY <1>1, <1>2, <1>3, <1>4, AllViews

LEMMA EndStep ==
  ASSUME TxInv, ViewInv, NEW p \in Txs, NEW next \in {"scan", "idle", "done"}, NEW result,
         End(p, next, result), next = "scan" => UnderWay(p) /\ req[p].kind = "expire",
         FlightsMove, \A b \in Bookings : Touched(p, b), TableTypes', OwnedAreTaken'
  PROVE  ViewInv'
<1>1. LockTypes /\ Nobody # p /\ Nobody \notin Txs
  BY TransactionsAssumption DEF TxInv
<1>2. OthersStill(p)
  BY <1>1 DEF End, LetGo, OthersStill, LockTypes
<1>3. pc'[p] = next /\ (next = "scan" => req'[p] = req[p])
  BY <1>1 DEF End, LockTypes
<1>4. Args(p)'
  BY <1>3 DEF ViewInv, Args, UnderWay, FlightsMove, TableTypes
<1>5. View(p)'
  BY <1>3 DEF View, UnderWay, HoldView, ConfirmView, CancelView, ExpireView, ChangeView
<1>6. DrawsApart'
  BY <1>3, StillApart, <1>2 DEF Holding, UnderWay
<1> QED
  BY <1>2, <1>4, <1>5, <1>6, AllViews

LEMMA EndKeepingTables ==
  ASSUME TxInv, ViewInv, NEW p \in Txs, Refused(p) \/ Threw(p) \/ Abort(p)
  PROVE  ViewInv'
<1> USE DEF tables, flightVars
<1>1. PICK next \in {"idle", "done"}, result \in {"refused", "threw", "aborted"} : End(p, next, result)
  BY DEF Refused, Threw, Abort
<1>2. UNCHANGED tables
  BY DEF Refused, Threw, Abort
<1>3. FlightsMove /\ \A b \in Bookings : Touched(p, b)
  BY <1>2 DEF ViewInv, TableTypes, FlightsMove, Touched, Kept
<1>4. TableTypes' /\ OwnedAreTaken'
  BY <1>2 DEF ViewInv, TableTypes, OwnedAreTaken
<1> QED
  BY <1>1, <1>3, <1>4, EndStep

-------------------------------------------------------------------------------
(* Requests begin, time passes *)

LEMMA BeginView ==
  ASSUME TxInv, ViewInv, NEW p \in Requests, Begin(p)
  PROVE  ViewInv'
<1> USE DEF tables, flightVars
<1>1. /\ p \in Txs /\ pc[p] = "idle" /\ pc' = [pc EXCEPT ![p] = "scan"]
      /\ UNCHANGED <<tables, locks, rows>>
  BY DEF Begin, Txs
<1>2. PICK kind \in RequestKinds[p] : \E r \in RequestsOf(kind) : req' = [req EXCEPT ![p] = r]
  BY DEF Begin
<1>3. PICK r \in RequestsOf(kind) : req' = [req EXCEPT ![p] = r]
  BY <1>2
<1>4. kind \in {"hold", "auto", "confirm", "cancel", "change"}
  BY TransactionsAssumption
<1>5. /\ r.kind = kind /\ r.t = now
      /\ kind \in {"hold", "auto"} => r.b \in Bookings \ Drawn /\ r.f \in Flights
      /\ kind = "auto" => r.count \in Positions
      /\ kind \in {"confirm", "cancel", "change"} => status[r.b] # "NONE"
  BY <1>3, <1>4 DEF RequestsOf
<1>6. req'[p] = r /\ pc'[p] = "scan"
  BY <1>1, <1>3 DEF TxInv, LockTypes
<1>7. OthersStill(p)
  BY <1>1, <1>3 DEF OthersStill, TxInv, LockTypes, locks
<1>8. FlightsMove /\ \A b \in Bookings : Touched(p, b)
  BY <1>1 DEF ViewInv, TableTypes, FlightsMove, Touched, Kept
<1>9. TableTypes' /\ OwnedAreTaken'
  BY <1>1 DEF ViewInv, TableTypes, OwnedAreTaken
<1>10. Args(p)'
  <2>1. now \in Nat /\ status'= status /\ now' = now
    BY <1>1 DEF ViewInv, TableTypes
  <2>2. r.kind \in {"hold", "auto"} => status[r.b] = "NONE"
    BY <1>5 DEF Drawn
  <2> QED
    BY <1>4, <1>5, <1>6, <2>1, <2>2 DEF Args
<1>11. View(p)'
  BY <1>6 DEF View, UnderWay, HoldView, ConfirmView, CancelView, ExpireView, ChangeView
<1>12. DrawsApart'
  <2>1. ASSUME NEW q \in Txs \ {p}, Holding(q)', Holding(p)' PROVE req'[q].b # req'[p].b
    <3>1. Holding(q) /\ req'[q] = req[q] /\ UnderWay(q)
      BY <1>7, <2>1 DEF OthersStill, Holding, UnderWay
    <3>2. q \in Requests
      BY <3>1 DEF ViewInv, Args, Holding
    <3>3. r.b \notin Drawn
      BY <1>5, <1>6, <2>1 DEF Holding
    <3> QED
      BY <1>6, <3>1, <3>2, <3>3 DEF Drawn
  <2>2. \A q \in Txs \ {p} : Holding(q)' => Holding(q) /\ req'[q] = req[q]
    BY <1>7 DEF OthersStill, Holding, UnderWay
  <2> QED
    BY <2>1, <2>2 DEF ViewInv, DrawsApart
<1> QED
  BY <1>1, <1>7, <1>8, <1>9, <1>10, <1>11, <1>12, AllViews

LEMMA StartSweepView ==
  ASSUME TxInv, ViewInv, NEW p \in Sweepers, StartSweep(p)
  PROVE  ViewInv'
<1> USE DEF tables, flightVars
<1>1. /\ p \in Txs /\ UNCHANGED <<tables, locks, rows>>
      /\ pc' = [pc EXCEPT ![p] = "scan"]
      /\ req' = [req EXCEPT ![p] = [kind |-> "expire", t |-> now]]
  BY DEF StartSweep, Txs
<1>2. pc'[p] = "scan" /\ req'[p].kind = "expire" /\ req'[p].t = now
  BY <1>1 DEF TxInv, LockTypes
<1>3. OthersStill(p)
  BY <1>1 DEF OthersStill, TxInv, LockTypes, locks
<1>4. FlightsMove /\ \A b \in Bookings : Touched(p, b)
  BY <1>1 DEF ViewInv, TableTypes, FlightsMove, Touched, Kept
<1>5. TableTypes' /\ OwnedAreTaken'
  BY <1>1 DEF ViewInv, TableTypes, OwnedAreTaken
<1>6. Args(p)'
  BY <1>1, <1>2 DEF ViewInv, TableTypes, Args
<1>7. View(p)'
  BY <1>2 DEF View, UnderWay, HoldView, ConfirmView, CancelView, ExpireView, ChangeView
<1>8. DrawsApart'
  BY <1>1, <1>2, <1>3, StillApart DEF Holding
<1> QED
  BY <1>1, <1>3, <1>4, <1>5, <1>6, <1>7, <1>8, AllViews

LEMMA ClockView ==
  ASSUME TxInv, ViewInv, Tick \/ \E f \in Flights : OpenFlight(f)
  PROVE  ViewInv'
<1> USE DEF tables, flightVars
<1>1. /\ UNCHANGED <<status, flightId, holdExpiresAt, paxSeat, seatStatus, seatBooking, locks, local>>
  BY DEF Tick, OpenFlight, Inventory!Tick, Inventory!OpenFlight, Inventory!bookingVars, Inventory!seatVars
<1>2. FlightsMove /\ flightStatus' \in [Flights -> StoredFlightStatuses]
  <2>1. CASE Tick
    BY <2>1 DEF ViewInv, TableTypes, FlightsMove, Tick, Inventory!Tick
  <2>2. ASSUME NEW f \in Flights, OpenFlight(f) PROVE FlightsMove /\ flightStatus' \in [Flights -> StoredFlightStatuses]
    BY <2>2 DEF ViewInv, TableTypes, FlightsMove, OpenFlight, Inventory!OpenFlight, StoredFlightStatuses
  <2> QED
    BY <2>1, <2>2
<1>3. \A b \in Bookings : Kept(b)
  BY <1>1 DEF Kept
<1>4. TableTypes' /\ OwnedAreTaken' /\ DrawsApart'
  BY <1>1, <1>2 DEF ViewInv, TableTypes, OwnedAreTaken, DrawsApart, Holding, UnderWay, local, FlightsMove
<1>5. ASSUME NEW q \in Txs PROVE Args(q)' /\ View(q)'
  <2>1. Nobody # q /\ OthersStill(Nobody) /\ \A b \in Bookings : Touched(Nobody, b)
    BY <1>1, <1>3, TransactionsAssumption DEF OthersStill, Touched, locks, local
  <2> QED
    BY <1>2, <1>3, <2>1, OthersView
<1> QED
  BY <1>4, <1>5 DEF ViewInv

-------------------------------------------------------------------------------
(* Statements look at a snapshot and lock *)

\* What a statement that goes on does to the others' places.
LEMMA GoingOn ==
  ASSUME TxInv, NEW p \in Txs, NEW label, Goto(p, label),
         UNCHANGED req, \A q \in Txs \ {p} : rows'[q] = rows[q],
         \A s \in Seats : seatLock'[s] = seatLock[s] \/ (seatLock[s] \in {p, Nobody} /\ seatLock'[s] \in {p, Nobody}),
         \A b \in Bookings :
           bookingLock'[b] = bookingLock[b] \/ (bookingLock[b] \in {p, Nobody} /\ bookingLock'[b] = p)
  PROVE  OthersStill(p) /\ pc'[p] = label
BY TransactionsAssumption DEF TxInv, LockTypes, Goto, OthersStill

LEMMA LockSeatView ==
  ASSUME TxInv, ViewInv, NEW p \in Txs, LockSeat(p)
  PROVE  ViewInv'
<1> USE DEF tables, flightVars
<1>1. /\ pc[p] = "lock-seats" /\ rows[p] \subseteq Seats /\ rows[p] # {}
      /\ seatLock[NextRow(p)] \in {Nobody, p}
      /\ seatLock' = [seatLock EXCEPT ![NextRow(p)] = p]
      /\ rows' = [rows EXCEPT ![p] = @ \ {NextRow(p)}]
      /\ UNCHANGED <<tables, bookingLock, pc, req, outcome>>
      /\ LockTypes
  BY DEF LockSeat, At, TxInv, LockTypes
<1>2. NextRow(p) \in rows[p] /\ NextRow(p) \in Seats
  BY <1>1, LowestIsLeast DEF NextRow
<1>3. OthersStill(p)
  BY <1>1, <1>2, TransactionsAssumption DEF OthersStill, LockTypes
<1>4. Chosen(p)' = Chosen(p)
  BY <1>1, <1>2 DEF Chosen, LockedSeats, LockTypes
<1>5. View(p)
  BY DEF ViewInv
<1>6. /\ HoldView(p)' /\ ConfirmView(p)' /\ ExpireView(p)' /\ ChangeView(p)'
  BY <1>1, <1>4, <1>5 DEF View, UnderWay, HoldView, ConfirmView, ExpireView, ChangeView, ConfirmMatches,
     Inventory!HeldBy
<1>7. CancelView(p)'
  BY <1>1, <1>4, <1>5 DEF View, UnderWay, CancelView, Lapsed, CancelMatches, DepartureOf, Inventory!HeldBy
<1> QED
  BY <1>1, <1>3, <1>6, <1>7, LocalStep DEF View, UnderWay

LEMMA LockOrSkipSeatView ==
  ASSUME TxInv, ViewInv, NEW p \in Txs, LockOrSkipSeat(p)
  PROVE  ViewInv'
<1> USE DEF tables, flightVars
<1>1. /\ pc[p] = "lock-seats" /\ req[p].kind = "auto" /\ rows[p] \subseteq Seats /\ rows[p] # {}
      /\ seatLock' = [seatLock EXCEPT ![NextRow(p)] = IF @ = Nobody THEN p ELSE @]
      /\ rows' = [rows EXCEPT ![p] = @ \ {NextRow(p)}]
      /\ UNCHANGED <<tables, bookingLock, pc, req, outcome>>
      /\ LockTypes
  BY DEF LockOrSkipSeat, AutoDone, At, TxInv, LockTypes
<1>2. NextRow(p) \in rows[p] /\ NextRow(p) \in Seats
  BY <1>1, LowestIsLeast DEF NextRow
<1>3. OthersStill(p)
  BY <1>1, <1>2, TransactionsAssumption DEF OthersStill, LockTypes
<1>4. Chosen(p)' \subseteq Chosen(p)
  BY <1>1, <1>2 DEF Chosen, LockedSeats, LockTypes
<1>5. View(p)'
  BY <1>1, <1>4 DEF ViewInv, View, UnderWay, HoldView, ConfirmView, CancelView, ExpireView, ChangeView
<1> QED
  BY <1>1, <1>3, <1>5, LocalStep DEF UnderWay

LEMMA HoldScanView ==
  ASSUME TxInv, ViewInv, NEW p \in Txs, HoldScan(p)
  PROVE  ViewInv'
<1> USE DEF tables, flightVars
<1> DEFINE shown == IF req[p].kind = "hold"
                    THEN SeatsOf(req[p].party)
                    ELSE {s \in Seats : ClassOf[s] = req[p].class /\ seatStatus[s] = "AVAILABLE"}
           onSale == OnSaleSql(flightStatus[req[p].f], DepartureAt[req[p].f], req[p].t)
           found == {s \in shown : onSale /\ FlightOf[s] = req[p].f}
<1>1. /\ pc[p] = "scan" /\ req[p].kind \in {"hold", "auto"}
      /\ rows' = [rows EXCEPT ![p] = found]
      /\ Goto(p, "lock-seats")
      /\ UNCHANGED <<tables, locks, req, outcome>>
  BY DEF HoldScan, At
<1>2. \A s \in found : FlightOf[s] = req[p].f /\ onSale /\ (req[p].kind = "auto" => ClassOf[s] = req[p].class)
  OBVIOUS
<1> HIDE DEF shown, found
<1>3. OthersStill(p) /\ pc'[p] = "lock-seats" /\ rows'[p] = found
  <2>1. \A q \in Txs \ {p} : rows'[q] = rows[q]
    BY <1>1 DEF TxInv, LockTypes
  <2> QED
    BY <1>1, <2>1, GoingOn DEF locks, TxInv, LockTypes
<1>4. Chosen(p)' = found
  <2>1. LockedSeats(p)' = {}
    BY <1>1 DEF TxInv, LockInv, LockedSeats, locks
  <2> QED
    BY <1>3, <2>1 DEF Chosen
<1>5. View(p)'
  BY <1>1, <1>2, <1>3, <1>4 DEF View, HoldView, ConfirmView, CancelView, ExpireView, ChangeView
<1> QED
  BY <1>1, <1>3, <1>5, LocalStep DEF UnderWay

LEMMA ConfirmScanView ==
  ASSUME TxInv, ViewInv, NEW p \in Txs, ConfirmScan(p)
  PROVE  ViewInv'
<1> USE DEF tables, flightVars
<1>1. CASE Refused(p)
  BY <1>1, EndKeepingTables
<1>2. CASE ~Refused(p)
  <2>1. /\ pc[p] = "scan" /\ req[p].kind = "confirm"
        /\ rows' = [rows EXCEPT ![p] = Inventory!HeldBy(req[p].b)]
        /\ Goto(p, "lock-booking")
        /\ UNCHANGED <<tables, locks, req, outcome>>
    BY <1>2 DEF ConfirmScan, At
  <2>2. OthersStill(p) /\ pc'[p] = "lock-booking" /\ rows'[p] = Inventory!HeldBy(req[p].b)
    <3>1. \A q \in Txs \ {p} : rows'[q] = rows[q]
      BY <2>1 DEF TxInv, LockTypes
    <3> QED
      BY <2>1, <3>1, GoingOn DEF locks, TxInv, LockTypes
  <2>3. View(p)'
    BY <2>1, <2>2 DEF View, HoldView, ConfirmView, CancelView, ExpireView, ChangeView, Chosen, Inventory!HeldBy
  <2> QED
    BY <2>1, <2>2, <2>3, LocalStep DEF UnderWay
<1> QED
  BY <1>1, <1>2

LEMMA ConfirmLockView ==
  ASSUME TxInv, ViewInv, NEW p \in Txs, ConfirmLock(p)
  PROVE  ViewInv'
<1> USE DEF tables, flightVars
<1>1. CASE Refused(p)
  BY <1>1, EndKeepingTables
<1>2. CASE ~Refused(p)
  <2>1. /\ pc[p] = "lock-booking" /\ req[p].kind = "confirm" /\ ConfirmMatches(p)
        /\ bookingLock[req[p].b] = Nobody
        /\ bookingLock' = [bookingLock EXCEPT ![req[p].b] = p]
        /\ Goto(p, "lock-seats")
        /\ UNCHANGED <<tables, seatLock, req, rows, outcome>>
    BY <1>2 DEF ConfirmLock, At
  <2>2. req[p].b \in Bookings /\ bookingLock'[req[p].b] = p
    BY <2>1 DEF TxInv, LockTypes, RequestInv
  <2>3. OthersStill(p) /\ pc'[p] = "lock-seats"
    BY <2>1, GoingOn DEF TxInv, LockTypes
  <2>4. status[req[p].b] = "HELD" => Inventory!HeldBy(req[p].b) \subseteq Chosen(p)
    BY <2>1 DEF ViewInv, View, UnderWay, ConfirmView
  <2>5. Chosen(p)' = Chosen(p)
    BY <2>1 DEF Chosen, LockedSeats
  <2>6. View(p)'
    BY <2>1, <2>2, <2>3, <2>4, <2>5
    DEF View, HoldView, ConfirmView, CancelView, ExpireView, ChangeView, ConfirmMatches, Inventory!HeldBy
  <2> QED
    BY <2>1, <2>3, <2>6, LocalStep DEF UnderWay
<1> QED
  BY <1>1, <1>2

LEMMA CancelPrelockView ==
  ASSUME TxInv, ViewInv, NEW p \in Txs, CancelPrelockScan(p) \/ CancelPrelock(p)
  PROVE  ViewInv'
<1> USE DEF tables, flightVars
<1>1. CASE CancelPrelockScan(p)
  <2>1. PICK label \in {"prelock", "cancel-scan"} :
          /\ Goto(p, label) /\ (label = "cancel-scan" => ~CancelMatches(p))
          /\ pc[p] = "scan" /\ req[p].kind = "cancel"
          /\ UNCHANGED <<tables, locks, req, rows, outcome>>
    BY <1>1 DEF CancelPrelockScan, At
  <2>2. OthersStill(p) /\ pc'[p] = label
    BY <2>1, GoingOn DEF locks
  <2>3. View(p)'
    BY <2>1, <2>2 DEF View, HoldView, ConfirmView, CancelView, ExpireView, ChangeView, CancelMatches, DepartureOf
  <2> QED
    BY <2>1, <2>2, <2>3, LocalStep DEF UnderWay
<1>2. CASE CancelPrelock(p)
  <2>1. /\ pc[p] = "prelock" /\ req[p].kind = "cancel"
        /\ bookingLock[req[p].b] = Nobody
        /\ bookingLock' = [bookingLock EXCEPT ![req[p].b] = p]
        /\ Goto(p, "cancel-scan")
        /\ UNCHANGED <<tables, seatLock, req, rows, outcome>>
    BY <1>2 DEF CancelPrelock, At
  <2>2. bookingLock'[req[p].b] = p
    BY <2>1 DEF TxInv, LockTypes, RequestInv
  <2>3. OthersStill(p) /\ pc'[p] = "cancel-scan"
    BY <2>1, GoingOn DEF TxInv, LockTypes
  <2>4. View(p)'
    BY <2>1, <2>2, <2>3 DEF View, HoldView, ConfirmView, CancelView, ExpireView, ChangeView
  <2> QED
    BY <2>1, <2>3, <2>4, LocalStep DEF UnderWay
<1> QED
  BY <1>1, <1>2

LEMMA CancelScanView ==
  ASSUME TxInv, ViewInv, NEW p \in Txs, CancelScan(p)
  PROVE  ViewInv'
<1> USE DEF tables, flightVars
<1>1. /\ pc[p] = "cancel-scan" /\ req[p].kind = "cancel" /\ p \in Requests /\ "cancel" \in RequestKinds[p]
      /\ UNCHANGED <<tables, locks, req, outcome>>
  BY DEF CancelScan, At, ViewInv, Args, UnderWay
<1>2. CASE CancelMatches(p)
  <2>1. /\ rows' = [rows EXCEPT ![p] = Inventory!HeldBy(req[p].b)]
        /\ Goto(p, "lock-booking")
    BY <1>2 DEF CancelScan
  <2>2. OthersStill(p) /\ pc'[p] = "lock-booking" /\ rows'[p] = Inventory!HeldBy(req[p].b)
    <3>1. \A q \in Txs \ {p} : rows'[q] = rows[q]
      BY <2>1 DEF TxInv, LockTypes
    <3> QED
      BY <1>1, <2>1, <3>1, GoingOn DEF locks, TxInv, LockTypes
  <2>3. Lapsed(p) \/ bookingLock[req[p].b] = p
    BY <1>1, <1>2 DEF ViewInv, View, UnderWay, CancelView
  <2>4. View(p)'
    BY <1>1, <2>1, <2>2, <2>3
    DEF View, HoldView, ConfirmView, CancelView, ExpireView, ChangeView, Lapsed, Chosen, Inventory!HeldBy, locks
  <2> QED
    BY <1>1, <2>2, <2>4, LocalStep DEF UnderWay
<1>3. CASE ~CancelMatches(p)
  <2>1. Goto(p, "classify") /\ UNCHANGED rows
    BY <1>3 DEF CancelScan
  <2>2. OthersStill(p) /\ pc'[p] = "classify"
    BY <1>1, <2>1, GoingOn DEF locks
  <2>3. View(p)'
    BY <1>1, <1>3, <2>2
    DEF View, HoldView, ConfirmView, CancelView, ExpireView, ChangeView, CancelMatches, DepartureOf
  <2> QED
    BY <1>1, <2>2, <2>3, LocalStep DEF UnderWay
<1> QED
  BY <1>2, <1>3

LEMMA CancelLockView ==
  ASSUME TxInv, ViewInv, NEW p \in Txs, CancelLock(p)
  PROVE  ViewInv'
<1> USE DEF tables, flightVars
<1>1. PICK label \in {"lock-seats", "classify"} :
        /\ Goto(p, label) /\ (label = "lock-seats" <=> CancelMatches(p))
        /\ pc[p] = "lock-booking" /\ req[p].kind = "cancel"
        /\ bookingLock[req[p].b] \in {Nobody, p}
        /\ bookingLock' = [bookingLock EXCEPT ![req[p].b] = p]
        /\ UNCHANGED <<tables, seatLock, req, rows, outcome>>
  BY DEF CancelLock, At
<1>2. bookingLock'[req[p].b] = p
  BY <1>1 DEF TxInv, LockTypes, RequestInv
<1>3. OthersStill(p) /\ pc'[p] = label
  BY <1>1, GoingOn DEF TxInv, LockTypes
<1>4. Lapsed(p) \/ Inventory!HeldBy(req[p].b) \subseteq Chosen(p)
  BY <1>1 DEF ViewInv, View, UnderWay, CancelView
<1>5. Chosen(p)' = Chosen(p) /\ (CancelMatches(p)' <=> CancelMatches(p))
  BY <1>1 DEF Chosen, LockedSeats, CancelMatches, DepartureOf
<1>6. View(p)'
  BY <1>1, <1>2, <1>3, <1>4, <1>5
  DEF View, HoldView, ConfirmView, CancelView, ExpireView, ChangeView, Lapsed, Inventory!HeldBy
<1> QED
  BY <1>1, <1>3, <1>6, LocalStep DEF UnderWay

LEMMA ExpireScanView ==
  ASSUME TxInv, ViewInv, NEW p \in Txs, ExpireScan(p)
  PROVE  ViewInv'
<1> USE DEF tables, flightVars
<1>1. PICK due \in Batches({b \in DueHolds(p) : bookingLock[b] = Nobody}) :
        /\ bookingLock' = [b \in Bookings |-> IF b \in due THEN p ELSE bookingLock[b]]
        /\ rows' = [rows EXCEPT ![p] = {s \in Seats : seatBooking[s] \in due}]
  BY DEF ExpireScan
<1>2. /\ pc[p] = "scan" /\ req[p].kind = "expire" /\ Goto(p, "lock-seats")
      /\ UNCHANGED <<tables, seatLock, req, outcome>>
  BY DEF ExpireScan, At
<1>3. \A b \in due : b \in Bookings /\ bookingLock[b] = Nobody /\ DueForExpiry(status[b], holdExpiresAt[b], req[p].t)
  BY DEF Batches, DueHolds
<1>4. OthersStill(p) /\ pc'[p] = "lock-seats" /\ rows'[p] = {s \in Seats : seatBooking[s] \in due}
  <2>1. \A q \in Txs \ {p} : rows'[q] = rows[q]
    BY <1>1 DEF TxInv, LockTypes
  <2>2. \A b \in Bookings :
          bookingLock'[b] = bookingLock[b] \/ (bookingLock[b] \in {p, Nobody} /\ bookingLock'[b] = p)
    BY <1>1, <1>3
  <2> QED
    BY <1>1, <1>2, <2>1, <2>2, GoingOn DEF TxInv, LockTypes
<1>5. \A b \in Bookings : bookingLock'[b] = p => b \in due
  BY <1>1, <1>2 DEF TxInv, LockInv
<1>6. \A b \in due : Inventory!HeldBy(b) \subseteq rows'[p]
  BY <1>4 DEF Inventory!HeldBy
<1>7. ExpireView(p)'
  <2> SUFFICES ASSUME NEW b \in Bookings, bookingLock'[b] = p
               PROVE  /\ DueForExpiry(status'[b], holdExpiresAt'[b], req'[p].t)
                      /\ \A s \in Seats : seatBooking'[s] = b => s \in rows'[p]
    BY DEF ExpireView, Chosen, Inventory!HeldBy
  <2> QED
    BY <1>2, <1>3, <1>5, <1>6 DEF Inventory!HeldBy
<1>8. View(p)'
  BY <1>2, <1>7 DEF View, HoldView, ConfirmView, CancelView, ChangeView
<1> QED
  BY <1>2, <1>4, <1>8, LocalStep DEF UnderWay

LEMMA ChangeLockView ==
  ASSUME TxInv, ViewInv, NEW p \in Txs, ChangeLock(p)
  PROVE  ViewInv'
<1> USE DEF tables, flightVars
<1>1. CASE Refused(p)
  BY <1>1, EndKeepingTables
<1>2. CASE ~Refused(p)
  <2> DEFINE b == req[p].b
             own == paxSeat[b][req[p].i]
             f == flightId[b]
  <2>1. /\ pc[p] = "scan" /\ req[p].kind = "change" /\ bookingLock[b] = Nobody
        /\ status[b] = "CONFIRMED" /\ own \notin {NoSeat, req[p].target}
        /\ IsBookable(flightStatus[f], DepartureAt[f], req[p].t)
        /\ bookingLock' = [bookingLock EXCEPT ![b] = p]
        /\ rows' = [rows EXCEPT ![p] = {s \in {own, req[p].target} : FlightOf[s] = f}]
        /\ Goto(p, "lock-seats")
        /\ UNCHANGED <<tables, seatLock, req, outcome>>
    BY <1>2 DEF ChangeLock, At
  <2>2. b \in Bookings /\ bookingLock'[b] = p
    BY <2>1 DEF TxInv, LockTypes, RequestInv
  <2>3. OthersStill(p) /\ pc'[p] = "lock-seats" /\ rows'[p] = {s \in {own, req[p].target} : FlightOf[s] = f}
    <3>1. \A q \in Txs \ {p} : rows'[q] = rows[q]
      BY <2>1 DEF TxInv, LockTypes
    <3> QED
      BY <2>1, <2>2, <3>1, GoingOn DEF TxInv, LockTypes
  <2>4. LockedSeats(p)' = {}
    BY <2>1 DEF TxInv, LockInv, LockedSeats
  <2>5. ChangeView(p)'
    BY <2>1, <2>2, <2>3, <2>4 DEF ChangeView, Chosen
  <2>6. View(p)'
    BY <2>1, <2>5 DEF View, HoldView, ConfirmView, CancelView, ExpireView
  <2> QED
    BY <2>1, <2>3, <2>6, LocalStep DEF UnderWay
<1> QED
  BY <1>1, <1>2

-------------------------------------------------------------------------------
(* Commits are SeatInventory's operations *)

LEMMA StoreHoldCommits ==
  ASSUME TxInv, ViewInv, NEW p \in Txs, Holding(p), pc[p] = "lock-seats",
         NEW party \in Inventory!Parties, SeatsOf(party) = FreeSeats(p),
         Inventory!StoreHold(req[p].b, req[p].f, party, req[p].t), Committed(p)
  PROVE  /\ ViewInv'
         /\ Inventory!CanHold(req[p].b, req[p].f, party, req[p].t)
         /\ req[p].kind = "auto" => \A s \in SeatsOf(party) : ClassOf[s] = req[p].class
<1> DEFINE b == req[p].b
           f == req[p].f
           t == req[p].t
<1>1. /\ b \in Bookings /\ f \in Flights /\ t \in 0..now /\ status[b] = "NONE"
      /\ req[p].kind \in {"hold", "auto"} /\ now \in Nat
  BY DEF ViewInv, TxInv, Args, RequestInv, Holding, UnderWay, TableTypes
<1>2. party \in [Positions -> Seats \cup {NoSeat}] /\ party[1] # NoSeat /\ 1 \in Positions
  BY LimitsAssumption, PartiesAreSeats DEF Inventory!Parties, Inventory!IsParty, Inventory!Positions, Positions
<1>3. SeatsOf(party) \subseteq Seats /\ SeatsOf(party) # {} /\ Inventory!SeatsOf(party) = SeatsOf(party)
  BY <1>2 DEF SeatsOf, Inventory!SeatsOf, Inventory!Positions, Positions
<1>4. \A s \in SeatsOf(party) : seatStatus[s] = "AVAILABLE" /\ s \in Chosen(p) /\ seatBooking[s] \notin Bookings
  BY <1>3 DEF FreeSeats, Chosen, ViewInv, OwnedAreTaken
<1>5. \A s \in SeatsOf(party) :
        /\ FlightOf[s] = f /\ OnSaleSql(flightStatus[f], DepartureAt[f], t)
        /\ req[p].kind = "auto" => ClassOf[s] = req[p].class
  BY <1>4 DEF ViewInv, View, HoldView, Holding
<1>6. Inventory!CanHold(b, f, party, t)
  BY <1>1, <1>3, <1>4, <1>5 DEF Inventory!CanHold, Inventory!OnSaleSql, OnSaleSql
<1>7. t + HoldDuration \in Nat /\ t + HoldDuration >= HoldDuration
  BY <1>1, LimitsAssumption
<1>8. /\ status' = [status EXCEPT ![b] = "HELD"]
      /\ flightId' = [flightId EXCEPT ![b] = f]
      /\ holdExpiresAt' = [holdExpiresAt EXCEPT ![b] = t + HoldDuration]
      /\ paxSeat' = [paxSeat EXCEPT ![b] = party]
      /\ seatStatus' = [s \in Seats |-> IF s \in SeatsOf(party) THEN "HELD" ELSE seatStatus[s]]
      /\ seatBooking' = [s \in Seats |-> IF s \in SeatsOf(party) THEN b ELSE seatBooking[s]]
      /\ UNCHANGED <<now, flightStatus>>
  BY <1>3 DEF Inventory!StoreHold
<1>9. TableTypes'
  BY <1>1, <1>7, <1>8 DEF ViewInv, TableTypes, BookingStatuses, SeatStatuses
<1>10. OwnedAreTaken'
  BY <1>8 DEF ViewInv, OwnedAreTaken
<1>11. FlightsMove
  BY <1>1, <1>8 DEF FlightsMove
<1>12. ASSUME NEW c \in Bookings PROVE Touched(p, c)
  <2>1. CASE c = b
    BY <2>1 DEF Touched
  <2>2. CASE c # b
    BY <1>4, <1>8, <2>2 DEF Touched, Kept, ViewInv, TableTypes, TxInv, LockTypes
  <2> QED
    BY <2>1, <2>2
<1>13. ViewInv'
  BY <1>9, <1>10, <1>11, <1>12, EndStep DEF Committed
<1> QED
  BY <1>5, <1>6, <1>13

LEMMA HoldChosenCommits ==
  ASSUME TxInv, ViewInv, NEW p \in Txs, HoldChosen(p)
  PROVE  ViewInv' /\ (Inventory!Next \/ UNCHANGED Inventory!vars)
<1>1. CASE Refused(p)
  BY <1>1, EndKeepingTables DEF Refused, tables, flightVars, Inventory!vars, Inventory!bookingVars, Inventory!seatVars
<1>2. CASE ~Refused(p)
  <2>1. /\ pc[p] = "lock-seats" /\ req[p].kind = "hold" /\ Holding(p)
        /\ SeatsOf(req[p].party) = FreeSeats(p)
        /\ Inventory!StoreHold(req[p].b, req[p].f, req[p].party, req[p].t) /\ Committed(p)
    BY <1>2 DEF HoldChosen, At, Holding, UnderWay
  <2>2. /\ req[p].b \in Bookings /\ req[p].party \in Inventory!Parties
        /\ req[p].f \in Flights /\ req[p].t \in 0..now
    BY <2>1 DEF TxInv, ViewInv, RequestInv, Args, UnderWay
  <2>3. ViewInv' /\ Inventory!CanHold(req[p].b, req[p].f, req[p].party, req[p].t)
    BY <2>1, <2>2, StoreHoldCommits
  <2>4. Inventory!HoldChosenSeats(req[p].b, req[p].f, req[p].party, req[p].t)
    BY <2>1, <2>3 DEF Inventory!HoldChosenSeats
  <2>5. Inventory!HoldStep
    BY <2>2, <2>4 DEF Inventory!HoldStep, Inventory!Instants
  <2> QED
    BY <2>3, <2>5 DEF Inventory!Next
<1> QED
  BY <1>1, <1>2

LEMMA HoldAutoCommits ==
  ASSUME TxInv, ViewInv, NEW p \in Txs, HoldAuto(p)
  PROVE  ViewInv' /\ (Inventory!Next \/ UNCHANGED Inventory!vars)
<1>1. CASE Refused(p)
  BY <1>1, EndKeepingTables DEF Refused, tables, flightVars, Inventory!vars, Inventory!bookingVars, Inventory!seatVars
<1>2. CASE ~Refused(p)
  <2>1. PICK party \in Inventory!Parties :
          /\ SeatsOf(party) = FreeSeats(p)
          /\ FrontToBack(party)
          /\ Inventory!StoreHold(req[p].b, req[p].f, party, req[p].t)
    BY <1>2 DEF HoldAuto
  <2>2. /\ pc[p] = "lock-seats" /\ req[p].kind = "auto" /\ Holding(p) /\ Committed(p)
    BY <1>2 DEF HoldAuto, At, Holding, UnderWay
  <2>3. /\ req[p].b \in Bookings
        /\ req[p].f \in Flights /\ req[p].t \in 0..now
    BY <2>2 DEF TxInv, ViewInv, RequestInv, Args, UnderWay
  <2>4. /\ ViewInv' /\ Inventory!CanHold(req[p].b, req[p].f, party, req[p].t)
        /\ \A s \in SeatsOf(party) : ClassOf[s] = req[p].class
    BY <2>1, <2>2, StoreHoldCommits
  <2>5. Inventory!FrontToBack(party) /\ Inventory!SeatsOf(party) = SeatsOf(party)
    BY <2>1 DEF FrontToBack, Inventory!FrontToBack, SeatsOf, Inventory!SeatsOf, Inventory!Positions, Positions
  <2>6. \E c \in Inventory!FareClasses : \A s \in SeatsOf(party) : ClassOf[s] = c
    <3>1. PICK s \in Seats : s \in SeatsOf(party)
      <4>1. party \in [Positions -> Seats \cup {NoSeat}] /\ party[1] # NoSeat /\ 1 \in Positions
        BY LimitsAssumption, PartiesAreSeats DEF Inventory!Parties, Inventory!IsParty, Inventory!Positions, Positions
      <4> QED
        BY <4>1 DEF SeatsOf
    <3>2. ClassOf[s] \in Inventory!FareClasses
      BY DEF Inventory!FareClasses
    <3> QED
      BY <2>4, <3>1, <3>2
  <2>7. Inventory!HoldAutoSeats(req[p].b, req[p].f, party, req[p].t)
    BY <2>1, <2>4, <2>5, <2>6 DEF Inventory!HoldAutoSeats
  <2>8. Inventory!HoldStep
    BY <2>3, <2>7 DEF Inventory!HoldStep, Inventory!Instants
  <2> QED
    BY <2>4, <2>8 DEF Inventory!Next
<1> QED
  BY <1>1, <1>2

LEMMA ConfirmCommits ==
  ASSUME TxInv, ViewInv, NEW p \in Txs, ConfirmCommit(p)
  PROVE  ViewInv' /\ (Inventory!Next \/ UNCHANGED Inventory!vars)
<1> DEFINE b == req[p].b
<1>1. /\ pc[p] = "lock-seats" /\ req[p].kind = "confirm" /\ rows[p] = {} /\ b \in Bookings
      /\ req[p].t \in 0..now /\ now \in Nat
  BY DEF ConfirmCommit, At, TxInv, ViewInv, RequestInv, Args, UnderWay, TableTypes
<1>2. bookingLock[b] = p /\ ConfirmMatches(p)
  BY <1>1 DEF ViewInv, View, ConfirmView, UnderWay
<1>3. status[b] = "HELD"
  BY <1>2 DEF ConfirmMatches, Confirmable
<1>4. Inventory!HeldBy(b) \subseteq LockedSeats(p)
  BY <1>1, <1>3 DEF ViewInv, View, ConfirmView, UnderWay, Chosen
<1>5. /\ status' = [status EXCEPT ![b] = "CONFIRMED"]
      /\ seatStatus' = [s \in Seats |-> IF seatBooking[s] = b THEN "BOOKED" ELSE seatStatus[s]]
      /\ UNCHANGED <<now, flightStatus, flightId, holdExpiresAt, paxSeat, paxClass, seatBooking>>
  BY <1>4 DEF ConfirmCommit, flightVars, Inventory!HeldBy
<1>6. TableTypes' /\ OwnedAreTaken' /\ FlightsMove
  BY <1>1, <1>3, <1>5 DEF ViewInv, TableTypes, OwnedAreTaken, BookingStatuses, SeatStatuses, FlightsMove
<1>7. ASSUME NEW c \in Bookings PROVE Touched(p, c)
  BY <1>1, <1>2, <1>3, <1>5 DEF Touched, Kept, ActiveStatuses, ViewInv, TableTypes
<1>8. ViewInv'
  BY <1>6, <1>7, EndStep DEF ConfirmCommit, Committed
<1>9. Inventory!ConfirmHold(b, req[p].t)
  BY <1>2, <1>5 DEF ConfirmMatches, Confirmable, Inventory!ConfirmHold, Inventory!Confirmable
<1> QED
  BY <1>1, <1>8, <1>9 DEF Inventory!Next, Inventory!Instants

\* EndBookings of bookings that p has locked.
LEMMA EndBookingsCommits ==
  ASSUME TxInv, ViewInv, NEW p \in Txs, NEW ended, ended \subseteq Bookings,
         \A b \in ended : bookingLock[b] = p /\ status[b] \in ActiveStatuses,
         NEW final \in {"CANCELLED", "EXPIRED"}, EndBookings(p, ended, final),
         NEW next \in {"scan", "idle", "done"}, End(p, next, "ok"),
         next = "scan" => UnderWay(p) /\ req[p].kind = "expire"
  PROVE  /\ ViewInv'
         /\ (\A b \in ended : Inventory!HeldBy(b) \subseteq LockedSeats(p)) => Inventory!ReleaseSeatsOf(ended)
<1> DEFINE freed == {s \in LockedSeats(p) : seatBooking[s] \in ended}
<1>1. /\ status' = [b \in Bookings |-> IF b \in ended THEN final ELSE status[b]]
      /\ seatStatus' = [s \in Seats |-> IF s \in freed THEN "AVAILABLE" ELSE seatStatus[s]]
      /\ seatBooking' = [s \in Seats |-> IF s \in freed THEN NoBooking ELSE seatBooking[s]]
      /\ UNCHANGED <<now, flightStatus, flightId, holdExpiresAt, paxSeat, paxClass>>
  BY DEF EndBookings, ReleaseLockedSeats, flightVars
<1>2. \A s \in freed : s \in Seats /\ seatBooking[s] \in ended
  BY DEF LockedSeats
<1>3. TableTypes' /\ OwnedAreTaken' /\ FlightsMove
  <2> HIDE DEF freed
  <2>1. TableTypes' /\ FlightsMove
    BY <1>1 DEF ViewInv, TableTypes, BookingStatuses, SeatStatuses, FlightsMove
  <2>2. OwnedAreTaken'
    BY <1>1, SeatsAssumption DEF ViewInv, OwnedAreTaken
  <2> QED
    BY <2>1, <2>2
<1>4. ASSUME NEW c \in Bookings PROVE Touched(p, c)
  <2>1. \A s \in Seats : seatBooking'[s] = c => seatBooking[s] = c
    <3> HIDE DEF freed
    <3> QED
      BY <1>1, SeatsAssumption
  <2>2. CASE c \in ended
    BY <1>1, <2>1, <2>2 DEF Touched
  <2>3. CASE c \notin ended
    <3>1. \A s \in Seats : seatBooking[s] = c => seatBooking'[s] = c
      BY <1>1, <2>3
    <3>2. Kept(c)
      BY <1>1, <2>1, <2>3, <3>1 DEF Kept
    <3> QED
      BY <3>2 DEF Touched
  <2> QED
    BY <2>2, <2>3
<1>5. ViewInv'
  BY <1>3, <1>4, EndStep
<1>6. ASSUME \A b \in ended : Inventory!HeldBy(b) \subseteq LockedSeats(p)
      PROVE  Inventory!ReleaseSeatsOf(ended)
  <2>1. \A s \in Seats : s \in freed <=> seatBooking[s] \in ended
    BY <1>6 DEF Inventory!HeldBy
  <2> HIDE DEF freed
  <2> QED
    BY <1>1, <2>1 DEF Inventory!ReleaseSeatsOf
<1> QED
  BY <1>5, <1>6

\* A cancel that releases less than its booking owns never had the lock of its first
\* statement, so the booking was paid after it had read the clock.
LEMMA CancelCommits ==
  ASSUME TxInv, ViewInv, NEW p \in Txs, CancelCommit(p)
  PROVE  ViewInv' /\ (Inventory!Next \/ (p \in Requests /\ CancelsLate(p)))
<1> DEFINE b == req[p].b
<1>1. /\ pc[p] = "lock-seats" /\ req[p].kind = "cancel" /\ rows[p] = {} /\ b \in Bookings
      /\ req[p].t \in 0..now /\ EndBookings(p, {b}, "CANCELLED") /\ End(p, "done", "ok")
  BY DEF CancelCommit, Committed, At, TxInv, ViewInv, RequestInv, Args, UnderWay
<1>2. bookingLock[b] = p /\ CancelMatches(p)
  BY <1>1 DEF ViewInv, View, CancelView, UnderWay
<1>3. status[b] \in ActiveStatuses
  BY <1>2 DEF CancelMatches, Cancellable, ActiveStatuses
<1>4. /\ ViewInv'
      /\ Inventory!HeldBy(b) \subseteq LockedSeats(p) => Inventory!ReleaseSeatsOf({b})
  BY <1>1, <1>2, <1>3, EndBookingsCommits
<1>5. ASSUME Inventory!HeldBy(b) \subseteq LockedSeats(p) PROVE Inventory!Next
  <2>1. Inventory!Cancellable(status[b], holdExpiresAt[b], DepartureAt[flightId[b]], req[p].t)
    BY <1>2 DEF CancelMatches, Cancellable, DepartureOf, IsCancellationWindowOpen,
       Inventory!Cancellable, Inventory!IsCancellationWindowOpen
  <2>2. status' = [status EXCEPT ![b] = "CANCELLED"]
        /\ UNCHANGED <<now, flightStatus, flightId, holdExpiresAt, paxSeat, paxClass>>
    BY <1>1 DEF EndBookings, flightVars, ViewInv, TableTypes
  <2>3. Inventory!Cancel(b, req[p].t)
    BY <1>4, <1>5, <2>1, <2>2 DEF Inventory!Cancel
  <2> QED
    BY <1>1, <2>3 DEF Inventory!Next, Inventory!Instants
<1>6. ASSUME ~(Inventory!HeldBy(b) \subseteq LockedSeats(p)) PROVE p \in Requests /\ CancelsLate(p)
  <2> DEFINE freed == {s \in LockedSeats(p) : seatBooking[s] \in {b}}
  <2>1. p \in Requests /\ IsHoldLapsed(holdExpiresAt[b], req[p].t)
    BY <1>1, <1>6 DEF ViewInv, View, CancelView, UnderWay, Chosen, Lapsed, Args
  <2>2. holdExpiresAt[b] \in Nat /\ req[p].t \in Nat
    BY <1>1 DEF ViewInv, TableTypes
  <2>3. Cancellable(status[b], holdExpiresAt[b], DepartureOf(b), req[p].t) /\ PaidAfterLapse(p)
    BY <1>2, <2>1, <2>2 DEF CancelMatches, Cancellable, IsHoldLapsed, PaidAfterLapse
  <2>4. freed \subseteq Inventory!HeldBy(b)
    BY DEF Inventory!HeldBy, LockedSeats
  <2>5. /\ status' = [status EXCEPT ![b] = "CANCELLED"]
        /\ seatStatus' = [s \in Seats |-> IF s \in freed THEN "AVAILABLE" ELSE seatStatus[s]]
        /\ seatBooking' = [s \in Seats |-> IF s \in freed THEN NoBooking ELSE seatBooking[s]]
        /\ UNCHANGED <<flightVars, flightId, holdExpiresAt, paxSeat, paxClass>>
    BY <1>1 DEF EndBookings, ReleaseLockedSeats, ViewInv, TableTypes
  <2> HIDE DEF freed, b
  <2>6. CancelLeavingSeats(b, req[p].t)
    BY <2>3, <2>4, <2>5 DEF CancelLeavingSeats
  <2> QED
    BY <1>1, <2>1, <2>3, <2>6 DEF CancelsLate, At, b
<1> QED
  BY <1>4, <1>5, <1>6

LEMMA ExpireCommits ==
  ASSUME TxInv, ViewInv, NEW p \in Txs, ExpireCommit(p)
  PROVE  ViewInv' /\ (Inventory!Next \/ UNCHANGED Inventory!vars)
<1> DEFINE due == LockedBookings(p)
<1>1. /\ pc[p] = "lock-seats" /\ req[p].kind = "expire" /\ rows[p] = {}
      /\ UnderWay(p) /\ req[p].t \in 0..now
      /\ EndBookings(p, due, "EXPIRED")
  BY DEF ExpireCommit, At, UnderWay, ViewInv, Args
<1>2. PICK next \in {"scan", "idle"} : End(p, next, "ok")
  BY DEF ExpireCommit
<1>3. /\ due \subseteq Bookings
      /\ \A b \in due : /\ bookingLock[b] = p /\ DueForExpiry(status[b], holdExpiresAt[b], req[p].t)
                        /\ Inventory!HeldBy(b) \subseteq LockedSeats(p)
  BY <1>1 DEF ViewInv, View, ExpireView, UnderWay, Chosen, LockedBookings
<1>4. \A b \in due : status[b] \in ActiveStatuses
  BY <1>3 DEF DueForExpiry, ActiveStatuses
<1> HIDE DEF due
<1>5. ViewInv' /\ Inventory!ReleaseSeatsOf(due)
  BY <1>1, <1>2, <1>3, <1>4, EndBookingsCommits
<1>6. /\ status' = [b \in Bookings |-> IF b \in due THEN "EXPIRED" ELSE status[b]]
      /\ UNCHANGED <<now, flightStatus, flightId, holdExpiresAt, paxSeat, paxClass>>
  BY <1>1 DEF EndBookings, flightVars
<1>7. CASE due # {}
  <2>1. Inventory!ExpireDueHolds(due, req[p].t)
    BY <1>3, <1>5, <1>6, <1>7 DEF Inventory!ExpireDueHolds, Inventory!DueForExpiry, DueForExpiry
  <2> QED
    BY <1>1, <1>3, <1>5, <2>1 DEF Inventory!Next, Inventory!ExpirySweep, Inventory!Instants
<1>8. CASE due = {}
  <2>1. status' = status /\ seatStatus' = seatStatus /\ seatBooking' = seatBooking
    BY <1>5, <1>6, <1>8 DEF Inventory!ReleaseSeatsOf, ViewInv, TableTypes
  <2> QED
    BY <1>5, <1>6, <2>1 DEF Inventory!vars, Inventory!bookingVars, Inventory!seatVars
<1> QED
  BY <1>7, <1>8

LEMMA ChangeCommits ==
  ASSUME TxInv, ViewInv, NEW p \in Txs, ChangeCommit(p)
  PROVE  ViewInv' /\ (Inventory!Next \/ UNCHANGED Inventory!vars)
<1>1. CASE Refused(p) \/ Threw(p)
  BY <1>1, EndKeepingTables
  DEF Refused, Threw, tables, flightVars, Inventory!vars, Inventory!bookingVars, Inventory!seatVars
<1>2. CASE ~(Refused(p) \/ Threw(p))
  <2> DEFINE b == req[p].b
             i == req[p].i
             own == paxSeat[b][i]
             target == req[p].target
  <2>1. /\ pc[p] = "lock-seats" /\ req[p].kind = "change" /\ rows[p] = {}
        /\ OwnsItsSeat(b, own) /\ target \in LockedSeats(p)
        /\ ClassOf[target] = ClassOf[own] /\ seatStatus[target] = "AVAILABLE"
        /\ MoveSeat(b, i, target) /\ End(p, "done", "ok")
    BY <1>2 DEF ChangeCommit, At, Committed
  <2>2. /\ b \in Bookings /\ i \in Positions /\ target \in Seats
        /\ req[p].t \in 0..now /\ p \in Requests /\ "change" \in RequestKinds[p]
    BY <2>1 DEF TxInv, ViewInv, RequestInv, Args, UnderWay
  <2>3. /\ bookingLock[b] = p /\ status[b] = "CONFIRMED" /\ own \notin {NoSeat, target}
        /\ IsBookable(flightStatus[flightId[b]], DepartureAt[flightId[b]], req[p].t)
        /\ FlightOf[target] = flightId[b]
    BY <2>1 DEF ViewInv, View, ChangeView, UnderWay, Chosen
  <2>4. own \in Seats
    BY <2>2, <2>3 DEF TxInv, LockTypes
  <2>5. /\ seatStatus' = [seatStatus EXCEPT ![own] = "AVAILABLE", ![target] = "BOOKED"]
        /\ seatBooking' = [seatBooking EXCEPT ![own] = NoBooking, ![target] = b]
        /\ paxSeat' = [paxSeat EXCEPT ![b] = [@ EXCEPT ![i] = target]]
        /\ UNCHANGED <<now, flightStatus, status, flightId, holdExpiresAt, paxClass>>
    BY <2>1 DEF MoveSeat, flightVars
  <2>6. Inventory!ChangeSeat(b, i, target, req[p].t)
    BY <2>1, <2>3, <2>5
    DEF Inventory!ChangeSeat, Inventory!CanChangeSeat, IsBookable, Inventory!IsBookable,
        EffectiveFlightStatus, Inventory!EffectiveFlightStatus
  <2>7. seatBooking[own] = b /\ seatBooking[target] \notin Bookings
    BY <2>1, <2>2 DEF OwnsItsSeat, ViewInv, OwnedAreTaken
  <2> HIDE DEF own, b, i, target
  <2>8. TableTypes' /\ FlightsMove
    BY <2>2, <2>4, <2>5 DEF ViewInv, TableTypes, SeatStatuses, FlightsMove
  <2>9. OwnedAreTaken'
    BY <2>2, <2>3, <2>4, <2>5, SeatsAssumption DEF ViewInv, TableTypes, OwnedAreTaken
  <2>10. ASSUME NEW c \in Bookings PROVE Touched(p, c)
    <3>1. CASE c = b
      BY <2>2, <2>3, <2>5, <3>1 DEF Touched, ActiveStatuses
    <3>2. CASE c # b
      <4>1. \A s \in Seats : seatBooking'[s] = c <=> seatBooking[s] = c
        BY <2>2, <2>3, <2>4, <2>5, <2>7, <3>2, SeatsAssumption DEF ViewInv, TableTypes
      <4> QED
        BY <2>5, <3>2, <4>1 DEF Touched, Kept, TxInv, LockTypes
    <3> QED
      BY <3>1, <3>2
  <2>11. ViewInv'
    BY <2>1, <2>8, <2>9, <2>10, EndStep
  <2>12. Inventory!Positions = Positions
    BY DEF Inventory!Positions, Positions
  <2> QED
    BY <2>2, <2>6, <2>11, <2>12 DEF Inventory!Next, Inventory!Instants
<1> QED
  BY <1>1, <1>2

LEMMA InitView == Init => ViewInv
<1> SUFFICES ASSUME Init PROVE ViewInv
  OBVIOUS
<1>1. \A p \in Txs : ~UnderWay(p)
  BY DEF Init, UnderWay
<1>2. (CHOOSE f \in Flights : TRUE) \in Flights
  BY FlightsAssumption
<1>3. TableTypes
  BY <1>2 DEF Init, Inventory!Init, TableTypes, StoredFlightStatuses, BookingStatuses, SeatStatuses
<1>4. OwnedAreTaken
  BY SeatsAssumption DEF Init, Inventory!Init, OwnedAreTaken
<1> QED
  BY <1>1, <1>3, <1>4 DEF ViewInv, DrawsApart, Holding, Args, View

\* A statement that commits nothing leaves the tables as they are.
LEMMA LocksOnly ==
  ASSUME NEW p \in Txs,
         \/ LockSeat(p) \/ LockOrSkipSeat(p) \/ HoldScan(p) \/ ConfirmScan(p) \/ ConfirmLock(p)
         \/ CancelPrelockScan(p) \/ CancelPrelock(p) \/ CancelScan(p) \/ CancelLock(p)
         \/ CancelClassify(p) \/ ExpireScan(p) \/ ChangeLock(p) \/ Abort(p)
  PROVE  UNCHANGED tables
BY DEF LockSeat, LockOrSkipSeat, HoldScan, ConfirmScan, ConfirmLock, CancelPrelockScan, CancelPrelock,
       CancelScan, CancelLock, CancelClassify, ExpireScan, ChangeLock, Abort, Refused, Threw

LEMMA StepCommits ==
  ASSUME TxInv, ViewInv, [Next]_vars
  PROVE  /\ ViewInv'
         /\ Inventory!Next \/ UNCHANGED Inventory!vars \/ \E p \in Requests : CancelsLate(p)
<1> DEFINE Goal == /\ ViewInv'
                   /\ Inventory!Next \/ UNCHANGED Inventory!vars \/ \E p \in Requests : CancelsLate(p)
<1>1. UNCHANGED tables => UNCHANGED Inventory!vars
  BY DEF tables, flightVars, Inventory!vars, Inventory!bookingVars, Inventory!seatVars
<1>2. ASSUME NEW p \in Txs, Step(p) PROVE Goal
  <2>1. CASE CancelCommit(p)
    BY <2>1, CancelCommits
  <2>2. CASE HoldChosen(p) \/ HoldAuto(p) \/ ConfirmCommit(p) \/ ExpireCommit(p) \/ ChangeCommit(p)
    BY <2>2, HoldChosenCommits, HoldAutoCommits, ConfirmCommits, ExpireCommits, ChangeCommits
  <2>3. CASE \/ LockSeat(p) \/ LockOrSkipSeat(p) \/ HoldScan(p) \/ ConfirmScan(p) \/ ConfirmLock(p)
             \/ CancelPrelockScan(p) \/ CancelPrelock(p) \/ CancelScan(p) \/ CancelLock(p)
             \/ CancelClassify(p) \/ ExpireScan(p) \/ ChangeLock(p)
    <3>1. UNCHANGED tables
      BY <2>3, LocksOnly
    <3>2. CASE CancelClassify(p)
      BY <1>1, <3>1, <3>2, EndKeepingTables DEF CancelClassify
    <3>3. CASE ~CancelClassify(p)
      BY <1>1, <2>3, <3>1, <3>3, LockSeatView, LockOrSkipSeatView, HoldScanView, ConfirmScanView,
         ConfirmLockView, CancelPrelockView, CancelScanView, CancelLockView, ExpireScanView, ChangeLockView
    <3> QED
      BY <3>2, <3>3
  <2> QED
    BY <1>2, <2>1, <2>2, <2>3 DEF Step
<1>3. ASSUME NEW p \in Txs, Abort(p) PROVE Goal
  BY <1>1, <1>3, LocksOnly, EndKeepingTables
<1>4. ASSUME NEW p \in Requests, Begin(p) PROVE Goal
  BY <1>1, <1>4, BeginView DEF Begin
<1>5. ASSUME NEW p \in Sweepers, StartSweep(p) PROVE Goal
  BY <1>1, <1>5, StartSweepView DEF StartSweep
<1>6. ASSUME Tick \/ \E f \in Flights : OpenFlight(f) PROVE Goal
  <2>1. ViewInv'
    BY <1>6, ClockView
  <2>2. Inventory!Next
    <3>1. CASE Tick
      BY <3>1 DEF Tick, Inventory!Next
    <3>2. ASSUME NEW f \in Flights, OpenFlight(f) PROVE Inventory!Next
      <4>1. now \in Inventory!Instants
        BY DEF ViewInv, TableTypes, Inventory!Instants
      <4> QED
        BY <3>2, <4>1 DEF OpenFlight, Inventory!Next
    <3> QED
      BY <1>6, <3>1, <3>2
  <2> QED
    BY <2>1, <2>2
<1>7. ASSUME UNCHANGED vars PROVE Goal
  <2>1. UNCHANGED tables /\ UNCHANGED <<locks, local>>
    BY <1>7 DEF vars
  <2>2. \A b \in Bookings : Kept(b)
    BY <2>1 DEF tables, flightVars, Kept
  <2>3. FlightsMove /\ TableTypes' /\ OwnedAreTaken' /\ DrawsApart'
    BY <2>1 DEF ViewInv, TableTypes, OwnedAreTaken, DrawsApart, Holding, UnderWay, FlightsMove,
       tables, flightVars, local
  <2>4. ASSUME NEW q \in Txs PROVE Args(q)' /\ View(q)'
    <3>1. Nobody # q /\ OthersStill(Nobody) /\ \A b \in Bookings : Touched(Nobody, b)
      BY <2>1, <2>2, TransactionsAssumption DEF OthersStill, Touched, locks, local
    <3> QED
      BY <2>2, <2>3, <3>1, OthersView
  <2> QED
    BY <1>1, <2>1, <2>3, <2>4 DEF ViewInv
<1> QED
  BY <1>2, <1>3, <1>4, <1>5, <1>6, <1>7 DEF Next

LEMMA AlwaysViewInv == Spec => [](TxInv /\ ViewInv)
<1>1. TxInv /\ ViewInv /\ [Next]_vars => (TxInv /\ ViewInv)'
  BY TxStep, StepCommits
<1> QED
  BY InitTxInv, InitView, <1>1, PTL DEF Spec

\* Whatever the interleaving of statements, row locks, crashes and sweeps, what is committed is
\* one operation of SeatInventory, but for one case: a cancel that read the clock past the
\* deadline of a hold that is paid all the same may leave its booking seats the booking was
\* moved to (StepsImplementInventory).
THEOREM OnlyLateCancelsDiffer == Spec => StepsImplementInventory
<1>1. TxInv /\ ViewInv /\ [Next]_vars =>
        [Inventory!vars' # Inventory!vars =>
           Inventory!Next \/ \E p \in Requests : CancelsLate(p)]_vars
  BY StepCommits
<1> QED
  BY <1>1, AlwaysViewInv, PTL DEF Spec, StepsImplementInventory

-------------------------------------------------------------------------------
(* Who throws *)

\* Passengers of an active booking have seats of their own, which it owns, whatever late
\* cancels leave to bookings that are not active.
SeatedInv ==
  \A b \in Bookings : status[b] \in ActiveStatuses =>
    /\ \A i, j \in Positions : i # j /\ paxSeat[b][i] # NoSeat => paxSeat[b][i] # paxSeat[b][j]
    /\ \A i \in Positions : paxSeat[b][i] # NoSeat =>
         /\ seatBooking[paxSeat[b][i]] = b
         /\ seatStatus[paxSeat[b][i]] = (IF status[b] = "HELD" THEN "HELD" ELSE "BOOKED")

LEMMA StepsKeepSeated ==
  ASSUME TxInv, ViewInv, SeatedInv,
         Inventory!Next \/ UNCHANGED Inventory!vars \/ \E p \in Requests : CancelsLate(p)
  PROVE  SeatedInv'
<1> USE DEF Inventory!bookingVars, Inventory!seatVars
<1>1. /\ TableTypes /\ OwnedAreTaken /\ Inventory!Positions = Positions
      /\ \A b \in Bookings, i \in Positions : paxSeat[b][i] # NoSeat => paxSeat[b][i] \in Seats
      /\ paxSeat \in [Bookings -> [Positions -> Seats \cup {NoSeat}]]
  <2>1. TableTypes /\ OwnedAreTaken
    BY DEF ViewInv
  <2>2. Inventory!Positions = Positions
    BY DEF Inventory!Positions, Positions
  <2>3. paxSeat \in [Bookings -> [Positions -> Seats \cup {NoSeat}]]
    BY DEF TxInv, LockTypes
  <2>4. \A b \in Bookings, i \in Positions : paxSeat[b][i] \in Seats \cup {NoSeat}
    BY <2>3
  <2> QED
    BY <2>1, <2>2, <2>3, <2>4
<1>2. ASSUME NEW b \in Bookings, NEW f \in Flights, NEW t \in Inventory!Instants,
             NEW party \in Inventory!Parties, Inventory!CanHold(b, f, party, t),
             Inventory!StoreHold(b, f, party, t)
      PROVE  SeatedInv'
  <2>1. /\ party \in [Positions -> Seats \cup {NoSeat}]
        /\ \A i, j \in Positions : i # j /\ party[i] # NoSeat => party[i] # party[j]
    BY <1>1, PartiesAreSeats DEF Inventory!Parties, Inventory!IsParty
  <2>2. \A i \in Positions : party[i] # NoSeat => party[i] \in Inventory!SeatsOf(party) /\ party[i] \in Seats
    BY <1>1, <2>1 DEF Inventory!SeatsOf
  <2>3. \A s \in Inventory!SeatsOf(party) : seatStatus[s] = "AVAILABLE"
    BY <1>2 DEF Inventory!CanHold
  <2>4. /\ status' = [status EXCEPT ![b] = "HELD"] /\ paxSeat' = [paxSeat EXCEPT ![b] = party]
        /\ seatStatus' = [s \in Seats |-> IF s \in Inventory!SeatsOf(party) THEN "HELD" ELSE seatStatus[s]]
        /\ seatBooking' = [s \in Seats |-> IF s \in Inventory!SeatsOf(party) THEN b ELSE seatBooking[s]]
    BY <1>2 DEF Inventory!StoreHold
  <2> SUFFICES ASSUME NEW c \in Bookings, status'[c] \in ActiveStatuses
               PROVE  /\ \A i, j \in Positions : i # j /\ paxSeat'[c][i] # NoSeat => paxSeat'[c][i] # paxSeat'[c][j]
                      /\ \A i \in Positions : paxSeat'[c][i] # NoSeat =>
                           /\ seatBooking'[paxSeat'[c][i]] = c
                           /\ seatStatus'[paxSeat'[c][i]] = (IF status'[c] = "HELD" THEN "HELD" ELSE "BOOKED")
    BY DEF SeatedInv
  <2>5. CASE c = b
    BY <1>1, <2>1, <2>2, <2>4, <2>5 DEF TableTypes
  <2>6. CASE c # b
    <3>1. paxSeat'[c] = paxSeat[c] /\ status'[c] = status[c]
      BY <1>1, <2>4, <2>6 DEF TableTypes
    <3>2. \A i \in Positions : paxSeat[c][i] # NoSeat => paxSeat[c][i] \notin Inventory!SeatsOf(party)
      BY <1>1, <2>3, <3>1 DEF SeatedInv, OwnedAreTaken
    <3> QED
      BY <1>1, <2>4, <3>1, <3>2 DEF SeatedInv
  <2> QED
    BY <2>5, <2>6
<1>3. ASSUME NEW b \in Bookings, NEW t, Inventory!ConfirmHold(b, t) PROVE SeatedInv'
  <2>1. /\ status[b] = "HELD" /\ status' = [status EXCEPT ![b] = "CONFIRMED"]
        /\ seatStatus' = [s \in Seats |-> IF seatBooking[s] = b THEN "BOOKED" ELSE seatStatus[s]]
        /\ UNCHANGED <<paxSeat, seatBooking>>
    BY <1>3 DEF Inventory!ConfirmHold, Inventory!Confirmable
  <2> QED
    BY <1>1, <2>1 DEF SeatedInv, TableTypes, ActiveStatuses
<1>4. ASSUME NEW ended, NEW final \in {"CANCELLED", "EXPIRED"},
             \A b \in Bookings : status'[b] = IF b \in ended THEN final ELSE status[b],
             \A s \in Seats : seatBooking[s] \notin ended =>
               seatStatus'[s] = seatStatus[s] /\ seatBooking'[s] = seatBooking[s],
             UNCHANGED paxSeat
      PROVE  SeatedInv'
  <2> SUFFICES ASSUME NEW c \in Bookings, status'[c] \in ActiveStatuses
               PROVE  /\ \A i, j \in Positions : i # j /\ paxSeat[c][i] # NoSeat => paxSeat[c][i] # paxSeat[c][j]
                      /\ \A i \in Positions : paxSeat[c][i] # NoSeat =>
                           /\ seatBooking'[paxSeat[c][i]] = c
                           /\ seatStatus'[paxSeat[c][i]] = (IF status'[c] = "HELD" THEN "HELD" ELSE "BOOKED")
    BY <1>4 DEF SeatedInv
  <2>1. c \notin ended /\ status'[c] = status[c]
    BY <1>4 DEF ActiveStatuses
  <2> QED
    BY <1>1, <1>4, <2>1 DEF SeatedInv
<1>5. ASSUME NEW b \in Bookings, NEW i \in Positions, NEW target \in Seats, NEW t,
             Inventory!ChangeSeat(b, i, target, t)
      PROVE  SeatedInv'
  <2> DEFINE own == paxSeat[b][i]
  <2>1. /\ status[b] = "CONFIRMED" /\ own \in Seats /\ own # target /\ seatStatus[target] = "AVAILABLE"
        /\ seatStatus' = [seatStatus EXCEPT ![own] = "AVAILABLE", ![target] = "BOOKED"]
        /\ seatBooking' = [seatBooking EXCEPT ![own] = NoBooking, ![target] = b]
        /\ paxSeat' = [paxSeat EXCEPT ![b] = [@ EXCEPT ![i] = target]]
        /\ UNCHANGED status
    BY <1>1, <1>5 DEF Inventory!ChangeSeat, Inventory!CanChangeSeat
  <2>2. seatBooking[own] = b
    <3>1. own # NoSeat /\ status[b] \in ActiveStatuses
      BY <2>1, SeatsAssumption DEF ActiveStatuses
    <3> QED
      BY <3>1 DEF SeatedInv
  <2> HIDE DEF own
  <2>3. ASSUME NEW c \in Bookings, status[c] \in ActiveStatuses, NEW j \in Positions,
               paxSeat[c][j] # NoSeat, c # b \/ j # i
        PROVE  paxSeat[c][j] # own /\ paxSeat[c][j] # target /\ paxSeat[c][j] \in Seats
    BY <1>1, <2>1, <2>2, <2>3 DEF SeatedInv, own
  <2>s. status' = status
    BY <2>1
  <2> SUFFICES ASSUME NEW c \in Bookings, status[c] \in ActiveStatuses
               PROVE  /\ \A k, j \in Positions : k # j /\ paxSeat'[c][k] # NoSeat => paxSeat'[c][k] # paxSeat'[c][j]
                      /\ \A k \in Positions : paxSeat'[c][k] # NoSeat =>
                           /\ seatBooking'[paxSeat'[c][k]] = c
                           /\ seatStatus'[paxSeat'[c][k]] = (IF status[c] = "HELD" THEN "HELD" ELSE "BOOKED")
    BY <2>s DEF SeatedInv
  <2>4. CASE c # b
    <3>1. paxSeat'[c] = paxSeat[c]
      BY <1>1, <2>1, <2>4
    <3> QED
      BY <1>1, <2>1, <2>3, <2>4, <3>1 DEF SeatedInv, TableTypes
  <2>5. CASE c = b
    <3>1. paxSeat'[c] = [paxSeat[c] EXCEPT ![i] = target]
      BY <1>1, <2>1, <2>5
    <3>2. \A j \in Positions : paxSeat'[c][j] = IF j = i THEN target ELSE paxSeat[c][j]
      BY <1>1, <3>1
    <3>3. ASSUME NEW j \in Positions, j # i, paxSeat[c][j] # NoSeat
          PROVE  /\ paxSeat[c][j] # target
                 /\ seatBooking'[paxSeat[c][j]] = c /\ seatStatus'[paxSeat[c][j]] = "BOOKED"
      BY <1>1, <2>1, <2>3, <2>5, <3>3 DEF SeatedInv, TableTypes
    <3>4. seatBooking'[target] = c /\ seatStatus'[target] = "BOOKED"
      BY <1>1, <2>1, <2>5 DEF TableTypes
    <3>5. \A k, j \in Positions : k # j /\ paxSeat'[c][k] # NoSeat => paxSeat'[c][k] # paxSeat'[c][j]
      BY <2>5, <3>2, <3>3, SeatsAssumption DEF SeatedInv
    <3>6. status[c] = "CONFIRMED"
      BY <2>1, <2>5
    <3>7. ASSUME NEW k \in Positions, paxSeat'[c][k] # NoSeat
          PROVE  seatBooking'[paxSeat'[c][k]] = c /\ seatStatus'[paxSeat'[c][k]] = "BOOKED"
      <4>1. CASE k = i
        BY <3>2, <3>4, <4>1
      <4>2. CASE k # i
        BY <3>2, <3>3, <3>7, <4>2
      <4> QED
        BY <4>1, <4>2
    <3> QED
      BY <3>5, <3>6, <3>7
  <2> QED
    BY <2>4, <2>5
<1>6. CASE Inventory!HoldStep
  <2>1. PICK b \in Bookings, f \in Flights, t \in Inventory!Instants, party \in Inventory!Parties :
          Inventory!HoldChosenSeats(b, f, party, t) \/ Inventory!HoldAutoSeats(b, f, party, t)
    BY <1>6 DEF Inventory!HoldStep
  <2> QED
    BY <1>2, <2>1 DEF Inventory!HoldChosenSeats, Inventory!HoldAutoSeats
<1>7. ASSUME NEW b \in Bookings, NEW t, Inventory!Cancel(b, t) PROVE SeatedInv'
  <2>1. \A c \in Bookings : status'[c] = IF c \in {b} THEN "CANCELLED" ELSE status[c]
    BY <1>1, <1>7 DEF Inventory!Cancel, TableTypes
  <2> QED
    BY <1>4, <1>7, <2>1 DEF Inventory!Cancel, Inventory!ReleaseSeatsOf
<1>8. CASE Inventory!ExpirySweep
  <2>1. PICK due \in SUBSET Bookings, t \in Inventory!Instants : Inventory!ExpireDueHolds(due, t)
    BY <1>8 DEF Inventory!ExpirySweep
  <2>2. \A c \in Bookings : status'[c] = IF c \in due THEN "EXPIRED" ELSE status[c]
    BY <2>1 DEF Inventory!ExpireDueHolds
  <2> QED
    BY <1>4, <2>1, <2>2 DEF Inventory!ExpireDueHolds, Inventory!ReleaseSeatsOf
<1>9. CASE UNCHANGED <<status, paxSeat, seatStatus, seatBooking>>
  BY <1>9 DEF SeatedInv
<1>10. ASSUME NEW p \in Requests, CancelsLate(p) PROVE SeatedInv'
  <2> DEFINE b == req[p].b
  <2>1. PICK freed \in SUBSET Inventory!HeldBy(b) :
          /\ status' = [status EXCEPT ![b] = "CANCELLED"]
          /\ seatStatus' = [s \in Seats |-> IF s \in freed THEN "AVAILABLE" ELSE seatStatus[s]]
          /\ seatBooking' = [s \in Seats |-> IF s \in freed THEN NoBooking ELSE seatBooking[s]]
          /\ UNCHANGED paxSeat
    BY <1>10 DEF CancelsLate, CancelLeavingSeats
  <2>2. \A c \in Bookings : status'[c] = IF c \in {b} THEN "CANCELLED" ELSE status[c]
    BY <1>1, <2>1 DEF TableTypes
  <2>3. \A s \in Seats : seatBooking[s] \notin {b} => s \notin freed
    BY DEF Inventory!HeldBy
  <2> QED
    BY <1>4, <2>1, <2>2, <2>3
<1> QED
  BY <1>1, <1>3, <1>5, <1>6, <1>7, <1>8, <1>9, <1>10
  DEF Inventory!Next, Inventory!vars, Inventory!Tick, Inventory!OpenFlight

ThrowInv == SeatedInv /\ DOMAIN outcome = Txs

\* A cancel that finds its booking cancellable when it looks for the reason is late.
LEMMA CancelThrowsLate ==
  ASSUME TxInv, ViewInv, NEW p \in Txs, CancelClassify(p), Threw(p), ~Refused(p)
  PROVE  PaidAfterLapse(p)
<1> DEFINE b == req[p].b
<1>1. /\ b \in Bookings /\ status[b] # "NONE" /\ pc[p] = "classify" /\ req[p].kind = "cancel"
      /\ ClassifyNotCancelled(status[b], holdExpiresAt[b], DepartureOf(b), req[p].t) = "threw"
  BY DEF CancelClassify, At, ViewInv, Args, UnderWay, TxInv, RequestInv
<1>2. /\ Lapsed(p) \/ ~CancelMatches(p)
      /\ status[b] \in BookingStatuses /\ holdExpiresAt[b] \in Nat /\ req[p].t \in Nat
  BY <1>1 DEF ViewInv, View, CancelView, TableTypes, Args, UnderWay
<1> QED
  BY <1>1, <1>2 DEF CancelMatches, Lapsed, PaidAfterLapse, Cancellable, ClassifyNotCancelled,
     EffectiveBookingStatus, IsHoldLapsed, BookingStatuses

\* The passenger's seat a change is to give back is the booking's.
LEMMA ChangesDoNotThrow ==
  ASSUME TxInv, ViewInv, ThrowInv, NEW p \in Txs, ChangeCommit(p)
  PROVE  Refused(p) \/ Committed(p)
<1>1. /\ req[p].b \in Bookings /\ req[p].i \in Positions /\ status[req[p].b] = "CONFIRMED"
      /\ paxSeat[req[p].b][req[p].i] # NoSeat
  BY DEF ChangeCommit, At, ViewInv, View, ChangeView, UnderWay, TxInv, RequestInv
<1>2. OwnsItsSeat(req[p].b, paxSeat[req[p].b][req[p].i])
  BY <1>1 DEF ThrowInv, SeatedInv, ActiveStatuses, OwnsItsSeat
<1> QED
  BY <1>2 DEF ChangeCommit

Told == {"ok", "refused", "aborted"}

LEMMA WhoEnds ==
  ASSUME [Next]_vars, outcome' # outcome
  PROVE  \E p \in Txs :
           \/ \E next : \E result \in Told : End(p, next, result)
           \/ Threw(p) /\ ~Refused(p) /\ (CancelClassify(p) \/ ChangeCommit(p))
<1>1. PICK p \in Txs : Step(p) \/ Abort(p)
  BY DEF Next, vars, local, Tick, OpenFlight, Begin, StartSweep
<1>2. CASE Refused(p) \/ Committed(p) \/ Abort(p) \/ ExpireCommit(p)
  <2>1. {"ok", "refused", "aborted"} = Told
    BY DEF Told
  <2> QED
    BY <1>2, <2>1 DEF Refused, Committed, Abort, ExpireCommit
<1>3. CASE \/ LockSeat(p) \/ LockOrSkipSeat(p) \/ CancelPrelockScan(p)
           \/ CancelPrelock(p) \/ CancelLock(p) \/ ExpireScan(p)
  BY <1>3 DEF LockSeat, LockOrSkipSeat, CancelPrelockScan, CancelPrelock, CancelLock, ExpireScan
<1>4. CASE HoldScan(p) \/ ConfirmScan(p) \/ ConfirmLock(p) \/ CancelScan(p) \/ ChangeLock(p)
  BY <1>2, <1>4 DEF HoldScan, ConfirmScan, ConfirmLock, CancelScan, ChangeLock
<1>5. CASE HoldChosen(p) \/ HoldAuto(p) \/ ConfirmCommit(p) \/ CancelCommit(p)
  BY <1>2, <1>5 DEF HoldChosen, HoldAuto, ConfirmCommit, CancelCommit
<1>6. CASE CancelClassify(p) \/ ChangeCommit(p)
  <2>1. Refused(p) \/ Threw(p) \/ Committed(p)
    BY <1>6 DEF CancelClassify, ChangeCommit
  <2> QED
    BY <1>2, <1>6, <2>1
<1> QED
  BY <1>1, <1>2, <1>3, <1>4, <1>5, <1>6 DEF Step

LEMMA ThrowStep ==
  ASSUME TxInv, ViewInv, ThrowInv, [Next]_vars
  PROVE  ThrowInv'
<1>1. SeatedInv'
  BY StepCommits, StepsKeepSeated DEF ThrowInv
<1>2. DOMAIN outcome' = Txs
  BY WhoEnds DEF End, Threw, ThrowInv
<1> QED
  BY <1>1, <1>2 DEF ThrowInv

LEMMA ThrowsLate ==
  ASSUME TxInv, ViewInv, ThrowInv, [Next]_vars,
         NEW p \in Requests, outcome'[p] = "threw", outcome[p] # "threw"
  PROVE  At(p, "classify", {"cancel"}) /\ PaidAfterLapse(p)
<1>1. p \in Txs /\ DOMAIN outcome = Txs /\ outcome' # outcome
  BY DEF ThrowInv, Txs
<1>2. PICK q \in Txs :
        \/ \E next : \E result \in Told : End(q, next, result)
        \/ Threw(q) /\ ~Refused(q) /\ (CancelClassify(q) \/ ChangeCommit(q))
  BY <1>1, WhoEnds
<1>3. \A next, result : End(q, next, result) => q = p /\ result = "threw"
  BY <1>1 DEF End
<1>4. q = p /\ Threw(p) /\ ~Refused(p) /\ (CancelClassify(p) \/ ChangeCommit(p))
  BY <1>2, <1>3 DEF Told, Threw
<1>5. ~Committed(p)
  BY <1>3, <1>4 DEF Committed
<1>6. CancelClassify(p)
  BY <1>1, <1>4, <1>5, ChangesDoNotThrow
<1> QED
  BY <1>1, <1>4, <1>6, CancelThrowsLate DEF CancelClassify

\* No seat change throws, and a cancel only if its booking was paid after it had read the clock
\* past the deadline (ThrowsOnlyIfPaidAfterLapse).
THEOREM OnlyLateCancelsThrow == Spec => ThrowsOnlyIfPaidAfterLapse
<1>1. Init => ThrowInv
  BY DEF Init, Inventory!Init, ThrowInv, SeatedInv, ActiveStatuses
<1>2. TxInv /\ ViewInv /\ ThrowInv /\ [Next]_vars => ThrowInv'
  BY ThrowStep
<1>3. TxInv /\ ViewInv /\ ThrowInv /\ [Next]_vars =>
        [\A p \in Requests : outcome'[p] = "threw" /\ outcome[p] # "threw" =>
           At(p, "classify", {"cancel"}) /\ PaidAfterLapse(p)]_vars
  BY ThrowsLate
<1> QED
  BY <1>1, <1>2, <1>3, AlwaysViewInv, PTL DEF Spec, ThrowsOnlyIfPaidAfterLapse
===============================================================================

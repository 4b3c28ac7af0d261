-------------------------- MODULE DevicePoolProofs --------------------------
(***************************************************************************)
(* For any devices, clients, filters and strategy: the reservations follow *)
(* the list of devices, a device has one holder whose hold nobody ended,   *)
(* and round robin takes turns.                                            *)
(***************************************************************************)
EXTENDS DevicePool, Integers, SequenceTheorems, TLAPS

\* Where a member is in the list.
LEMMA PositionIsThere ==
  ASSUME TypeOK, NEW d \in Members
  PROVE  Position(d) \in 1..Len(devices) /\ devices[Position(d)] = d
<1>1. \E i \in 1..Len(devices) : devices[i] = d
  BY DEF TypeOK, Members, Range
<1> QED BY <1>1 DEF Position

\* A device added to the list is its last, and a new one.
LEMMA AddedToList ==
  ASSUME TypeOK, IsInjective(devices), NEW d \in Device \ Members,
         devices' = Append(devices, d)
  PROVE  /\ devices' \in Seq(Device)
         /\ Members' = Members \cup {d}
         /\ IsInjective(devices)'
<1>1. devices \in Seq(Device)
  BY DEF TypeOK
<1>2. devices' \in Seq(Device) /\ Len(devices') = Len(devices) + 1
  BY <1>1
<1>3. /\ \A i \in 1..Len(devices) : devices'[i] = devices[i]
      /\ devices'[Len(devices) + 1] = d
      /\ Len(devices) \in Nat
  BY <1>1
<1>4. \A i \in 1..Len(devices) : devices[i] # d
  BY <1>1 DEF Members, Range
<1>5. Members' = Members \cup {d}
  BY <1>1, <1>2, <1>3 DEF Members, Range
<1>6. IsInjective(devices)'
  BY <1>1, <1>2, <1>3, <1>4 DEF IsInjective
<1> QED BY <1>2, <1>5, <1>6

\* A device taken from the list is in it no more, and the others are: those after
\* it have moved up.
LEMMA TakenFromList ==
  ASSUME TypeOK, IsInjective(devices), NEW d \in Members,
         devices' = RemoveAt(devices, Position(d))
  PROVE  /\ devices' \in Seq(Device)
         /\ Members' = Members \ {d}
         /\ IsInjective(devices)'
         /\ Len(devices') = Len(devices) - 1
         /\ \A e \in Members \ {d} :
              /\ Position(e) # Position(d)
              /\ Position(e)' = IF Position(e) < Position(d) THEN Position(e) ELSE Position(e) - 1
<1> DEFINE p == Position(d)
           n == Len(devices)
           A == SubSeq(devices, 1, p - 1)
           B == SubSeq(devices, p + 1, n)
<1>1. devices \in Seq(Device) /\ n \in Nat
  BY DEF TypeOK
<1>2. p \in 1..n /\ devices[p] = d
  BY PositionIsThere
<1>3. A \in Seq(Device) /\ Len(A) = p - 1 /\ \A i \in 1..(p - 1) : A[i] = devices[i]
  BY <1>1, <1>2
<1>4. /\ B \in Seq(Device) /\ Len(B) = n - p
      /\ \A i \in 1..(n - p) : B[i] = devices[p + i]
  BY <1>1, <1>2
<1>5. devices' = A \o B
  BY DEF RemoveAt
<1> HIDE DEF p, n, A, B
<1>6. /\ devices' \in Seq(Device)
      /\ Len(devices') = n - 1
      /\ \A i \in 1..(n - 1) : devices'[i] = IF i < p THEN devices[i] ELSE devices[i + 1]
  <2>1. /\ devices' \in Seq(Device)
        /\ Len(devices') = Len(A) + Len(B)
        /\ \A i \in 1..(Len(A) + Len(B)) :
             devices'[i] = IF i <= Len(A) THEN A[i] ELSE B[i - Len(A)]
    BY <1>3, <1>4, <1>5, ConcatProperties
  <2>2. Len(A) + Len(B) = n - 1
    BY <1>1, <1>2, <1>3, <1>4
  <2>3. ASSUME NEW i \in 1..(n - 1), i < p PROVE devices'[i] = devices[i]
    <3>1. i \in 1..(p - 1) /\ i <= Len(A)
      BY <2>3, <1>1, <1>2, <1>3
    <3> QED BY <2>1, <2>2, <3>1, <1>3
  <2>4. ASSUME NEW i \in 1..(n - 1), ~(i < p) PROVE devices'[i] = devices[i + 1]
    <3>1. /\ i - (p - 1) \in 1..(n - p) /\ p + (i - (p - 1)) = i + 1
          /\ ~(i <= Len(A)) /\ Len(A) = p - 1
      BY <2>4, <1>1, <1>2, <1>3
    <3> QED BY <2>1, <2>2, <3>1, <1>4
  <2> QED BY <2>1, <2>2, <2>3, <2>4
<1>7. \A i, j \in 1..n : devices[i] = devices[j] => i = j
  BY <1>1 DEF IsInjective, n
<1>8. \A i \in 1..(n - 1) :
        \E k \in 1..n : k # p /\ devices'[i] = devices[k] /\ i = IF k < p THEN k ELSE k - 1
  <2>1. ASSUME NEW i \in 1..(n - 1), i < p
        PROVE  i \in 1..n /\ i # p /\ devices'[i] = devices[i]
    BY <2>1, <1>1, <1>2, <1>6
  <2>2. ASSUME NEW i \in 1..(n - 1), ~(i < p)
        PROVE  /\ i + 1 \in 1..n /\ i + 1 # p /\ ~(i + 1 < p) /\ (i + 1) - 1 = i
               /\ devices'[i] = devices[i + 1]
    BY <2>2, <1>1, <1>2, <1>6
  <2> QED BY <2>1, <2>2
<1>9. \A k \in 1..n : k # p => LET i == IF k < p THEN k ELSE k - 1
                                IN  i \in 1..(n - 1) /\ devices'[i] = devices[k]
  <2>1. ASSUME NEW k \in 1..n, k < p
        PROVE  k \in 1..(n - 1) /\ devices'[k] = devices[k]
    BY <2>1, <1>1, <1>2, <1>6
  <2>2. ASSUME NEW k \in 1..n, k > p
        PROVE  k - 1 \in 1..(n - 1) /\ devices'[k - 1] = devices[k]
    <3>1. k - 1 \in 1..(n - 1) /\ ~(k - 1 < p) /\ (k - 1) + 1 = k
      BY <2>2, <1>1, <1>2
    <3> QED BY <3>1, <1>6
  <2> QED BY <2>1, <2>2, <1>1, <1>2
<1>10. Members = {devices[k] : k \in 1..n} /\ Members' = {devices'[i] : i \in 1..(n - 1)}
  BY <1>1, <1>6 DEF Members, Range, n
<1>11. Members' = Members \ {d}
  <2>1. \A k \in 1..n : k # p => devices[k] # d
    BY <1>2, <1>7
  <2>2. ASSUME NEW m \in Members' PROVE m \in Members \ {d}
    BY <1>8, <1>10, <2>1
  <2>3. ASSUME NEW m \in Members \ {d} PROVE m \in Members'
    BY <1>2, <1>9, <1>10
  <2> QED BY <2>2, <2>3
<1>12. IsInjective(devices)'
  <2>1. ASSUME NEW i \in 1..(n - 1), NEW j \in 1..(n - 1), devices'[i] = devices'[j]
        PROVE  i = j
    <3>1. PICK k \in 1..n : devices'[i] = devices[k] /\ i = IF k < p THEN k ELSE k - 1
      BY <1>8
    <3>2. PICK l \in 1..n : devices'[j] = devices[l] /\ j = IF l < p THEN l ELSE l - 1
      BY <1>8
    <3>3. k = l
      BY <2>1, <3>1, <3>2, <1>7
    <3> QED BY <3>1, <3>2, <3>3
  <2>2. DOMAIN devices' = 1..(n - 1)
    BY <1>1, <1>6
  <2> QED BY <2>1, <2>2 DEF IsInjective
<1>13. ASSUME NEW e \in Members \ {d}
       PROVE  /\ Position(e) # p
              /\ Position(e)' = IF Position(e) < p THEN Position(e) ELSE Position(e) - 1
  <2> DEFINE k == Position(e)
             i == IF k < p THEN k ELSE k - 1
  <2>1. k \in 1..n /\ devices[k] = e
    BY PositionIsThere DEF n
  <2>2. k # p
    BY <1>2, <2>1
  <2>3. i \in 1..(n - 1) /\ devices'[i] = e
    BY <1>9, <2>1, <2>2
  <2> HIDE DEF k, i
  <2>4. DOMAIN devices' = 1..(n - 1) /\ Len(devices') = n - 1
    BY <1>1, <1>6
  <2>5. \A j \in 1..(n - 1) : devices'[j] = e => j = i
    BY <1>12, <2>3, <2>4 DEF IsInjective
  <2>6. Position(e)' = i
    BY <2>3, <2>4, <2>5 DEF Position
  <2> QED BY <2>2, <2>6 DEF k, i
<1> QED BY <1>6, <1>11, <1>12, <1>13 DEF p, n
-----------------------------------------------------------------------------
\* The initial pool is empty.
LEMMA InitPool == Init => PoolInv
<1> SUFFICES ASSUME Init PROVE PoolInv
  OBVIOUS
<1>1. TypeOK
  <2>1. devices \in Seq(Device)
    BY DEF Init
  <2> QED BY <2>1 DEF Init, TypeOK, Status
<1>2. IsInjective(devices)
  BY DEF Init, IsInjective
<1>3. \A d \in Device : Holders(d) = {}
  BY DEF Init, Holders
<1>4. reserved = {}
  BY DEF Init
<1> QED BY <1>1, <1>2, <1>3, <1>4 DEF PoolInv, Reservations, OneHolder

\* Adding, removing, acquiring and releasing keep the books of the pool.
LEMMA AddKeeps ==
  ASSUME PoolInv, NEW d \in Device, NEW r \in Reported, AddDevice(d, r)
  PROVE  PoolInv'
<1>1. d \in Device \ Members
  BY DEF AddDevice
<1>2. /\ devices' \in Seq(Device)
      /\ Members' = Members \cup {d}
      /\ IsInjective(devices)'
  BY <1>1, AddedToList DEF PoolInv, Reservations, AddDevice
<1>3. TypeOK'
  <2>1. StatusOf(r) \in Status
    BY DEF StatusOf, Status
  <2> QED BY <1>2, <2>1 DEF PoolInv, TypeOK, AddDevice
<1>4. Holders(d) \ revoked[d] = {}
  BY <1>1 DEF PoolInv, Reservations
<1>5. \A e \in Device : Holders(e)' = Holders(e) /\ revoked'[e] = revoked[e]
  BY DEF AddDevice, Holders
<1>6. Reservations'
  <2>1. reserved' \subseteq Members'
    BY <1>2 DEF PoolInv, Reservations, AddDevice
  <2>2. ASSUME NEW e \in Device, Holders(e)' \ revoked'[e] # {}
        PROVE  e \in reserved' /\ status'[e] = "busy"
    <3>1. e # d /\ e \in reserved /\ status[e] = "busy"
      BY <1>4, <1>5, <2>2 DEF PoolInv, Reservations
    <3> QED BY <3>1 DEF AddDevice, PoolInv, TypeOK
  <2> QED BY <1>2, <2>1, <2>2 DEF Reservations
<1>7. OneHolder'
  BY <1>5 DEF PoolInv, OneHolder
<1> QED BY <1>3, <1>6, <1>7 DEF PoolInv

LEMMA RemoveKeeps ==
  ASSUME PoolInv, NEW d \in Device, RemoveDevice(d)
  PROVE  PoolInv'
<1>1. /\ devices' \in Seq(Device)
      /\ Members' = Members \ {d}
      /\ IsInjective(devices)'
  BY TakenFromList DEF PoolInv, Reservations, RemoveDevice
<1>2. \A e \in Device : /\ Holders(e)' = Holders(e) /\ Holders(e) \subseteq Client
                        /\ revoked'[e] = IF e = d THEN Holders(d) ELSE revoked[e]
  BY DEF RemoveDevice, Holders, PoolInv, TypeOK
<1>3. TypeOK'
  <2>1. revoked' \in [Device -> SUBSET Client]
    BY <1>2 DEF RemoveDevice, PoolInv, TypeOK
  <2>2. overdue' \in [Device -> SUBSET Device]
    BY DEF RemoveDevice, PoolInv, TypeOK
  <2> QED BY <1>1, <2>1, <2>2 DEF PoolInv, TypeOK, RemoveDevice
<1>4. Reservations'
  <2>1. reserved' \subseteq Members'
    BY <1>1 DEF PoolInv, Reservations, RemoveDevice
  <2>2. ASSUME NEW e \in Device, Holders(e)' \ revoked'[e] # {}
        PROVE  e \in reserved' /\ status'[e] = "busy"
    <3>1. e # d /\ e \in reserved /\ status[e] = "busy"
      BY <1>2, <2>2 DEF PoolInv, Reservations
    <3> QED BY <3>1 DEF RemoveDevice
  <2> QED BY <1>1, <2>1, <2>2 DEF Reservations
<1>5. OneHolder'
  BY <1>2 DEF PoolInv, OneHolder
<1> QED BY <1>3, <1>4, <1>5 DEF PoolInv

LEMMA AcquireKeeps ==
  ASSUME PoolInv, NEW c \in Client, NEW S \in Filters, AcquireDevice(c, S)
  PROVE  PoolInv'
<1>1. PICK d \in Device :
        /\ d \in Members \ reserved
        /\ reserved' = reserved \cup {d}
        /\ status' = [status EXCEPT ![d] = "busy"]
        /\ last' = IF Strategy = "round_robin" THEN Position(d) - 1 ELSE last
        /\ held' = [held EXCEPT ![c] = @ \cup {d}]
        /\ revoked' = [revoked EXCEPT ![d] = @ \ {c}]
        /\ overdue' = [e \in Device |-> IF e = d THEN Candidates(S) \ {d}
                                        ELSE (overdue[e] \cap Candidates(S)) \ {d}]
        /\ UNCHANGED devices
  BY DEF AcquireDevice, Picks, Candidates
<1>2. Members' = Members /\ Members \subseteq Device
  BY <1>1 DEF Members, Range, PoolInv, TypeOK
<1>3. TypeOK'
  <2>1. Position(d) - 1 \in Nat
    BY <1>1, PositionIsThere DEF PoolInv, TypeOK
  <2>2. last' \in Nat
    BY <1>1, <2>1 DEF PoolInv, TypeOK
  <2>3. overdue' \in [Device -> SUBSET Device]
    BY <1>1, <1>2 DEF Candidates
  <2>4. revoked' \in [Device -> SUBSET Client]
    BY <1>1 DEF PoolInv, TypeOK
  <2> QED BY <1>1, <2>2, <2>3, <2>4 DEF PoolInv, TypeOK, Status
<1>4. Holders(d) \subseteq revoked[d]
  BY <1>1 DEF PoolInv, Reservations
<1>5. /\ Holders(d)' = Holders(d) \cup {c} /\ revoked'[d] = revoked[d] \ {c}
      /\ \A e \in Device \ {d} : Holders(e)' = Holders(e) /\ revoked'[e] = revoked[e]
  BY <1>1 DEF PoolInv, TypeOK, Holders
<1>6. Reservations'
  <2>1. ASSUME NEW e \in Device, Holders(e)' \ revoked'[e] # {}
        PROVE  e \in reserved' /\ status'[e] = "busy"
    BY <1>1, <1>5, <2>1 DEF PoolInv, Reservations, TypeOK
  <2> QED BY <1>1, <1>2, <2>1 DEF PoolInv, Reservations
<1>7. OneHolder'
  BY <1>4, <1>5 DEF PoolInv, OneHolder
<1> QED BY <1>3, <1>6, <1>7 DEF PoolInv

LEMMA ReleaseKeeps ==
  ASSUME PoolInv, NEW c \in Client, NEW d \in Device, ReleaseDevice(c, d)
  PROVE  PoolInv'
<1>1. Members' = Members
  BY DEF ReleaseDevice, Members
<1>2. /\ Holders(d)' = Holders(d) \ {c} /\ revoked'[d] = Holders(d) \ {c}
      /\ \A e \in Device \ {d} : Holders(e)' = Holders(e) /\ revoked'[e] = revoked[e]
  BY DEF PoolInv, TypeOK, Holders, ReleaseDevice
<1>3. TypeOK'
  <2>1. revoked' \in [Device -> SUBSET Client]
    BY DEF PoolInv, TypeOK, ReleaseDevice, Holders
  <2> QED BY <2>1 DEF PoolInv, TypeOK, ReleaseDevice, Status
<1>4. Reservations'
  <2>1. reserved' \subseteq Members'
    BY <1>1 DEF PoolInv, Reservations, ReleaseDevice
  <2>2. ASSUME NEW e \in Device, Holders(e)' \ revoked'[e] # {}
        PROVE  e \in reserved' /\ status'[e] = "busy"
    <3>1. e # d /\ e \in reserved /\ status[e] = "busy"
      BY <1>2, <2>2 DEF PoolInv, Reservations
    <3> QED BY <3>1 DEF PoolInv, TypeOK, ReleaseDevice
  <2> QED BY <2>1, <2>2 DEF PoolInv, Reservations, ReleaseDevice
<1>5. OneHolder'
  BY <1>2 DEF PoolInv, OneHolder
<1> QED BY <1>3, <1>4, <1>5 DEF PoolInv

\* The books of the pool are in order in every state: types, reservations, and
\* one holder (device_pool.py:45).
THEOREM PoolKeepsBooks == Spec => []PoolInv
<1>1. Init => PoolInv
  BY InitPool
<1>2. PoolInv /\ [Next]_vars => PoolInv'
  <2> SUFFICES ASSUME PoolInv, [Next]_vars PROVE PoolInv'
    OBVIOUS
  <2>1. CASE UNCHANGED vars
    BY <2>1 DEF vars, PoolInv, TypeOK, Reservations, OneHolder, Members, Holders
  <2>2. ASSUME NEW d \in Device, NEW r \in Reported, AddDevice(d, r) PROVE PoolInv'
    BY <2>2, AddKeeps
  <2>3. ASSUME NEW d \in Device, RemoveDevice(d) PROVE PoolInv'
    BY <2>3, RemoveKeeps
  <2>4. ASSUME NEW c \in Client, NEW S \in Filters, AcquireDevice(c, S) PROVE PoolInv'
    BY <2>4, AcquireKeeps
  <2>5. ASSUME NEW c \in Client, NEW d \in Device, ReleaseDevice(c, d) PROVE PoolInv'
    BY <2>5, ReleaseKeeps
  <2> QED BY <2>1, <2>2, <2>3, <2>4, <2>5 DEF Next
<1> QED BY <1>1, <1>2, PTL DEF Spec

\* Of two clients that hold one device, one lost its hold to another's release
\* or to a removal of the device, whatever else they do.
THEOREM OneHolderAlways == Spec => []OneHolder
<1>1. PoolInv => OneHolder
  BY DEF PoolInv
<1> QED BY <1>1, PoolKeepsBooks, PTL

-----------------------------------------------------------------------------
\* k places on from l, round a list of n.
Onward(l, k, n) == (l + k) % n

LEMMA OnceRound ==
  ASSUME NEW n \in Nat \ {0}, NEW l \in 0..(n - 1), NEW k \in 0..n
  PROVE  Onward(l, k, n) = IF l + k < n THEN l + k ELSE l + k - n
<1> DEFINE a == l + k
<1>1. a \in 0..(2 * n - 1)
  OBVIOUS
<1> HIDE DEF a
<1>2. CASE a < n
  <2>1. a \in 0..(n - 1)
    BY <1>1, <1>2
  <2>2. a % n = a
    BY <2>1
  <2> QED BY <1>2, <2>2 DEF a, Onward
<1>3. CASE ~(a < n)
  <2>1. a \in n..(2 * n - 1)
    BY <1>1, <1>3
  <2>2. a % n = a - n
    BY <2>1
  <2> QED BY <1>3, <2>2 DEF a, Onward
<1> QED BY <1>2, <1>3

\* Going on from l without meeting q, which lies ahead of p, stays ahead of p
\* and does not come to p again.
LEMMA PassesNobody ==
  ASSUME NEW n \in Nat \ {0}, NEW p \in 0..(n - 1), NEW l \in 0..(n - 1),
         NEW q \in 0..(n - 1), Between(p, l, q), NEW k \in 1..n,
         \A j \in 1..k : Onward(l, j, n) # q
  PROVE  Between(p, Onward(l, k, n), q) /\ Onward(l, k, n) # p
<1>1. q # l /\ q # p
  BY DEF Between
<1>2. Onward(l, k, n) = IF l + k < n THEN l + k ELSE l + k - n
  BY OnceRound
<1>3. CASE q > l
  <2>1. q - l \in 1..n /\ l + (q - l) = q /\ q < n
    BY <1>3
  <2>2. Onward(l, q - l, n) = q
    BY <2>1, OnceRound
  <2>3. q - l \notin 1..k
    BY <2>2
  <2> QED BY <1>2, <1>3, <2>1, <2>3 DEF Between
<1>4. CASE q < l
  <2>1. q + n - l \in 1..n /\ l + (q + n - l) = q + n
    BY <1>4
  <2>2. Onward(l, q + n - l, n) = q
    BY <2>1, OnceRound
  <2>3. q + n - l \notin 1..k
    BY <2>2
  <2> QED BY <1>2, <1>4, <2>1, <2>3 DEF Between
<1> QED BY <1>1, <1>3, <1>4

\* A place in the list is the position of what is there, and adding a device
\* moves no member.
LEMMA PlaceIsPosition ==
  ASSUME TypeOK, IsInjective(devices), NEW i \in 1..Len(devices)
  PROVE  devices[i] \in Members /\ Position(devices[i]) = i
<1>1. devices[i] \in Members /\ DOMAIN devices = 1..Len(devices)
  BY DEF TypeOK, Members, Range
<1>2. Position(devices[i]) \in 1..Len(devices) /\ devices[Position(devices[i])] = devices[i]
  BY <1>1, PositionIsThere
<1> QED BY <1>1, <1>2 DEF IsInjective

LEMMA AddMovesNobody ==
  ASSUME PoolInv, PoolInv', NEW d \in Device, devices' = Append(devices, d)
  PROVE  /\ Len(devices') = Len(devices) + 1
         /\ \A e \in Members : e \in Members' /\ Position(e)' = Position(e)
<1>1. devices \in Seq(Device) /\ Len(devices) \in Nat
  BY DEF PoolInv, TypeOK
<1>2. /\ Len(devices') = Len(devices) + 1
      /\ \A i \in 1..Len(devices) : devices'[i] = devices[i]
  BY <1>1, AppendProperties
<1>3. ASSUME NEW e \in Members PROVE e \in Members' /\ Position(e)' = Position(e)
  <2>1. Position(e) \in 1..Len(devices') /\ devices'[Position(e)] = e
    BY <1>1, <1>2, PositionIsThere DEF PoolInv
  <2>2. \A i \in 1..Len(devices') : devices'[i] = e => i = Position(e)
    BY <1>1, <1>2, <2>1 DEF PoolInv, Reservations, TypeOK, IsInjective
  <2>3. Position(e)' = Position(e)
    BY <2>1, <2>2 DEF Position
  <2>4. e \in Members'
    BY <1>1, <1>2, <2>1 DEF Members, Range, PoolInv, TypeOK
  <2> QED BY <2>3, <2>4
<1> QED BY <1>2, <1>3

(***************************************************************************)
(* An acquisition that passes a candidate over does not go past it: the    *)
(* search of _acquire_round_robin takes the first candidate it meets.      *)
(***************************************************************************)
LEMMA NextInTurn ==
  ASSUME PoolInv, OverdueIsAhead, Strategy = "round_robin", NEW S \in Filters,
         NEW f \in Device, Picks(S, f),
         NEW d \in Device, NEW e \in overdue[d] \cap Candidates(S), e # f
  PROVE  Between(Position(d) - 1, Position(f) - 1, Position(e) - 1) /\ d # f
<1> DEFINE n == Len(devices)
           At(k) == Onward(last, k, n)
<1>1. TypeOK /\ IsInjective(devices) /\ last \in Nat /\ n \in Nat
  BY DEF PoolInv, Reservations, TypeOK
<1>2. /\ {d, e} \subseteq Members /\ last < n
      /\ Between(Position(d) - 1, last, Position(e) - 1)
  BY DEF OverdueIsAhead
<1>3. Position(d) \in 1..n /\ Position(e) \in 1..n /\ devices[Position(e)] = e
  BY <1>1, <1>2, PositionIsThere
<1>4. n \in Nat \ {0} /\ last \in 0..(n - 1)
  BY <1>1, <1>2
<1>5. PICK k \in 1..n : After(k) = f /\ \A j \in 1..(k - 1) : After(j) \notin Candidates(S)
  BY DEF Picks, InTurn
<1> HIDE DEF n
<1>6. ASSUME NEW j \in 1..n PROVE At(j) \in 0..(n - 1) /\ After(j) = devices[At(j) + 1]
  <2>1. At(j) = IF last + j < n THEN last + j ELSE last + j - n
    BY <1>4, OnceRound
  <2>2. At(j) \in 0..(n - 1)
    BY <1>4, <2>1
  <2> QED BY <2>2 DEF After, Onward, n
<1>7. ASSUME NEW j \in 1..k PROVE At(j) # Position(e) - 1
  <2>1. j \in 1..n /\ (j \in 1..(k - 1) \/ j = k)
    BY <1>4, <1>5
  <2>2. After(j) # e
    BY <1>5, <2>1
  <2> QED BY <1>3, <1>4, <1>6, <2>1, <2>2
<1>8. Position(f) = At(k) + 1
  <2>1. At(k) + 1 \in 1..n /\ devices[At(k) + 1] = f
    BY <1>4, <1>5, <1>6
  <2> QED BY <1>1, <2>1, PlaceIsPosition DEF n
<1>9. At(k) \in 0..(n - 1) /\ Position(d) - 1 \in 0..(n - 1) /\ Position(e) - 1 \in 0..(n - 1)
  BY <1>3, <1>4, <1>5, <1>6
<1>10. Between(Position(d) - 1, At(k), Position(e) - 1) /\ At(k) # Position(d) - 1
  BY <1>2, <1>4, <1>5, <1>7, <1>9, PassesNobody
<1> QED BY <1>3, <1>8, <1>9, <1>10

\* A removal takes their turn from those LoseTurn names, and from nobody else.
LEMMA RemoveKeepsTurns ==
  ASSUME PoolInv, OverdueIsAhead, Strategy = "round_robin", NEW x \in Device, RemoveDevice(x),
         NEW d \in Device, NEW e \in overdue'[d]
  PROVE  /\ {d, e} \subseteq Members' /\ last' < Len(devices')
         /\ Between(Position(d)' - 1, last', Position(e)' - 1)
<1> DEFINE n == Len(devices)
           p == Position(x)
           i == Position(d)
           j == Position(e)
<1>1. d # x /\ e \in overdue[d] \ LoseTurn(x) /\ x \in Members
  BY DEF RemoveDevice, PoolInv, TypeOK
<1>2. TypeOK /\ IsInjective(devices) /\ last \in Nat /\ n \in Nat /\ last' = last /\ e \in Device
  BY <1>1 DEF PoolInv, Reservations, TypeOK, RemoveDevice
<1>3. {d, e} \subseteq Members /\ last < n /\ Between(i - 1, last, j - 1)
  BY <1>1 DEF OverdueIsAhead
<1>4. e # x
  BY <1>1, <1>2 DEF LoseTurn
<1>5. /\ Members' = Members \ {x} /\ Len(devices') = n - 1
      /\ i # p /\ Position(d)' = IF i < p THEN i ELSE i - 1
      /\ j # p /\ Position(e)' = IF j < p THEN j ELSE j - 1
  BY <1>1, <1>2, <1>3, <1>4, TakenFromList DEF RemoveDevice
<1>6. i \in 1..n /\ j \in 1..n /\ p \in 1..n /\ devices[j] = e
  BY <1>1, <1>2, <1>3, PositionIsThere
<1>7. CASE last < p - 1
  <2> HIDE DEF n, p, i, j
  <2> QED BY <1>1, <1>2, <1>3, <1>4, <1>5, <1>6, <1>7 DEF Between
<1>8. CASE ~(last < p - 1)
  <2>1. last < n - 1 /\ e # After(1)
    BY <1>1, <1>2, <1>8 DEF LoseTurn
  <2>2. j # last + 2
    <3>1. last + 1 \in 0..(n - 1)
      BY <1>2, <2>1
    <3>2. (last + 1) % n = last + 1
      BY <1>2, <3>1
    <3>3. After(1) = devices[last + 2]
      BY <1>2, <3>2 DEF After
    <3> QED BY <1>6, <2>1, <3>3
  <2> HIDE DEF n, p, i, j
  <2> QED BY <1>1, <1>2, <1>3, <1>4, <1>5, <1>6, <1>8, <2>1, <2>2 DEF Between
<1> QED BY <1>7, <1>8

LEMMA OverdueStep ==
  ASSUME PoolInv, PoolInv', OverdueIsAhead, [Next]_vars
  PROVE  OverdueIsAhead'
<1> SUFFICES ASSUME Strategy = "round_robin", NEW d \in Device, NEW e \in overdue'[d]
             PROVE  /\ {d, e} \subseteq Members' /\ last' < Len(devices')
                    /\ Between(Position(d)' - 1, last', Position(e)' - 1)
  BY DEF OverdueIsAhead
<1>1. e \in overdue[d] =>
        /\ {d, e} \subseteq Members /\ last < Len(devices)
        /\ Between(Position(d) - 1, last, Position(e) - 1)
  BY DEF OverdueIsAhead
<1>2. ASSUME UNCHANGED <<devices, last, overdue>>
      PROVE  /\ {d, e} \subseteq Members' /\ last' < Len(devices')
             /\ Between(Position(d)' - 1, last', Position(e)' - 1)
  <2>1. Members' = Members /\ Position(d)' = Position(d) /\ Position(e)' = Position(e)
    BY <1>2 DEF Members, Position
  <2> QED BY <1>1, <1>2, <2>1
<1>3. ASSUME NEW x \in Device, NEW r \in Reported, AddDevice(x, r)
      PROVE  /\ {d, e} \subseteq Members' /\ last' < Len(devices')
             /\ Between(Position(d)' - 1, last', Position(e)' - 1)
  <2>1. devices' = Append(devices, x) /\ UNCHANGED <<last, overdue>>
    BY <1>3 DEF AddDevice
  <2>2. /\ Len(devices') = Len(devices) + 1
        /\ \A m \in Members : m \in Members' /\ Position(m)' = Position(m)
    BY <2>1, AddMovesNobody
  <2> QED BY <1>1, <2>1, <2>2 DEF PoolInv, TypeOK
<1>4. ASSUME NEW x \in Device, RemoveDevice(x)
      PROVE  /\ {d, e} \subseteq Members' /\ last' < Len(devices')
             /\ Between(Position(d)' - 1, last', Position(e)' - 1)
  BY <1>4, RemoveKeepsTurns
<1>5. ASSUME NEW c \in Client, NEW S \in Filters, AcquireDevice(c, S)
      PROVE  /\ {d, e} \subseteq Members' /\ last' < Len(devices')
             /\ Between(Position(d)' - 1, last', Position(e)' - 1)
  <2>1. PICK f \in Device :
          /\ Picks(S, f) /\ last' = Position(f) - 1 /\ UNCHANGED devices
          /\ overdue' = [x \in Device |-> IF x = f THEN Candidates(S) \ {f}
                                          ELSE (overdue[x] \cap Candidates(S)) \ {f}]
    BY <1>5 DEF AcquireDevice
  <2>2. Members' = Members /\ Position(d)' = Position(d) /\ Position(e)' = Position(e)
    BY <2>1 DEF Members, Position
  <2>3. f \in Members /\ Candidates(S) \subseteq Members /\ TypeOK /\ Len(devices) \in Nat
    BY <2>1 DEF Picks, Candidates, PoolInv, TypeOK
  <2>4. Position(f) \in 1..Len(devices) /\ devices[Position(f)] = f
    BY <2>3, PositionIsThere
  <2>5. CASE d = f
    <3>1. e \in Members /\ e # f
      BY <2>1, <2>3, <2>5
    <3>2. Position(e) \in 1..Len(devices) /\ devices[Position(e)] = e
      BY <2>3, <3>1, PositionIsThere
    <3>3. Position(e) # Position(f)
      BY <2>4, <3>1, <3>2
    <3> QED BY <2>1, <2>2, <2>3, <2>4, <2>5, <3>1, <3>2, <3>3 DEF Between
  <2>6. CASE d # f
    <3>1. e \in overdue[d] \cap Candidates(S) /\ e # f
      BY <2>1, <2>6
    <3>2. Between(Position(d) - 1, Position(f) - 1, Position(e) - 1)
      BY <2>1, <3>1, NextInTurn
    <3> QED BY <1>1, <2>1, <2>2, <2>3, <2>4, <3>1, <3>2
  <2> QED BY <2>5, <2>6
<1>6. ASSUME NEW c \in Client, NEW x \in Device, ReleaseDevice(c, x)
      PROVE  UNCHANGED <<devices, last, overdue>>
  BY <1>6 DEF ReleaseDevice
<1>7. UNCHANGED vars => UNCHANGED <<devices, last, overdue>>
  BY DEF vars
<1> QED BY <1>2, <1>3, <1>4, <1>5, <1>6, <1>7 DEF Next

(***************************************************************************)
(* Round robin takes turns, for any number of devices, clients and         *)
(* filters: nobody is handed out again while another has been a candidate  *)
(* of every acquisition since, unless a removal took its turn: LoseTurn    *)
(* names whose (_acquire_round_robin, _last_used_index).                   *)
(***************************************************************************)
THEOREM RoundRobinTakesTurns == Spec => TakesTurns
<1>1. Init => OverdueIsAhead
  BY DEF Init, OverdueIsAhead
<1>2. PoolInv /\ PoolInv' /\ OverdueIsAhead /\ [Next]_vars => OverdueIsAhead'
  BY OverdueStep
<1>3. PoolInv /\ OverdueIsAhead /\ [Next]_vars =>
        [Strategy = "round_robin" =>
           \A d \in reserved' \ reserved : overdue[d] \cap overdue'[d] = {}]_vars
  <2> SUFFICES ASSUME PoolInv, OverdueIsAhead, Next, Strategy = "round_robin",
                      NEW d \in reserved' \ reserved
               PROVE  overdue[d] \cap overdue'[d] = {}
    BY DEF vars
  <2>1. PICK a \in Client, S \in Filters : AcquireDevice(a, S)
    BY DEF Next, AddDevice, RemoveDevice, ReleaseDevice
  <2>2. PICK f \in Device :
          /\ Picks(S, f) /\ reserved' = reserved \cup {f}
          /\ overdue' = [x \in Device |-> IF x = f THEN Candidates(S) \ {f}
                                          ELSE (overdue[x] \cap Candidates(S)) \ {f}]
    BY <2>1 DEF AcquireDevice
  <2>3. d = f
    BY <2>2
  <2>4. ASSUME NEW e \in overdue[d] \cap overdue'[d] PROVE FALSE
    BY <2>2, <2>3, <2>4, NextInTurn
  <2> QED BY <2>4
<1> QED BY <1>1, <1>2, <1>3, PoolKeepsBooks, PTL DEF Spec, TakesTurns
=============================================================================

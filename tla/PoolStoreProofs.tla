-------------------------- MODULE PoolStoreProofs ---------------------------
(***************************************************************************)
(* For any number of commands, pools and devices: as long as no copy that  *)
(* was overtaken is written and no write is cut short, the file is what    *)
(* the commands have done one after the other.                             *)
(***************************************************************************)
EXTENDS PoolStore, TLAPS

LEMMA InitStore == Init => StoreInv
<1> SUFFICES ASSUME Init PROVE StoreInv
  OBVIOUS
<1>1. TypeOK
  BY DEF Init, TypeOK, Store, NoPools, Place
<1>2. \A p \in Command : ~Writing(p) /\ ~Fresh(p)
  BY DEF Init, Writing, Fresh
<1> QED BY <1>1, <1>2 DEF Init, StoreInv, FileIsBook, CopiesAreFresh, OneWriter

\* A command that moves leaves the others where they are.
LEMMA OthersStay ==
  ASSUME TypeOK, NEW p \in Command, NEW place \in Place, Goto(p, place)
  PROVE  at' \in [Command -> Place] /\ at'[p] = place /\ \A q \in Command \ {p} : at'[q] = at[q]
BY DEF TypeOK, Goto

\* Loading gives a copy of the book, unless a write is under way.
LEMMA LoadKeeps ==
  ASSUME StoreInv, NEW p \in Command, Load(p)
  PROVE  StoreInv'
<1>1. /\ at' \in [Command -> Place] /\ at'[p] = "loaded"
      /\ \A q \in Command \ {p} : at'[q] = at[q]
  BY OthersStay DEF StoreInv, Load, Place
<1>2. TypeOK'
  BY <1>1 DEF StoreInv, TypeOK, Load, Store, NoPools
<1>3. FileIsBook'
  BY DEF StoreInv, FileIsBook, Load
<1>4. ASSUME ~spoiled'
      PROVE  CopiesAreFresh' /\ OneWriter'
  <2>1. ~spoiled /\ CopiesAreFresh /\ OneWriter
    BY <1>4 DEF StoreInv, Load
  <2>2. /\ \A q \in Command \ {p} : /\ Fresh(q)' <=> Fresh(q)
                                    /\ Writing(q)' <=> Writing(q)
                                    /\ mem'[q] = mem[q] /\ on'[q] = on[q]
        /\ ~Writing(p) /\ ~Writing(p)' /\ ~Fresh(p)
    BY <1>1 DEF Load, Fresh, Writing, StoreInv, TypeOK
  <2>3. Fresh(p)' => ~torn /\ mem'[p] = book /\ book' = book
    BY <2>1 DEF Load, Fresh, StoreInv, TypeOK, FileIsBook
  <2>4. CopiesAreFresh'
    BY <2>1, <2>2, <2>3 DEF CopiesAreFresh, Load
  <2>5. OneWriter'
    BY <2>1, <2>2, <2>3 DEF OneWriter, Load
  <2> QED BY <2>4, <2>5
<1> QED BY <1>2, <1>3, <1>4 DEF StoreInv

\* A command that begins to write has a copy nobody overtook, and from now on
\* it is the only one.
LEMMA BeginKeeps ==
  ASSUME StoreInv, NEW p \in Command, NEW n \in Name, BeginSave(p),
         at[p] \in {"loaded", "adding"}, at'[p] \in {"creating", "filling", "deleting"},
         \A q \in Command \ {p} : at'[q] = at[q] /\ mem'[q] = mem[q],
         TypeOK', on'[p] = n, \A m \in Name \ {n} : mem'[p][m] = mem[p][m]
  PROVE  StoreInv'
<1>1. FileIsBook'
  BY DEF FileIsBook, BeginSave
<1>2. ASSUME ~spoiled'
      PROVE  CopiesAreFresh' /\ OneWriter'
  <2>1. ~spoiled /\ p \notin stale
    BY <1>2 DEF BeginSave
  <2>2. CopiesAreFresh /\ OneWriter /\ Fresh(p)
    BY <2>1 DEF StoreInv, Fresh
  <2>3. \A q \in Command \ {p} : ~Fresh(q)' /\ ~Writing(q) /\ ~Writing(q)'
    <3>1. \A q \in Command \ {p} : ~Writing(q)
      BY <2>2 DEF OneWriter
    <3> QED BY <3>1 DEF Fresh, BeginSave, Writing
  <2>4. Fresh(p)' /\ Writing(p)' /\ torn'
    BY <2>1 DEF Fresh, Writing, BeginSave
  <2>5. \A m \in Name : m = on'[p] \/ mem'[p][m] = book'[m]
    BY <2>2 DEF CopiesAreFresh, Writing, BeginSave
  <2> QED BY <2>3, <2>4, <2>5 DEF CopiesAreFresh, OneWriter
<1> QED BY <1>1, <1>2 DEF StoreInv

\* A write that ends leaves the file and the book the same.
LEMMA EndKeeps ==
  ASSUME StoreInv, NEW p \in Command, Writing(p), EndSave(p),
         at'[p] \in {"adding", "idle"}, TypeOK',
         \A q \in Command \ {p} : at'[q] = at[q]
  PROVE  StoreInv'
<1>1. ASSUME ~spoiled'
      PROVE  file' = book' /\ CopiesAreFresh' /\ OneWriter'
  <2>1. ~spoiled /\ Fresh(p) /\ CopiesAreFresh /\ OneWriter
    BY <1>1 DEF EndSave, StoreInv, OneWriter
  <2>2. \A q \in Command \ {p} : ~Fresh(q) /\ ~Writing(q)
    BY <2>1 DEF OneWriter
  <2>3. \A q \in Command \ {p} : ~Fresh(q)' /\ ~Writing(q)'
    BY <2>2 DEF Fresh, Writing, EndSave
  <2>4. file' = book'
    <3>1. mem[p] \in Store /\ book \in Store /\ on[p] \in Name
      BY DEF StoreInv, TypeOK
    <3>2. \A m \in Name : m = on[p] \/ mem[p][m] = book[m]
      BY <2>1 DEF CopiesAreFresh
    <3>3. \A m \in Name : [book EXCEPT ![on[p]] = mem[p][on[p]]][m] = mem[p][m]
      BY <3>1, <3>2 DEF Store
    <3> QED BY <3>1, <3>3 DEF EndSave, Payload, Store
  <2>5. mem'[p] = book' /\ ~Writing(p)'
    BY <2>4 DEF EndSave, Payload, Writing
  <2> QED BY <2>3, <2>4, <2>5 DEF CopiesAreFresh, OneWriter, EndSave
<1> QED BY <1>1 DEF StoreInv, FileIsBook

\* The operations of a command keep the books.
LEMMA CreateKeeps ==
  ASSUME StoreInv, NEW p \in Command, NEW n \in Name, CreatePool(p, n)
  PROVE  StoreInv'
<1>1. /\ at' \in [Command -> Place] /\ at'[p] = "creating"
      /\ \A q \in Command \ {p} : at'[q] = at[q]
  BY OthersStay DEF StoreInv, CreatePool, Place
<1>2. mem \in [Command -> Store] /\ mem' = [mem EXCEPT ![p][n] = {}]
  BY DEF StoreInv, TypeOK, CreatePool
<1>3. TypeOK'
  BY <1>1, <1>2 DEF StoreInv, TypeOK, CreatePool, BeginSave, Store
<1>4. /\ BeginSave(p) /\ at[p] = "loaded" /\ on'[p] = n
      /\ \A q \in Command \ {p} : mem'[q] = mem[q]
      /\ \A m \in Name \ {n} : mem'[p][m] = mem[p][m]
  BY <1>2 DEF CreatePool, StoreInv, TypeOK, Store
<1> QED BY <1>1, <1>3, <1>4, BeginKeeps

LEMMA DeleteKeeps ==
  ASSUME StoreInv, NEW p \in Command, NEW n \in Name, DeletePool(p, n)
  PROVE  StoreInv'
<1>1. /\ at' \in [Command -> Place] /\ at'[p] = "deleting"
      /\ \A q \in Command \ {p} : at'[q] = at[q]
  BY OthersStay DEF StoreInv, DeletePool, Place
<1>2. mem \in [Command -> Store] /\ mem' = [mem EXCEPT ![p][n] = Absent]
  BY DEF StoreInv, TypeOK, DeletePool
<1>3. TypeOK'
  BY <1>1, <1>2 DEF StoreInv, TypeOK, DeletePool, BeginSave, Store
<1>4. /\ BeginSave(p) /\ at[p] = "loaded" /\ on'[p] = n
      /\ \A q \in Command \ {p} : mem'[q] = mem[q]
      /\ \A m \in Name \ {n} : mem'[p][m] = mem[p][m]
  BY <1>2 DEF DeletePool, StoreInv, TypeOK, Store
<1> QED BY <1>1, <1>3, <1>4, BeginKeeps

LEMMA AddKeeps ==
  ASSUME StoreInv, NEW p \in Command, NEW S \in SUBSET Device, AddDevices(p, S)
  PROVE  StoreInv'
<1>1. /\ at' \in [Command -> Place] /\ at'[p] = "filling"
      /\ \A q \in Command \ {p} : at'[q] = at[q]
  BY OthersStay DEF StoreInv, AddDevices, Place
<1>2. on[p] \in Name /\ on' = on
  BY DEF StoreInv, TypeOK, AddDevices
<1>3. mem \in [Command -> Store] /\ mem' = [mem EXCEPT ![p][on[p]] = S]
  BY DEF StoreInv, TypeOK, AddDevices
<1>4. TypeOK'
  BY <1>1, <1>2, <1>3 DEF StoreInv, TypeOK, AddDevices, BeginSave, Store
<1>5. /\ \A q \in Command \ {p} : mem'[q] = mem[q]
      /\ \A m \in Name \ {on[p]} : mem'[p][m] = mem[p][m]
  BY <1>2, <1>3 DEF Store
<1> QED BY <1>1, <1>2, <1>4, <1>5, BeginKeeps DEF AddDevices

LEMMA WriteEndKeeps ==
  ASSUME StoreInv, NEW p \in Command, Created(p) \/ Filled(p) \/ Deleted(p)
  PROVE  StoreInv'
<1>1. PICK place \in {"adding", "idle"} : Goto(p, place)
  BY DEF Created, Filled, Deleted
<1>2. /\ at' \in [Command -> Place] /\ at'[p] = place
      /\ \A q \in Command \ {p} : at'[q] = at[q]
  BY <1>1, OthersStay DEF StoreInv, Place
<1>3. Writing(p) /\ EndSave(p)
  BY DEF Created, Filled, Deleted, Writing
<1>4. mem[p] \in Store /\ on[p] \in Name /\ mem[p][on[p]] \in {Absent} \cup SUBSET Device
  BY DEF StoreInv, TypeOK, Store
<1>5. TypeOK'
  BY <1>2, <1>3, <1>4 DEF StoreInv, TypeOK, EndSave, Payload, Store
<1> QED BY <1>2, <1>3, <1>5, EndKeeps

\* A command that stops early, and was not writing, changes nothing.
LEMMA StopKeeps ==
  ASSUME StoreInv, NEW p \in Command, Nothing(p) \/ Crash(p)
  PROVE  StoreInv'
<1>1. /\ at' \in [Command -> Place] /\ at'[p] = "idle"
      /\ \A q \in Command \ {p} : at'[q] = at[q]
  BY OthersStay DEF StoreInv, Nothing, Crash, Place
<1>2. UNCHANGED <<file, torn, mem, on, stale, book>>
  BY DEF Nothing, Crash
<1>3. TypeOK'
  BY <1>1, <1>2 DEF StoreInv, TypeOK, Nothing, Crash
<1>4. ASSUME ~spoiled' PROVE ~spoiled /\ ~Writing(p)
  <2>1. CASE Nothing(p)
    BY <1>4, <2>1 DEF Nothing, Writing
  <2>2. CASE Crash(p)
    BY <1>4, <2>2 DEF Crash
  <2> QED BY <2>1, <2>2
<1>5. FileIsBook'
  BY <1>2, <1>4 DEF StoreInv, FileIsBook
<1>6. ASSUME ~spoiled' PROVE CopiesAreFresh' /\ OneWriter'
  <2>1. ~spoiled /\ ~Writing(p) /\ CopiesAreFresh /\ OneWriter
    BY <1>4, <1>6 DEF StoreInv
  <2>2. /\ ~Fresh(p)' /\ ~Writing(p)'
        /\ \A q \in Command \ {p} : (Fresh(q)' <=> Fresh(q)) /\ (Writing(q)' <=> Writing(q))
    BY <1>1, <1>2 DEF Fresh, Writing
  <2> QED BY <1>2, <2>1, <2>2 DEF CopiesAreFresh, OneWriter
<1> QED BY <1>3, <1>5, <1>6 DEF StoreInv

\* The books of the store are in order in every state (device_pool.py:342).
THEOREM StoreKeepsBooks == Spec => []StoreInv
<1>1. StoreInv /\ [Next]_vars => StoreInv'
  <2> SUFFICES ASSUME StoreInv, [Next]_vars PROVE StoreInv'
    OBVIOUS
  <2>1. CASE UNCHANGED vars
    BY <2>1 DEF vars, StoreInv, TypeOK, FileIsBook, CopiesAreFresh, OneWriter, Fresh, Writing
  <2>2. CASE Next
    BY <2>2, LoadKeeps, CreateKeeps, DeleteKeeps, AddKeeps, WriteEndKeeps, StopKeeps DEF Next
  <2> QED BY <2>1, <2>2
<1> QED BY <1>1, InitStore, PTL DEF Spec

\* The file is what the commands have done, for as long as none writes a copy
\* that was overtaken and none is cut short.
THEOREM FileIsBookAlways == Spec => []FileIsBook
<1>1. StoreInv => FileIsBook
  BY DEF StoreInv
<1> QED BY <1>1, StoreKeepsBooks, PTL
=============================================================================

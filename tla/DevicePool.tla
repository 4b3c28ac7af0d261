----------------------------- MODULE DevicePool -----------------------------
(***************************************************************************)
(* A pool of devices (device_pool.py, DevicePool) and the threads that use *)
(* it.  One reentrant lock makes each operation a step.  A device is known *)
(* by its id, and by id it is released, whoever asks.                      *)
(***************************************************************************)
EXTENDS Naturals, FiniteSets, Sequences, SequencesExt

CONSTANTS
  Device,   \* ids
  Client,   \* threads that acquire and release
  Filters,  \* the devices each filter of a client lets through
  Strategy  \* "round_robin", or any other: the first of the list, or any

ASSUME FiltersAreSets == Filters \subseteq SUBSET Device

Status == {"available", "busy", "offline", "error"}

\* What a scan or a saved pool says of a device (device_manager.py:79, 130, and
\* the to_dict of a device).
Reported == Status \cup {"online", "unauthorized", "booted", "shutdown"}

\* device_from_info: a word the pool does not know is "available".
StatusOf(r) == IF r \in Status THEN r ELSE "available"

VARIABLES
  devices,  \* the members, in the order they were added
  status,   \* per id, the status of its device object
  reserved, \* the members whose entry in _reserved is true
  last,     \* _last_used_index
  held,     \* per client, the devices it acquired and has not released
  revoked,  \* per device, the holders whose hold another's call has ended
  overdue   \* per device, those owed a turn before it comes round again

pool == <<devices, status, reserved, last>>
vars == <<devices, status, reserved, last, held, revoked, overdue>>

Members == Range(devices)
Holders(d) == {c \in Client : d \in held[c]}

\* The devices a client may be given.
Candidates(S) == {d \in Members \ reserved : status[d] = "available" /\ d \in S}

\* Mutant: the search begins where the last one ended.
FromLast(k) == devices[((last + k - 1) % Len(devices)) + 1]

\* The k-th device after the one last used, in the order of the list.
After(k) == devices[((last + k) % Len(devices)) + 1]

\* _acquire_round_robin: the first candidate after the device last used.
InTurn(S, d) ==
  \E k \in 1..Len(devices) : /\ After(k) = d
                             /\ \A j \in 1..(k - 1) : After(j) \notin Candidates(S)

\* The strategies: the next in turn, or one of the candidates.
Picks(S, d) ==
  /\ d \in Candidates(S)
  /\ Strategy = "round_robin" => InTurn(S, d)

Position(d) == CHOOSE i \in 1..Len(devices) : devices[i] = d

\* Who loses its turn when d is removed.  The index stays where it is while the
\* list moves up: if d was at or before it, the index then names the device that
\* was next, and steps past it; at the end of the list it names no device at all.
LoseTurn(d) ==
  IF last < Position(d) - 1 THEN {d}
  ELSE IF last < Len(devices) - 1 THEN {d, After(1)}
  ELSE Device

TypeOK ==
  /\ devices \in Seq(Device)
  /\ status \in [Device -> Status]
  /\ reserved \subseteq Device
  /\ last \in Nat
  /\ held \in [Client -> SUBSET Device]
  /\ revoked \in [Device -> SUBSET Client]
  /\ overdue \in [Device -> SUBSET Device]

Init ==
  /\ devices = <<>>
  /\ status = [d \in Device |-> "available"]
  /\ reserved = {}
  /\ last = 0
  /\ held = [c \in Client |-> {}]
  /\ revoked = [d \in Device |-> {}]
  /\ overdue = [d \in Device |-> {}]

\* Mutant: a device that is scanned again replaces its entry.
AddOrReplace(d, r) ==
  /\ devices' = IF d \in Members THEN devices ELSE Append(devices, d)
  /\ status' = [status EXCEPT ![d] = StatusOf(r)]
  /\ reserved' = reserved \ {d}
  /\ UNCHANGED <<last, held, revoked, overdue>>

\* add_device: a new object, with the status its report gives.
AddDevice(d, r) ==
  /\ d \notin Members
  /\ devices' = Append(devices, d)
  /\ status' = [status EXCEPT ![d] = StatusOf(r)]
  /\ reserved' = reserved \ {d}
  /\ UNCHANGED <<last, held, revoked, overdue>>

\* remove_device, held or not.
RemoveDevice(d) ==
  /\ d \in Members
  /\ devices' = RemoveAt(devices, Position(d))
  /\ reserved' = reserved \ {d}
  /\ revoked' = [revoked EXCEPT ![d] = Holders(d)]
  /\ overdue' = [e \in Device |-> IF e = d THEN {} ELSE overdue[e] \ LoseTurn(d)]
  /\ UNCHANGED <<status, last, held>>

\* acquire_device, for a client and a filter; with no candidate, nothing
\* happens.
AcquireDevice(c, S) ==
  \E d \in Device :
    /\ Picks(S, d)
    /\ reserved' = reserved \cup {d}
    /\ status' = [status EXCEPT ![d] = "busy"]
    /\ last' = IF Strategy = "round_robin" THEN Position(d) - 1 ELSE last
    /\ held' = [held EXCEPT ![c] = @ \cup {d}]
    /\ revoked' = [revoked EXCEPT ![d] = @ \ {c}]
    /\ overdue' = [e \in Device |-> IF e = d THEN Candidates(S) \ {d}
                                    ELSE (overdue[e] \cap Candidates(S)) \ {d}]
    /\ UNCHANGED devices

\* release_device, of any id, by any client: whoever else holds the device has
\* lost it.
ReleaseDevice(c, d) ==
  /\ IF d \in Members
     THEN /\ reserved' = reserved \ {d}
          /\ status' = [status EXCEPT ![d] = "available"]
     ELSE UNCHANGED <<reserved, status>>
  /\ held' = [held EXCEPT ![c] = @ \ {d}]
  /\ revoked' = [revoked EXCEPT ![d] = Holders(d) \ {c}]
  /\ UNCHANGED <<devices, last, overdue>>

Next ==
  \/ \E d \in Device, r \in Reported : AddDevice(d, r)
  \/ \E d \in Device : RemoveDevice(d)
  \/ \E c \in Client, S \in Filters : AcquireDevice(c, S)
  \/ \E c \in Client, d \in Device : ReleaseDevice(c, d)

Spec == Init /\ [][Next]_vars
-----------------------------------------------------------------------------
(* Properties *)

\* No id is listed twice, a reserved device is a member, and a member whose hold
\* nobody ended is reserved and busy: the reservations and the list move together.
Reservations ==
  /\ IsInjective(devices)
  /\ reserved \subseteq Members
  /\ \A d \in Device : Holders(d) \ revoked[d] # {} => d \in reserved /\ status[d] = "busy"

\* A device is handed to a second client only after the hold of the first was
\* ended, by another's release of the id or by the device's removal; and it is
\* handed to one, not to two (device_pool.py:89, 124).
OneHolder ==
  \A d \in Device : \A c, e \in Holders(d) : c # e => c \in revoked[d] \/ e \in revoked[d]

\* Round robin takes turns: a device is not handed out again while another has
\* been a candidate of every acquisition since.  A removal may scramble the
\* index, for all that device_pool.py:90 says: of a device at or before it, it
\* costs the one next in line this turn, and everyone when it leaves the index
\* past the end of the list; no other change costs anybody a turn.
TakesTurns ==
  [][Strategy = "round_robin" =>
       \A d \in reserved' \ reserved : overdue[d] \cap overdue'[d] = {}]_vars

PoolInv == TypeOK /\ Reservations /\ OneHolder

\* On the way round from p, l comes before q.
Between(p, l, q) == \/ p <= l /\ l < q
                    \/ q < p /\ (p <= l \/ l < q)

(***************************************************************************)
(* What keeps TakesTurns from step to step: while e is overdue since d was *)
(* acquired, the index has not gone past e on its way round from d.        *)
(***************************************************************************)
OverdueIsAhead ==
  Strategy = "round_robin" =>
    \A d \in Device : \A e \in overdue[d] :
      /\ {d, e} \subseteq Members /\ last < Len(devices)
      /\ Between(Position(d) - 1, last, Position(e) - 1)
=============================================================================

----------------------------- MODULE PoolStore ------------------------------
(***************************************************************************)
(* The file of the device pools (device_pool.py, PoolManager) and the      *)
(* commands that share it (device_commands.py).  Each command is a process *)
(* that loads the whole file, changes its copy and writes the whole copy   *)
(* back, in place: the file is emptied before it is written.  Nothing      *)
(* keeps two commands apart.                                               *)
(***************************************************************************)
EXTENDS Naturals

CONSTANTS
  Command, \* processes that run one command
  Name,    \* of pools
  Device,
  Absent   \* no pool of that name

Store == [Name -> {Absent} \cup SUBSET Device]
NoPools == [n \in Name |-> Absent]
Place == {"idle", "loaded", "creating", "adding", "filling", "deleting"}

VARIABLES
  file,    \* pools.json, as last written
  torn,    \* it is emptied, and not written yet
  at,      \* per command, where it is
  mem,     \* per command, its pools
  on,      \* per command, the pool it creates or deletes
  stale,   \* commands whose copy was overtaken by another's write
  book,    \* what the commands so far have done, one at a time
  spoiled  \* a copy overtaken was written, or a write was cut short

vars == <<file, torn, at, mem, on, stale, book, spoiled>>

TypeOK ==
  /\ file \in Store /\ torn \in BOOLEAN
  /\ at \in [Command -> Place]
  /\ mem \in [Command -> Store]
  /\ on \in [Command -> Name]
  /\ stale \subseteq Command
  /\ book \in Store
  /\ spoiled \in BOOLEAN

Init ==
  /\ file = NoPools
  /\ torn = FALSE
  /\ at = [p \in Command |-> "idle"]
  /\ mem = [p \in Command |-> NoPools]
  /\ on \in [Command -> Name]
  /\ stale = {}
  /\ book = NoPools
  /\ spoiled = FALSE

Goto(p, place) == at' = [at EXCEPT ![p] = place]
Holds(p, n) == mem[p][n] # Absent
Writing(p) == at[p] \in {"creating", "filling", "deleting"}

\* _load: a file that cannot be read is an empty one.
Load(p) ==
  /\ at[p] = "idle"
  /\ mem' = [mem EXCEPT ![p] = IF torn THEN NoPools ELSE file]
  /\ stale' = IF torn THEN stale \cup {p} ELSE stale \ {p}
  /\ Goto(p, "loaded")
  /\ UNCHANGED <<file, torn, on, book, spoiled>>

\* save, up to the emptied file.
BeginSave(p) ==
  /\ torn' = TRUE
  /\ stale' = stale \cup {q \in Command \ {p} : at[q] # "idle"}
  /\ spoiled' = (spoiled \/ p \in stale)
  /\ UNCHANGED <<file, book>>

\* Mutant: the copy is written without what was loaded.
Only(p, n) == [NoPools EXCEPT ![n] = mem[p][n]]

Payload(p, n) == mem[p]

\* save, the rest.  The command has then done what it says.
EndSave(p) ==
  /\ file' = Payload(p, on[p])
  /\ torn' = FALSE
  /\ book' = [book EXCEPT ![on[p]] = mem[p][on[p]]]
  /\ UNCHANGED <<mem, on, stale, spoiled>>

\* create_pool: the pool is saved empty first.
CreatePool(p, n) ==
  /\ at[p] = "loaded" /\ ~Holds(p, n)
  /\ on' = [on EXCEPT ![p] = n]
  /\ mem' = [mem EXCEPT ![p][n] = {}]
  /\ Goto(p, "creating")
  /\ BeginSave(p)

Created(p) == at[p] = "creating" /\ Goto(p, "adding") /\ EndSave(p)

\* pool_create: the devices that were found are added, and all saved again.
AddDevices(p, S) ==
  /\ at[p] = "adding"
  /\ mem' = [mem EXCEPT ![p][on[p]] = S]
  /\ Goto(p, "filling")
  /\ BeginSave(p)
  /\ UNCHANGED on

Filled(p) == at[p] = "filling" /\ Goto(p, "idle") /\ EndSave(p)

\* delete_pool.
DeletePool(p, n) ==
  /\ at[p] = "loaded" /\ Holds(p, n)
  /\ on' = [on EXCEPT ![p] = n]
  /\ mem' = [mem EXCEPT ![p][n] = Absent]
  /\ Goto(p, "deleting")
  /\ BeginSave(p)

Deleted(p) == at[p] = "deleting" /\ Goto(p, "idle") /\ EndSave(p)

\* A pool that exists already, one that does not, or a command that only reads.
Nothing(p) ==
  /\ at[p] = "loaded"
  /\ Goto(p, "idle")
  /\ UNCHANGED <<file, torn, mem, on, stale, book, spoiled>>

\* The process is killed.
Crash(p) ==
  /\ at[p] # "idle"
  /\ Goto(p, "idle")
  /\ spoiled' = (spoiled \/ Writing(p))
  /\ UNCHANGED <<file, torn, mem, on, stale, book>>

Next == \E p \in Command :
  \/ Load(p) \/ Nothing(p) \/ Crash(p) \/ Created(p) \/ Filled(p) \/ Deleted(p)
  \/ \E n \in Name : CreatePool(p, n) \/ DeletePool(p, n)
  \/ \E S \in SUBSET Device : AddDevices(p, S)

Spec == Init /\ [][Next]_vars
-----------------------------------------------------------------------------
(* Properties *)

\* What a command works on, if no other wrote since it loaded.
Fresh(p) == at[p] # "idle" /\ p \notin stale

\* A fresh copy is the book's, up to the pool the command is at.
CopiesAreFresh ==
  \A p \in Command : Fresh(p) =>
    \A n \in Name : (Writing(p) /\ n = on[p]) \/ mem[p][n] = book[n]

\* Only one command that writes has a copy nobody overtook.
OneWriter ==
  /\ \A p, q \in Command : Fresh(p) /\ Writing(p) /\ Fresh(q) => p = q
  /\ torn <=> \E p \in Command : Fresh(p) /\ Writing(p)
  /\ \A p \in Command : Writing(p) => Fresh(p)

\* The file is what the commands have done, each in turn, or is being written:
\* a pool goes missing, or comes back, only after two commands overlapped or
\* one was killed in its write (device_pool.py:348).
FileIsBook == ~spoiled => torn \/ file = book

\* The same, whatever happened: what the docstring of PoolManager says.
CommandsLast == torn \/ file = book

StoreInv == TypeOK /\ FileIsBook /\ (~spoiled => CopiesAreFresh /\ OneWriter)
=============================================================================

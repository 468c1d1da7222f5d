--------------------------- MODULE SnapshotStore ----------------------------
(***************************************************************************)
(* What a table promises its read transactions, with no cache, lock or     *)
(* generation in sight: a read transaction sees, from its first step to    *)
(* its last, the version that was committed when it began.                 *)
(***************************************************************************)
EXTENDS StoredTree

CONSTANTS
  Readers,   \* read transactions
  Stores,    \* the versions writers may commit
  Closed,    \* the view of a reader with no transaction open
  NoAnswer   \* a reader that has not read anything yet

VARIABLES
  committed, \* the latest committed version
  view,      \* view[r]: the version r reads from
  answer     \* answer[r]: the last read of r, the path and what it yielded

vars == <<committed, view, answer>>

Init ==
  /\ committed \in Stores
  /\ view = [r \in Readers |-> Closed]
  /\ answer = [r \in Readers |-> NoAnswer]

Open(r) ==
  /\ view[r] = Closed
  /\ view' = [view EXCEPT ![r] = committed]
  /\ UNCHANGED <<committed, answer>>

Read(r) ==
  /\ view[r] # Closed
  /\ \E p \in Paths :
       answer' = [answer EXCEPT ![r] = [path |-> p, got |-> View(view[r], p)]]
  /\ UNCHANGED <<committed, view>>

(* A new read begins, and the answer to the last one is forgotten.         *)
Ask(r) ==
  /\ view[r] # Closed
  /\ answer' = [answer EXCEPT ![r] = NoAnswer]
  /\ UNCHANGED <<committed, view>>

Close(r) ==
  /\ view[r] # Closed
  /\ view' = [view EXCEPT ![r] = Closed]
  /\ answer' = [answer EXCEPT ![r] = NoAnswer]
  /\ UNCHANGED committed

Commit ==
  /\ committed' \in Stores
  /\ UNCHANGED <<view, answer>>

(* The process dies: every transaction goes with it, the store stays.      *)
Crash ==
  /\ view' = [r \in Readers |-> Closed]
  /\ answer' = [r \in Readers |-> NoAnswer]
  /\ UNCHANGED committed

Next ==
  \/ \E r \in Readers : Open(r) \/ Ask(r) \/ Read(r) \/ Close(r)
  \/ Commit
  \/ Crash

Spec == Init /\ [][Next]_vars
=============================================================================

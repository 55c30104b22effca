------------------------------ MODULE KvStore ------------------------------
(***************************************************************************)
(* What the callers of ini.c rely on: a file is a table from sections and  *)
(* keys to values, of which one caller at a time has a copy to change.     *)
(***************************************************************************)
CONSTANTS
    Section, Key, Value,
    Missing,    \* no value
    NoCopy      \* mem between ini_free and ini_load

VARIABLES
    stored,     \* what the file says
    mem         \* what the copy says

Table == [Section \X Key -> Value \cup {Missing}]

StoreLoad == mem = NoCopy /\ mem' = stored /\ UNCHANGED stored

StoreSet ==
    /\ mem # NoCopy
    /\ \E at \in Section \X Key, v \in Value : mem' = [mem EXCEPT ![at] = v]
    /\ UNCHANGED stored

StoreDelete ==
    /\ mem # NoCopy
    /\ \E at \in Section \X Key : mem' = [mem EXCEPT ![at] = Missing]
    /\ UNCHANGED stored

StoreDeleteSection ==
    /\ mem # NoCopy
    /\ \E s \in Section :
        mem' = [at \in Section \X Key |-> IF at[1] = s THEN Missing ELSE mem[at]]
    /\ UNCHANGED stored

StoreSave == mem # NoCopy /\ stored' = mem /\ UNCHANGED mem

StoreFree == mem # NoCopy /\ mem' = NoCopy /\ UNCHANGED stored

StoreInit == stored \in Table /\ mem = NoCopy

StoreNext ==
    \/ StoreLoad \/ StoreSet \/ StoreDelete \/ StoreDeleteSection \/ StoreSave \/ StoreFree

StoreSpec == StoreInit /\ [][StoreNext]_<<stored, mem>>
=============================================================================

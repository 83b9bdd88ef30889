---------------------------- MODULE AtomicStore ----------------------------
(***************************************************************************)
(* What research.duckdb shows of a download, although an upsert is two     *)
(* statements that commit on their own: the upsert of a vendor is one      *)
(* step, which writes the last complete value that the vendor delivered of *)
(* every key and touches no other; or it is cut, and takes exactly those   *)
(* keys away.  A cut is not silent: the run prints an error or dies.  A    *)
(* turn that ends without an error and without an upsert delivered nothing.*)
(***************************************************************************)
CONSTANTS Vendor, Symbol, Value, Absent

VARIABLES
    store,  \* the tables
    got,    \* what each vendor delivered in this run
    told,   \* vendors for which this run printed an error
    over    \* vendors whose turn is over; without a run, all

vars == <<store, got, told, over>>

Nothing == [s \in Symbol |-> Absent]
Written(old, new) == [s \in Symbol |-> IF new[s] # Absent THEN new[s] ELSE old[s]]
Erased(old, new)  == [s \in Symbol |-> IF new[s] # Absent THEN Absent ELSE old[s]]

Init ==
    /\ store = [v \in Vendor |-> Nothing] /\ got = [v \in Vendor |-> Nothing]
    /\ told = {} /\ over = Vendor

Begin ==
    /\ over = Vendor
    /\ over' = {} /\ told' = {} /\ got' = [v \in Vendor |-> Nothing]
    /\ UNCHANGED store

Deliver(v) ==
    /\ v \notin over
    /\ \E s \in Symbol, x \in Value : got[v][s] = Absent /\ got' = [got EXCEPT ![v][s] = x]
    /\ UNCHANGED <<store, told, over>>

Upsert(v) ==
    /\ v \notin over /\ got[v] # Nothing
    /\ store' = [store EXCEPT ![v] = Written(store[v], got[v])]
    /\ over' = over \cup {v}
    /\ UNCHANGED <<got, told>>

\* An error is printed; the upsert was not begun, or cut.
Report(v) ==
    /\ v \notin over
    /\ store' = store \/ store' = [store EXCEPT ![v] = Erased(store[v], got[v])]
    /\ told' = told \cup {v} /\ over' = over \cup {v}
    /\ UNCHANGED got

BringNothing(v) ==
    /\ v \notin over /\ got[v] = Nothing
    /\ over' = over \cup {v}
    /\ UNCHANGED <<store, got, told>>

Die ==
    /\ \/ store' = store
       \/ \E v \in Vendor \ over : store' = [store EXCEPT ![v] = Erased(store[v], got[v])]
    /\ over' = Vendor
    /\ UNCHANGED <<got, told>>

Next ==
    \/ Begin \/ Die
    \/ \E v \in Vendor : Deliver(v) \/ Upsert(v) \/ Report(v) \/ BringNothing(v)

Spec == Init /\ [][Next]_vars
=============================================================================

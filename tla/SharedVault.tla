---------------------------- MODULE SharedVault ----------------------------
(***************************************************************************)
(* What falach-sync promises its users: replicas of a grow-only set of     *)
(* edits around one shared copy.  A device's replica only ever takes edits *)
(* in; the shared copy is only ever replaced by one that contains it and   *)
(* that some replica has in full.  Tries, backups, pointers, lost answers  *)
(* and crashes are invisible here.                                         *)
(***************************************************************************)
EXTENDS Naturals

CONSTANTS Device, MaxEdits

VARIABLES
    made,   \* number of edits made so far
    seen,   \* seen[d]: edits in the replica of d
    shared  \* edits in the shared copy

vars == <<made, seen, shared>>

Init ==
    /\ made = 0
    /\ seen = [d \in Device |-> {}]
    /\ shared = {}

\* A user edits the replica of d.
Edit(d) ==
    /\ made < MaxEdits
    /\ made' = made + 1
    /\ seen' = [seen EXCEPT ![d] = @ \cup {made + 1}]
    /\ UNCHANGED shared

\* Device d takes in edits the shared copy has.
Pull(d) ==
    /\ \E got \in SUBSET shared : seen' = [seen EXCEPT ![d] = @ \cup got]
    /\ UNCHANGED <<made, shared>>

\* A state of d's replica that contains the shared copy becomes the shared
\* copy.
Publish(d) ==
    /\ \E copy \in SUBSET seen[d] : shared \subseteq copy /\ shared' = copy
    /\ UNCHANGED <<made, seen>>

Next == \E d \in Device : Edit(d) \/ Pull(d) \/ Publish(d)

Spec == Init /\ [][Next]_vars
=============================================================================

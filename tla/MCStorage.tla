----------------------------- MODULE MCStorage -----------------------------
(* One run for the modules about what is stored: write_atomic, vaults.toml, *)
(* the handles on a vault's file, and the copies of a vault that devices    *)
(* edit and merge.  They share no variable, so a behaviour moves one of     *)
(* them, named by part, and the run checks each by itself.                  *)
EXTENDS AtomicWrite, Registry, VaultHandle, Replicas, TLC

CONSTANTS p1, p2, tui,                            \* processes
          f1, f2, personal, work, bucket, short,  \* files; registry entries
          pw1, pw2, kf1, kf2, A, B,               \* keys and contents of a vault
          d1, d2, g1, g2, g3, g4                  \* devices; groups of a vault

Procs == {p1, p2}
Files == {f1, f2}
Names == {personal, work}

Devices == {d1, d2}
Groups == {Root, g1, g2, g3, g4}
SharedGroups == {g1, g2}
Unlimited == -1

\* Each part is symmetric in its own pairs, and only one part moves: a swap
\* of a pair can take pairs of other parts with it, which keeps the group small.
Swapped(pairs) ==
    LET S == UNION pairs IN
        {[x \in S |-> x], [x \in S |-> CHOOSE y \in S : y # x /\ {x, y} \in pairs]}
Symmetry == {s @@ t : s \in Swapped({Procs, Devices}),
                      t \in Swapped({Files, Names, SharedGroups, {g3, g4}})}

VARIABLE part

allVars == <<vars, regVars, handleVars, repVars, part>>

\* Devices with an empty vault each.
RepRest ==
    /\ clock = 0 /\ ops = 0 /\ ids = {Root}
    /\ db = [d \in Device |-> EmptyDatabase(0)] /\ remote = EmptyDatabase(0)
    /\ dirty = [d \in Device |-> FALSE] /\ stale = [d \in Device |-> FALSE]

MCInit ==
    /\ part \in {"atomic", "registry", "handle", "replicas"}
    /\ Init /\ RegInit /\ HandleInit
    /\ IF part = "replicas" THEN RepInit ELSE RepRest

MCNext ==
    /\ UNCHANGED part
    /\ \/ part = "atomic" /\ Next /\ UNCHANGED <<regVars, handleVars, repVars>>
       \/ part = "registry" /\ RegNext /\ UNCHANGED <<vars, handleVars, repVars>>
       \/ part = "handle" /\ HandleNext /\ UNCHANGED <<vars, regVars, repVars>>
       \/ part = "replicas" /\ RepNext /\ UNCHANGED <<vars, regVars, handleVars>>

MCSpec == MCInit /\ [][MCNext]_allVars
=============================================================================

------------------------------ MODULE MCEngine ------------------------------
EXTENDS Engine, FiniteSets, TLC

CONSTANTS k1, k2, v1

MCSymmetry == Permutations(Keys)

\* A log that is not synced, and the sessions that leave one or none, are taken on
\* one key and with fewer entries; so is a directory for which a promise has been
\* forfeited, until a checkpoint or a recovery makes it good.
Touched ==
    {k \in Keys : \/ mem[k] # NoRecord
                  \/ \E i \in DOMAIN wal : wal[i] # Torn /\ wal[i].key = k
                  \/ \E i \in DOMAIN todo : todo[i].key = k}
Weak == durability \in {"relaxed", "ephemeral"} \/ ~Synced
InScope ==
    /\ Cardinality(forfeited) <= 1
    /\ Weak => Cardinality(Touched) <= 1 /\ Len(wal) + Len(todo) < MaxLog
    /\ durability = "ephemeral" => Len(wal) + Len(todo) <= MaxLog - 2
    /\ forfeited # {} => Cardinality(Touched) <= 1 /\ Len(wal) <= 2 /\ pc # "apply" /\ ~Weak
=============================================================================

------------------------------ MODULE Startup -------------------------------
(***************************************************************************)
(* Processes that start, serve and stop beside each other, as an old and a *)
(* new container do while one replaces the other: the migrations they run  *)
(* on one database (app/db.py), the store each finds (app/main.py) and the *)
(* setting each caches and backs up in Redis (app/settings.py).            *)
(*                                                                         *)
(* A migration is its number, a value of the setting is the write that set *)
(* it; 0 is the default.                                                   *)
(***************************************************************************)
EXTENDS Naturals, Sequences, FiniteSets

CONSTANTS
    Proc,   \* the processes
    Files,  \* how many migrations the image of each process has
    Writes, \* how many requests change the setting
    Crashes \* how often a process is stopped

ASSUME ImageAssumption ==
    /\ Files \in [Proc -> Nat]
    /\ Writes \in Nat /\ Crashes \in Nat

Version == UNION {1..Files[p] : p \in Proc}

Write == 1..Writes \* in the order in which they are sent

VARIABLES
    applied, \* the rows of schema_migrations
    ran,     \* the migrations that were committed, in order (history)
    backup,  \* the setting in Redis
    pc,      \* where each process is
    seen,    \* the migrations a process has read as applied or has applied
    kind,    \* the store each process has found
    cache,   \* the setting each process works with
    stage,   \* where each write is
    by,      \* the process that serves it
    before,  \* the writes that had been answered when it was sent (history)
    saved,   \* the writes that have reached Redis (history)
    crashes  \* how often a process has been stopped

database == <<applied, ran>>
process  == <<pc, seen, kind>>
writing  == <<stage, by, before, saved>>
vars == <<database, backup, process, cache, writing, crashes>>

-----------------------------------------------------------------------------
Goto(p, s) == pc' = [pc EXCEPT ![p] = s]

\* The files that are not applied as far as p knows; it takes them in order.
Pending(p) == (1..Files[p]) \ seen[p]

NextFile(p) == CHOOSE v \in Pending(p) : \A w \in Pending(p) : v <= w

Init ==
    /\ applied = {} /\ ran = <<>> /\ backup = 0
    /\ pc = [p \in Proc |-> "down"]
    /\ seen = [p \in Proc |-> {}]
    /\ kind = [p \in Proc |-> "none"]
    /\ cache = [p \in Proc |-> 0]
    /\ stage = [w \in Write |-> "new"]
    /\ by \in [Write -> Proc]
    /\ before = [w \in Write |-> {}]
    /\ saved = {} /\ crashes = 0

-----------------------------------------------------------------------------
(* lifespan                                                                *)

\* A fault: what was read before the last start is not read again.
Boot_KeepsSeen(p) ==
    /\ pc[p] = "down"
    /\ Goto(p, "migrate")
    /\ UNCHANGED <<database, backup, seen, kind, cache, writing, crashes>>

\* The container is started: extensions, pool, and the first transaction of
\* run_migrations, which makes sure of the table and reads it.
Boot(p) ==
    /\ pc[p] = "down"
    /\ seen' = [seen EXCEPT ![p] = applied]
    /\ Goto(p, "migrate")
    /\ UNCHANGED <<database, backup, kind, cache, writing, crashes>>

\* Faults: the statements and the row do not collide, or a collision is not an
\* error.
Migrate_NoKey(p) ==
    /\ pc[p] = "migrate" /\ Pending(p) # {}
    /\ \A q \in Proc : ~(pc[q] = "commit" /\ NextFile(q) = NextFile(p))
    /\ Goto(p, "commit")
    /\ UNCHANGED <<database, backup, seen, kind, cache, writing, crashes>>

Migrate_Serves(p) ==
    /\ pc[p] = "migrate" /\ Pending(p) # {}
    /\ \A q \in Proc : ~(pc[q] = "commit" /\ NextFile(q) = NextFile(p))
    /\ Goto(p, IF NextFile(p) \in applied THEN "load" ELSE "commit")
    /\ UNCHANGED <<database, backup, seen, kind, cache, writing, crashes>>

\* The statements of one migration. They wait for an open transaction that
\* runs the same ones; once that has committed they raise, the table or the
\* row of schema_migrations being there, and start-up ends.
Migrate(p) ==
    /\ pc[p] = "migrate" /\ Pending(p) # {}
    /\ \A q \in Proc : ~(pc[q] = "commit" /\ NextFile(q) = NextFile(p))
    /\ Goto(p, IF NextFile(p) \in applied THEN "down" ELSE "commit")
    /\ UNCHANGED <<database, backup, seen, kind, cache, writing, crashes>>

\* A fault: no row for the migration.
Commit_ForgetRow(p) ==
    /\ pc[p] = "commit"
    /\ ran' = Append(ran, NextFile(p))
    /\ seen' = [seen EXCEPT ![p] = @ \cup {NextFile(p)}]
    /\ Goto(p, "migrate")
    /\ UNCHANGED <<applied, backup, kind, cache, writing, crashes>>

Commit(p) ==
    /\ pc[p] = "commit"
    /\ applied' = applied \cup {NextFile(p)}
    /\ ran' = Append(ran, NextFile(p))
    /\ seen' = [seen EXCEPT ![p] = @ \cup {NextFile(p)}]
    /\ Goto(p, "migrate")
    /\ UNCHANGED <<backup, kind, cache, writing, crashes>>

\* Redis if it answers the ping, for as long as the process lives.
ConnectStore(p) ==
    /\ pc[p] = "migrate" /\ Pending(p) = {}
    /\ \E k \in {"redis", "memory"} : kind' = [kind EXCEPT ![p] = k]
    /\ Goto(p, "load")
    /\ UNCHANGED <<database, backup, seen, cache, writing, crashes>>

\* settings.load: a backup replaces the default; if it cannot be read the
\* default stays, as it does with the MemoryStore.
LoadSettings(p) ==
    /\ pc[p] = "load"
    /\ \/ UNCHANGED cache
       \/ kind[p] = "redis" /\ backup # 0 /\ cache' = [cache EXCEPT ![p] = backup]
    /\ Goto(p, "up")
    /\ UNCHANGED <<database, backup, seen, kind, writing, crashes>>

\* The process is stopped, or start-up raises.
Crash(p) ==
    /\ crashes < Crashes /\ crashes' = crashes + 1
    /\ pc[p] # "down" /\ Goto(p, "down")
    /\ cache' = [cache EXCEPT ![p] = 0]
    /\ stage' = [w \in Write |->
                   IF by[w] = p /\ stage[w] = "backup" THEN "lost" ELSE stage[w]]
    /\ UNCHANGED <<database, backup, seen, kind, by, before, saved>>

-----------------------------------------------------------------------------
(* write_settings                                                          *)

\* update, as far as its await: the cache is changed at once.
SetCache(w) ==
    /\ stage[w] = "new" /\ \A v \in 1..(w - 1) : stage[v] # "new"
    /\ pc[by[w]] = "up"
    /\ cache' = [cache EXCEPT ![by[w]] = w]
    /\ stage' = [stage EXCEPT ![w] = "backup"]
    /\ before' = [before EXCEPT ![w] = {v \in Write : stage[v] = "done"}]
    /\ UNCHANGED <<database, backup, process, by, saved, crashes>>

\* A fault: a backup is repeated after its request has been answered.
Backup_Again(w) ==
    /\ stage[w] \in {"backup", "done"}
    /\ \/ UNCHANGED <<backup, saved>>
       \/ kind[by[w]] = "redis" /\ backup' = w /\ saved' = saved \cup {w}
    /\ stage' = [stage EXCEPT ![w] = "done"]
    /\ UNCHANGED <<database, process, cache, by, before, crashes>>

\* redis.set: a failure is swallowed, and the MemoryStore has no set at all.
Backup(w) ==
    /\ stage[w] = "backup"
    /\ \/ UNCHANGED <<backup, saved>>
       \/ kind[by[w]] = "redis" /\ backup' = w /\ saved' = saved \cup {w}
    /\ stage' = [stage EXCEPT ![w] = "done"]
    /\ UNCHANGED <<database, process, cache, by, before, crashes>>

Start(p) == Boot(p) \/ Migrate(p) \/ Commit(p) \/ ConnectStore(p) \/ LoadSettings(p)

Next ==
    \/ \E p \in Proc : Start(p) \/ Crash(p)
    \/ \E w \in Write : SetCache(w) \/ Backup(w)

Spec == Init /\ [][Next]_vars

\* The containers are restarted and the database answers.
FairSpec == Spec /\ \A p \in Proc : WF_vars(Start(p))

-----------------------------------------------------------------------------
(* Properties                                                              *)

\* Types, and that what a process knows to be applied is.
TypeOK ==
    /\ applied \in SUBSET Version
    /\ ran \in Seq(Version)
    /\ backup \in Write \cup {0}
    /\ pc \in [Proc -> {"down", "migrate", "commit", "load", "up"}]
    /\ seen \in [Proc -> SUBSET applied]
    /\ kind \in [Proc -> {"none", "redis", "memory"}]
    /\ cache \in [Proc -> Write \cup {0}]
    /\ stage \in [Write -> {"new", "backup", "done", "lost"}]
    /\ by \in [Write -> Proc]
    /\ before \in [Write -> SUBSET Write]
    /\ saved \in SUBSET Write
    /\ crashes \in 0..Crashes

\* However many processes start at once, and wherever they are stopped, every
\* migration is committed once and in the order of the file names.
MigrationsInOrder ==
    /\ \A i \in DOMAIN ran : ran[i] = i
    /\ applied = {ran[i] : i \in DOMAIN ran}

\* A process that serves has the schema it was written for.
SchemaReady == \A p \in Proc : pc[p] \in {"load", "up"} => 1..Files[p] \subseteq applied

\* A setting is not undone by an older one: what Redis has, and a restart loads,
\* is not a value that had been answered before one that was saved was sent.
NoOlderSetting == \A w \in saved : backup \notin before[w]

\* Of processes that start at once and run the same migrations all come up in
\* the end: one that fails on the work of another finds it done next time.
AllComeUp == \A p \in Proc : <>[](pc[p] = "up")

=============================================================================

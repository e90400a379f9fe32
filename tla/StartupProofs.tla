--------------------------- MODULE StartupProofs ----------------------------
(***************************************************************************)
(* Theorems about Startup for any processes, images and numbers of writes. *)
(***************************************************************************)
EXTENDS Startup, TLAPS

\* What holds between the steps: both the table and what a process has read of
\* it are the first so many migrations, the open transaction is for the next,
\* and only one is open.
Progress ==
    /\ \A i \in 1..Len(ran) : ran[i] = i
    /\ applied = 1..Len(ran)
    /\ \A p \in Proc : \E m \in Nat : seen[p] = 1..m
    /\ \A p \in Proc : pc[p] = "commit" => Pending(p) # {} /\ NextFile(p) \notin applied
    /\ \A p, q \in Proc : pc[p] = "commit" /\ pc[q] = "commit" => p = q

\* The requests a write comes after have been answered, and so has a saved one.
Answered ==
    /\ \A w \in Write : \A v \in before[w] : stage[v] = "done"
    /\ \A w \in saved : stage[w] = "done"

IInv == TypeOK /\ Progress /\ SchemaReady /\ Answered /\ NoOlderSetting

-----------------------------------------------------------------------------
(* The next file                                                           *)

\* A process that knows the first m migrations goes on with the one after.
LEMMA NextIsSucc ==
  ASSUME NEW p \in Proc, NEW m \in Nat, seen[p] = 1..m, Pending(p) # {}
  PROVE  NextFile(p) = m + 1 /\ NextFile(p) \in 1..Files[p]
  <1>1. Files[p] \in Nat
    BY ImageAssumption
  <1>2. Pending(p) = (m + 1)..Files[p]
    BY <1>1 DEF Pending
  <1>3. m + 1 \in Pending(p) /\ \A w \in Pending(p) : m + 1 <= w
    BY <1>1, <1>2
  <1>4. /\ NextFile(p) \in Pending(p)
        /\ \A w \in Pending(p) : NextFile(p) <= w
    BY <1>3 DEF NextFile
  <1>5. NextFile(p) <= m + 1 /\ m + 1 <= NextFile(p)
    BY <1>3, <1>4
  <1>6. NextFile(p) \in 1..Files[p]
    BY <1>4 DEF Pending
  <1> QED
    BY <1>5, <1>6

\* As long as what it knows stays, so does the file it goes on with.
LEMMA SameNext ==
  ASSUME NEW p \in Proc, seen'[p] = seen[p]
  PROVE  Pending(p)' = Pending(p) /\ NextFile(p)' = NextFile(p)
  <1>1. Pending(p)' = Pending(p)
    BY DEF Pending
  <1> QED
    BY <1>1 DEF NextFile

\* An open transaction is for the migration after the last one committed.
LEMMA OpenIsNext ==
  ASSUME TypeOK, Progress, NEW p \in Proc, Pending(p) # {}, NextFile(p) \notin applied
  PROVE  /\ NextFile(p) = Len(ran) + 1 /\ NextFile(p) \in 1..Files[p]
         /\ seen[p] = 1..Len(ran)
  <1>1. PICK m \in Nat : seen[p] = 1..m
    BY DEF Progress
  <1>2. NextFile(p) = m + 1 /\ NextFile(p) \in 1..Files[p]
    BY <1>1, NextIsSucc
  <1>3. Len(ran) \in Nat /\ applied = 1..Len(ran) /\ 1..m \subseteq applied
    BY <1>1 DEF TypeOK, Progress
  <1>4. m <= Len(ran) /\ Len(ran) < m + 1
    BY <1>2, <1>3
  <1>5. m = Len(ran)
    BY <1>3, <1>4
  <1> QED
    BY <1>1, <1>2, <1>5

-----------------------------------------------------------------------------
(* The invariant                                                           *)

\* Initially nothing has been applied and nothing saved.
LEMMA InitInv == Init => IInv
  <1> SUFFICES ASSUME Init PROVE IInv
    OBVIOUS
  <1>1. TypeOK
    BY ImageAssumption DEF Init, TypeOK
  <1>2. Progress
    <2>1. Len(ran) = 0 /\ applied = 1..0
      BY DEF Init
    <2>2. \A p \in Proc : seen[p] = 1..0 /\ pc[p] # "commit"
      BY DEF Init
    <2>3. \A p \in Proc : \E m \in Nat : seen[p] = 1..m
      <3>1. 0 \in Nat
        OBVIOUS
      <3> QED
        BY <2>2, <3>1, Zenon
    <2>4. \A i \in 1..Len(ran) : FALSE
      BY <2>1
    <2> QED
      BY <2>1, <2>2, <2>3, <2>4, Zenon DEF Progress
  <1>3. SchemaReady /\ Answered /\ NoOlderSetting
    BY DEF Init, SchemaReady, Answered, NoOlderSetting
  <1> QED
    BY <1>1, <1>2, <1>3 DEF IInv

\* Steps that neither touch the database nor open a transaction.
LEMMA ProgressKept ==
  ASSUME Progress, UNCHANGED <<database, seen>>,
         \A p \in Proc : pc'[p] = "commit" => pc[p] = "commit"
  PROVE  Progress'
  <1>1. \A p \in Proc : Pending(p)' = Pending(p) /\ NextFile(p)' = NextFile(p)
    BY SameNext
  <1>2. ran' = ran /\ applied' = applied /\ seen' = seen
    BY DEF database
  <1> QED
    BY <1>1, <1>2 DEF Progress

\* Every step keeps the types.
LEMMA NextType == IInv /\ [Next]_vars => TypeOK'
  <1> SUFFICES ASSUME IInv, [Next]_vars PROVE TypeOK'
    OBVIOUS
  <1> USE DEF IInv, TypeOK, Goto
  <1>1. ASSUME NEW p \in Proc, Boot(p) PROVE TypeOK'
    BY <1>1 DEF Boot, database, writing
  <1>2. ASSUME NEW p \in Proc, Migrate(p) PROVE TypeOK'
    BY <1>2 DEF Migrate, database, writing
  <1>3. ASSUME NEW p \in Proc, Commit(p) PROVE TypeOK'
    <2>1. NextFile(p) \in 1..Files[p]
      BY <1>3, OpenIsNext DEF Commit, Progress
    <2>2. NextFile(p) \in Version
      BY <2>1 DEF Version
    <2>3. ran' \in Seq(Version) /\ applied' \in SUBSET Version
      BY <1>3, <2>2 DEF Commit
    <2>4. seen' \in [Proc -> SUBSET applied']
      BY <1>3 DEF Commit
    <2> QED
      BY <1>3, <2>3, <2>4 DEF Commit, writing
  <1>4. ASSUME NEW p \in Proc, ConnectStore(p) PROVE TypeOK'
    BY <1>4 DEF ConnectStore, database, writing
  <1>5. ASSUME NEW p \in Proc, LoadSettings(p) PROVE TypeOK'
    BY <1>5 DEF LoadSettings, database, writing
  <1>6. ASSUME NEW p \in Proc, Crash(p) PROVE TypeOK'
    BY <1>6, ImageAssumption DEF Crash, database
  <1>7. ASSUME NEW w \in Write, SetCache(w) PROVE TypeOK'
    BY <1>7 DEF SetCache, database, process
  <1>8. ASSUME NEW w \in Write, Backup(w) PROVE TypeOK'
    BY <1>8 DEF Backup, database, process
  <1>9. CASE UNCHANGED vars
    BY <1>9 DEF vars, database, process, writing
  <1> QED
    BY <1>1, <1>2, <1>3, <1>4, <1>5, <1>6, <1>7, <1>8, <1>9 DEF Next, Start

\* Every step keeps the order of the migrations.
LEMMA NextProgress == IInv /\ [Next]_vars => Progress'
  <1> SUFFICES ASSUME IInv, [Next]_vars PROVE Progress'
    OBVIOUS
  <1>0. TypeOK /\ Progress /\ Len(ran) \in Nat
    BY DEF IInv, TypeOK
  <1>1. ASSUME NEW p \in Proc, Boot(p) PROVE Progress'
    <2>1. ran' = ran /\ applied' = applied /\ pc'[p] # "commit"
      BY <1>0, <1>1 DEF Boot, Goto, database, TypeOK
    <2>2. seen'[p] = 1..Len(ran)
      BY <1>0, <1>1 DEF Boot, TypeOK, Progress
    <2>3. ASSUME NEW q \in Proc, q # p
          PROVE /\ pc'[q] = pc[q] /\ seen'[q] = seen[q]
                /\ Pending(q)' = Pending(q) /\ NextFile(q)' = NextFile(q)
      <3>1. pc'[q] = pc[q] /\ seen'[q] = seen[q]
        BY <1>0, <1>1, <2>3 DEF Boot, Goto, TypeOK
      <3> QED
        BY <3>1, SameNext
    <2>4. \A q \in Proc : \E m \in Nat : seen'[q] = 1..m
      BY <1>0, <2>2, <2>3 DEF Progress
    <2>5. \A q \in Proc : pc'[q] = "commit" => q # p /\ pc[q] = "commit"
      BY <2>1, <2>3
    <2>6. \A q \in Proc : pc'[q] = "commit" => (Pending(q) # {})' /\ (NextFile(q) \notin applied)'
      BY <1>0, <2>1, <2>3, <2>5 DEF Progress
    <2>7. \A q, s \in Proc : pc'[q] = "commit" /\ pc'[s] = "commit" => q = s
      BY <1>0, <2>5 DEF Progress
    <2> QED
      BY <1>0, <2>1, <2>4, <2>6, <2>7 DEF Progress
  <1>2. ASSUME NEW p \in Proc, Migrate(p) PROVE Progress'
    <2>1. UNCHANGED <<database, seen>> /\ ran' = ran /\ applied' = applied /\ seen' = seen
      BY <1>2 DEF Migrate, database
    <2>2. CASE NextFile(p) \in applied
      <3>1. \A q \in Proc : pc'[q] = "commit" => pc[q] = "commit"
        BY <1>0, <1>2, <2>2 DEF Migrate, Goto, TypeOK
      <3> QED
        BY <1>0, <2>1, <3>1, ProgressKept
    <2>3. CASE NextFile(p) \notin applied
      <3>1. Pending(p) # {} /\ NextFile(p) = Len(ran) + 1
        BY <1>0, <1>2, <2>3, OpenIsNext DEF Migrate
      <3>2. ASSUME NEW q \in Proc PROVE pc[q] # "commit"
        <4> SUFFICES ASSUME pc[q] = "commit" PROVE FALSE
          OBVIOUS
        <4>1. NextFile(q) = Len(ran) + 1
          BY <1>0, OpenIsNext DEF Progress
        <4> QED
          BY <1>2, <3>1, <4>1 DEF Migrate
      <3>3. \A q \in Proc : pc'[q] = "commit" => q = p
        BY <1>0, <1>2, <3>2 DEF Migrate, Goto, TypeOK
      <3>4. \A q \in Proc : Pending(q)' = Pending(q) /\ NextFile(q)' = NextFile(q)
        BY <2>1, SameNext
      <3> QED
        BY <1>0, <2>1, <2>3, <3>1, <3>3, <3>4 DEF Progress
    <2> QED
      BY <2>2, <2>3
  <1>3. ASSUME NEW p \in Proc, Commit(p) PROVE Progress'
    <2>1. /\ NextFile(p) = Len(ran) + 1 /\ NextFile(p) \in 1..Files[p]
          /\ seen[p] = 1..Len(ran)
      BY <1>0, <1>3, OpenIsNext DEF Commit, Progress
    <2>2. NextFile(p) \in Version
      BY <2>1 DEF Version
    <2>3. /\ Len(ran') = Len(ran) + 1
          /\ \A i \in 1..Len(ran') : ran'[i] = IF i <= Len(ran) THEN ran[i] ELSE Len(ran) + 1
      BY <1>0, <1>3, <2>1, <2>2 DEF Commit, TypeOK
    <2>4. \A i \in 1..Len(ran') : ran'[i] = i
      BY <1>0, <2>3 DEF Progress
    <2>5. 1..(Len(ran) + 1) = (1..Len(ran)) \cup {Len(ran) + 1}
      BY <1>0
    <2>6. applied' = 1..Len(ran') /\ seen'[p] = 1..Len(ran')
      BY <1>0, <1>3, <2>1, <2>3, <2>5 DEF Commit, Progress, TypeOK
    <2>7. \A q \in Proc : q # p => seen'[q] = seen[q]
      BY <1>0, <1>3 DEF Commit, TypeOK
    <2>8. \A q \in Proc : \E m \in Nat : seen'[q] = 1..m
      BY <1>0, <2>3, <2>6, <2>7 DEF Progress
    <2>9. \A q \in Proc : pc'[q] # "commit"
      BY <1>0, <1>3 DEF Commit, Goto, TypeOK, Progress
    <2> QED
      BY <2>4, <2>6, <2>8, <2>9 DEF Progress
  <1>4. ASSUME NEW p \in Proc, ConnectStore(p) \/ LoadSettings(p) \/ Crash(p) PROVE Progress'
    <2>1. UNCHANGED <<database, seen>>
      BY <1>4 DEF ConnectStore, LoadSettings, Crash, database
    <2>2. \A q \in Proc : pc'[q] = "commit" => pc[q] = "commit"
      BY <1>0, <1>4 DEF ConnectStore, LoadSettings, Crash, Goto, TypeOK
    <2> QED
      BY <1>0, <2>1, <2>2, ProgressKept
  <1>5. CASE UNCHANGED <<database, process>>
    BY <1>0, <1>5, ProgressKept DEF process, database
  <1>6. ASSUME NEW w \in Write, SetCache(w) \/ Backup(w) PROVE Progress'
    BY <1>5, <1>6 DEF SetCache, Backup
  <1> QED
    BY <1>1, <1>2, <1>3, <1>4, <1>5, <1>6 DEF Next, Start, vars

\* Every step keeps the schema of the processes that serve.
LEMMA NextReady == IInv /\ [Next]_vars => SchemaReady'
  <1> SUFFICES ASSUME IInv, [Next]_vars, NEW q \in Proc, pc'[q] \in {"load", "up"}
               PROVE  1..Files[q] \subseteq applied'
    BY DEF SchemaReady
  <1> USE DEF IInv, TypeOK, Goto
  <1>1. applied \subseteq applied'
    BY DEF Next, Start, Boot, Migrate, Commit, ConnectStore, LoadSettings, Crash,
           SetCache, Backup, vars, database
  <1>2. CASE pc[q] \in {"load", "up"}
    BY <1>1, <1>2 DEF SchemaReady
  <1>3. CASE pc[q] \notin {"load", "up"}
    <2>1. PICK p \in Proc : ConnectStore(p) /\ q = p
      BY <1>3 DEF Next, Start, Boot, Migrate, Commit, ConnectStore, LoadSettings, Crash,
                  SetCache, Backup, vars, process
    <2>2. 1..Files[q] \subseteq seen[q]
      BY <2>1 DEF ConnectStore, Pending
    <2> QED
      BY <1>1, <2>2
  <1> QED
    BY <1>2, <1>3

\* Every step keeps the order of the writes.
LEMMA NextSetting ==
  IInv /\ [Next]_vars => Answered' /\ NoOlderSetting'
  <1> SUFFICES ASSUME IInv, [Next]_vars PROVE Answered' /\ NoOlderSetting'
    OBVIOUS
  <1> USE DEF IInv, TypeOK, Answered, NoOlderSetting
  <1>1. CASE UNCHANGED <<backup, stage, before, saved>>
    BY <1>1
  <1>2. ASSUME NEW p \in Proc, Start(p) PROVE UNCHANGED <<backup, stage, before, saved>>
    BY <1>2 DEF Start, Boot, Migrate, Commit, ConnectStore, LoadSettings, writing
  <1>3. ASSUME NEW p \in Proc, Crash(p) PROVE Answered' /\ NoOlderSetting'
    <2>1. \A w \in Write : stage[w] = "done" => stage'[w] = "done"
      BY <1>3 DEF Crash
    <2> QED
      BY <1>3, <2>1 DEF Crash
  <1>4. ASSUME NEW w \in Write, SetCache(w) PROVE Answered' /\ NoOlderSetting'
    <2>1. /\ w \notin saved /\ backup' = backup /\ saved' = saved
          /\ \A v \in Write : v # w => before'[v] = before[v] /\ stage'[v] = stage[v]
          /\ before'[w] = {v \in Write : stage[v] = "done"}
          /\ stage[w] = "new"
      BY <1>4 DEF SetCache
    <2> QED
      BY <2>1
  <1>5. ASSUME NEW w \in Write, Backup(w) PROVE Answered' /\ NoOlderSetting'
    <2>1. /\ stage[w] = "backup" /\ before' = before /\ stage'[w] = "done"
          /\ \A v \in Write : v # w => stage'[v] = stage[v]
      BY <1>5 DEF Backup
    <2>2. \A v \in Write : w \notin before[v]
      BY <2>1
    <2> QED
      BY <1>5, <2>1, <2>2 DEF Backup
  <1>6. CASE UNCHANGED vars
    BY <1>1, <1>6 DEF vars, writing
  <1> QED
    BY <1>1, <1>2, <1>3, <1>4, <1>5, <1>6 DEF Next

\* The invariant holds throughout.
THEOREM Inductive == Spec => []IInv
  <1>1. IInv /\ [Next]_vars => IInv'
    BY NextType, NextProgress, NextReady, NextSetting DEF IInv
  <1> QED
    BY InitInv, <1>1, PTL DEF Spec

-----------------------------------------------------------------------------
(* The theorems                                                            *)

\* The variables keep their types, whatever images are started together.
THEOREM TypeCorrect == Spec => []TypeOK
  <1>1. IInv => TypeOK
    BY DEF IInv
  <1> QED
    BY Inductive, <1>1, PTL

\* run_migrations: however many processes start at once and wherever they are
\* stopped, each migration is committed once and in the order of the names.
THEOREM MigrationsOnceInOrder == Spec => []MigrationsInOrder
  <1>1. IInv => MigrationsInOrder
    <2> SUFFICES ASSUME IInv PROVE MigrationsInOrder
      OBVIOUS
    <2>1. DOMAIN ran = 1..Len(ran)
      BY DEF IInv, TypeOK
    <2> QED
      BY <2>1 DEF IInv, Progress, MigrationsInOrder
  <1> QED
    BY Inductive, <1>1, PTL

\* lifespan: a process serves with every migration of its image applied.
THEOREM ServesWithSchema == Spec => []SchemaReady
  <1>1. IInv => SchemaReady
    BY DEF IInv
  <1> QED
    BY Inductive, <1>1, PTL

\* settings.update: Redis never goes back to a setting that had been answered
\* before one that was saved was sent.
THEOREM SettingNotUndone == Spec => []NoOlderSetting
  <1>1. IInv => NoOlderSetting
    BY DEF IInv
  <1> QED
    BY Inductive, <1>1, PTL

=============================================================================

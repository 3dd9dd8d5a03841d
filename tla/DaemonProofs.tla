---------------------------- MODULE DaemonProofs ----------------------------
(***************************************************************************)
(* Proofs about the processes, for any number of them, on Unix and on      *)
(* Windows, whatever runs at first: the lock excludes, a ready daemon is   *)
(* found, and a restart on Unix starts nothing.                            *)
(***************************************************************************)
EXTENDS DaemonProps, FiniteSetTheorems, TLAPS

TypeD ==
    /\ platform \in {"unix", "windows"}
    /\ kind = [p \in Procs |-> kind[p]]
    /\ at = [p \in Procs |-> at[p]]
    /\ inode = [p \in Procs |-> inode[p]]
    /\ holds \in [Procs -> BOOLEAN]
    /\ ipc = [p \in Procs |-> ipc[p]]
    /\ ending = [p \in Procs |-> ending[p]]
    /\ \A p \in Procs : ending[p] = [g \in Goroutines |-> ending[p][g]]
    /\ conn = [p \in Procs |-> conn[p]]
    /\ token = [p \in Procs |-> token[p]]
    /\ readyAt = [p \in Procs |-> readyAt[p]]
    /\ socket \in Procs \cup {Nobody}
    /\ spawned \subseteq Procs

-----------------------------------------------------------------------------
\* The steps, as far as the proofs tell them apart.

\* Processes of S end, by themselves or not; others may have stopped them.
Death(S) ==
    /\ \A p \in S : kind[p] # "none" /\ at'[p] = "ended" /\ ~holds'[p] /\ inode'[p] = NoFile /\ ipc'[p] = "off"
    /\ \A p \in Procs \ S :
          /\ holds'[p] = holds[p] /\ inode'[p] = inode[p] /\ ipc'[p] = ipc[p]
          /\ \/ at'[p] = at[p]
             \/ at[p] = "start" /\ at'[p] = "stopped" /\ kind[p] \in {"stop", "restart", "reset"}
                /\ platform # "unix"
    /\ UNCHANGED <<platform, kind, lockPath, removed, overlap, socket, tokenFile, ending, asking>>

\* A process goes on, and nothing is done that another one sees.
Progress(p, to) ==
    /\ at' = [at EXCEPT ![p] = to]
    /\ to \notin {"start", "opened"}
    /\ UNCHANGED <<platform, kind, locks, serving, ending>>

\* A goroutine begins to end the daemon.
BeginEnding(p, g) ==
    /\ PastLock(p) /\ ending[p][g] = "no"
    /\ ending' = [ending EXCEPT ![p][g] = "unlock"]
    /\ UNCHANGED <<platform, kind, at, locks, serving, asking>>

LEMMA EndsIsDeath == ASSUME TypeD, NEW p \in Procs, kind[p] # "none", Ends(p) PROVE TypeD' /\ Death({p})
<1>1. Death({p})
  BY DEF Ends, EndOf, TypeD, Death
<1>2. TypeD'
  BY DEF Ends, EndOf, TypeD, asking
<1> QED BY <1>1, <1>2

LEMMA StopIsDeath ==
    ASSUME TypeD, NEW c \in Procs, RunStop(c)
    PROVE  TypeD' /\ \E S \in SUBSET Procs : Death(S)
<1> DEFINE S == Victims(c) \ (IF platform = "windows" THEN {} ELSE Handlers)
<1>1. S \subseteq Procs /\ \A p \in S : kind[p] # "none"
  BY DEF Victims, Alive
<1>2. platform = "unix" => c \in S
  BY DEF RunStop, Victims, Handlers, Up, Alive
<1>3. Death(S)
  BY <1>1, <1>2 DEF RunStop, TypeD, Death
<1>4. TypeD'
  BY DEF RunStop, TypeD, asking
<1> QED BY <1>1, <1>3, <1>4

Places == {"locked", "opening kv", "opening vectors", "routing", "routed", "in tray"}

DaemonGoes(p) ==
    /\ PastLock(p) /\ UNCHANGED asking
    /\ \E to \in Places : Progress(p, to)

AgentGoes(p) ==
    /\ kind[p] = "agent" /\ UNCHANGED asking
    /\ \E to \in {"opening vectors", "answering"} : Progress(p, to)

Locks(p) == TryLock(p) /\ ~LockedFile(inode[p])

Spawns(c) ==
    \/ kind[c] \in {"restart", "reset"} /\ Spawn(c, "stopped", "spawned")
    \/ kind[c] = "start" /\ Spawn(c, "start", "spawned")
    \/ kind[c] = "ask" /\ Spawn(c, "spawning", "waiting")

Asks(c) == BeginAsking(c) \/ Dial(c) \/ ReadToken(c) \/ Authenticated(c) \/ TryAgain(c)

Shape ==
    \/ \E S \in SUBSET Procs : Death(S)
    \/ \E p \in Procs : \/ OpenLock(p) \/ Locks(p) \/ Listen(p) \/ GenerateToken(p)
                        \/ DaemonGoes(p) \/ AgentGoes(p) \/ Spawns(p) \/ Asks(p)
                        \/ \E g \in Goroutines : Unlock(p, g) \/ RemoveLock(p, g) \/ BeginEnding(p, g)

LEMMA ProgressType == ASSUME TypeD, NEW p \in Procs, NEW to, Progress(p, to), UNCHANGED asking PROVE TypeD'
  BY DEF Progress, TypeD, locks, serving, asking

LEMMA DaemonShape ==
    ASSUME TypeD, NEW p \in Procs, DaemonStep(p)
    PROVE  TypeD' /\ Shape
<1>1. CASE kind[p] # "none" /\ Ends(p)
  BY <1>1, EndsIsDeath DEF Shape
<1>2. CASE OpenLock(p)
  BY <1>2 DEF OpenLock, TypeD, Shape, Go, serving, asking
<1>3. CASE TryLock(p) /\ ~LockedFile(inode[p])
  <2>1. /\ at' = [at EXCEPT ![p] = "locked"] /\ holds' = [holds EXCEPT ![p] = TRUE]
        /\ UNCHANGED <<platform, kind, inode, serving, ending, asking>>
    BY <1>3 DEF TryLock, Go
  <2>2. TypeD'
    BY <2>1 DEF TypeD, serving, asking
  <2> QED BY <1>3, <2>2 DEF Locks, Shape
<1>4. CASE Listen(p)
  BY <1>4 DEF Listen, Up, TypeD, Shape, locks, asking
<1>5. CASE GenerateToken(p)
  BY <1>5 DEF GenerateToken, TypeD, Shape, locks, asking
<1>6. CASE HandleSignals(p)
  <2>1. DaemonGoes(p)
    BY <1>6 DEF HandleSignals, Go, DaemonGoes, PastLock, Progress, Places, locks, serving
  <2>2. TypeD'
    BY <2>1, ProgressType DEF DaemonGoes
  <2> QED BY <2>1, <2>2 DEF Shape
<1>7. CASE OpenStores(p)
  <2>1. DaemonGoes(p)
    BY <1>7 DEF OpenStores, OpenStore, DaemonGoes, PastLock, Progress, Places, locks, serving
  <2>2. TypeD'
    BY <2>1, ProgressType DEF DaemonGoes
  <2> QED BY <2>1, <2>2 DEF Shape
<1>8. CASE RegisterRoutes(p)
  <2>1. CASE at' = [at EXCEPT ![p] = "routed"] /\ UNCHANGED ending
    BY <1>8, <2>1 DEF RegisterRoutes, TypeD, Shape, DaemonGoes, PastLock, Progress, Places, locks, serving, asking
  <2>2. CASE UNCHANGED at /\ ending[p]["main"] = "no" /\ ending' = [ending EXCEPT ![p]["main"] = "unlock"]
    <3>1. BeginEnding(p, "main") /\ "main" \in Goroutines
      BY <1>8, <2>2 DEF RegisterRoutes, BeginEnding, PastLock, Goroutines
    <3>2. TypeD'
      BY <1>8, <2>2 DEF RegisterRoutes, TypeD, locks, serving, asking, Goroutines
    <3> QED BY <3>1, <3>2 DEF Shape
  <2> QED BY <1>8, <2>1, <2>2 DEF RegisterRoutes
<1>9. CASE SetupTray(p) /\ platform # "unix"
  <2>1. DaemonGoes(p)
    BY <1>9 DEF SetupTray, Go, DaemonGoes, PastLock, Progress, Places, locks, serving
  <2>2. TypeD'
    BY <2>1, ProgressType DEF DaemonGoes
  <2> QED BY <2>1, <2>2 DEF Shape
<1>10. ASSUME NEW g \in Goroutines, TakeSignal(p, g) PROVE TypeD' /\ Shape
  <2>1. BeginEnding(p, g)
    BY <1>10 DEF TakeSignal, BeginEnding, Handlers, Up, PastLock
  <2>2. TypeD'
    BY <1>10 DEF TakeSignal, TypeD, locks, serving, asking, Goroutines
  <2> QED BY <2>1, <2>2 DEF Shape
<1>11. ASSUME NEW g \in Goroutines, Unlock(p, g) PROVE TypeD' /\ Shape
  BY <1>11 DEF Unlock, TypeD, Shape, serving, asking, Goroutines
<1>12. ASSUME NEW g \in Goroutines, RemoveLock(p, g) PROVE TypeD' /\ Shape
  BY <1>12 DEF RemoveLock, TypeD, Shape, serving, asking, Goroutines
<1> QED
  BY <1>1, <1>2, <1>3, <1>4, <1>5, <1>6, <1>7, <1>8, <1>9, <1>10, <1>11, <1>12
  DEF DaemonStep, CannotOpenLock, TryLock, SetupTray, Exit, Alive

LEMMA CommandShape ==
    ASSUME TypeD, NEW c \in Procs, CommandStep(c)
    PROVE  TypeD' /\ Shape
<1>1. CASE RunStop(c)
  BY <1>1, StopIsDeath DEF Shape
<1>2. CASE Spawns(c)
  <2>1. PICK from, to : Spawn(c, from, to)
    BY <1>2 DEF Spawns
  <2>2. TypeD'
    BY <2>1 DEF Spawn, Go, TypeD, locks, serving
  <2> QED BY <1>2, <2>2 DEF Shape
<1>3. CASE Asks(c)
  <2>1. UNCHANGED <<platform, kind, locks, serving, ending, spawned>>
    BY <1>3 DEF Asks, BeginAsking, Dial, ReadToken, Authenticated, TryAgain, asking
  <2>2. at' = [q \in Procs |-> at'[q]] /\ conn' = [q \in Procs |-> conn'[q]]
    BY <1>3 DEF Asks, BeginAsking, Dial, ReadToken, Authenticated, TryAgain, Go, TypeD, asking
  <2>3. token' = [q \in Procs |-> token'[q]] /\ readyAt' = [q \in Procs |-> readyAt'[q]]
    BY <1>3 DEF Asks, BeginAsking, Dial, ReadToken, Authenticated, TryAgain, Go, TypeD, asking
  <2>4. TypeD'
    BY <2>1, <2>2, <2>3 DEF TypeD, locks, serving
  <2> QED BY <1>3, <2>4 DEF Shape
<1>4. CASE kind[c] # "none" /\ Ends(c)
  BY <1>4, EndsIsDeath DEF Shape
<1>5. CASE kind[c] = "none"
  BY <1>5 DEF CommandStep, RunStop, AfterStop, StartDetached, BeginAsking, Dial, ReadToken,
              Authenticated, TryAgain
<1> QED
  BY <1>1, <1>2, <1>3, <1>4, <1>5 DEF CommandStep, AfterStop, StartDetached, Spawns, Asks

LEMMA NextShape == TypeD /\ Next => TypeD' /\ Shape
<1> SUFFICES ASSUME TypeD, NEW p \in Procs, DaemonStep(p) \/ AgentStep(p) \/ CommandStep(p) \/ Killed(p)
             PROVE  TypeD' /\ Shape
  BY DEF Next
<1>1. CASE AgentStep(p)
  <2>1. CASE Ends(p)
    BY <1>1, <2>1, EndsIsDeath DEF AgentStep, Shape
  <2>2. CASE \E s \in Stores, to \in {"opening vectors", "answering"} : OpenStore(p, s, to)
    <3>1. AgentGoes(p)
      BY <1>1, <2>2 DEF AgentStep, OpenStore, AgentGoes, Progress, locks, serving
    <3>2. TypeD'
      BY <3>1, ProgressType DEF AgentGoes
    <3> QED BY <3>1, <3>2 DEF Shape
  <2> QED BY <1>1, <2>1, <2>2 DEF AgentStep, OpenAgentStore, Stores
<1>2. CASE Killed(p)
  BY <1>2, EndsIsDeath DEF Killed, Shape
<1> QED BY <1>1, <1>2, DaemonShape, CommandShape

-----------------------------------------------------------------------------
\* The lock.

\* What is opened is what has the name, unless a file was removed that another process
\* had opened.
OpenHasName == \A p \in Procs : inode[p] # NoFile => inode[p] = lockPath

HeldIsOpen == \A p \in Procs : holds[p] \/ at[p] = "opened" => inode[p] # NoFile

HeldByOne == \A p, q \in Procs : holds[p] /\ holds[q] => p = q

\* A daemon that ends has had the lock, and closes its file before it removes the name.
EndsAfterLock == \A p \in Procs, g \in Goroutines : ending[p][g] # "no" => at[p] \notin {"start", "opened"}

RemovesWhenClosed ==
    \A p \in Procs, g \in Goroutines : ending[p][g] \in {"remove", "exit"} => inode[p] = NoFile

LockInv ==
    /\ EndsAfterLock
    /\ removed => platform = "unix"
    /\ ~removed => OpenHasName /\ HeldIsOpen /\ HeldByOne /\ RemovesWhenClosed

LEMMA LeastOfFiles == Least(Files) \in Files
<1>1. Cardinality(Procs) \in Nat
  BY ProcsAssumption, FS_CardinalityType
<1>2. 1 \in Files /\ \A j \in Files : 1 <= j
  BY <1>1 DEF Files
<1> QED BY <1>2 DEF Least

LEMMA LockWhenOpened ==
    ASSUME TypeD, LockInv, NEW p \in Procs, OpenLock(p)
    PROVE  LockInv'
<1>1. /\ at[p] = "start" /\ at' = [at EXCEPT ![p] = "opened"]
      /\ UNCHANGED <<platform, holds, removed, ending>>
  BY DEF OpenLock, Go
<1>2. EndsAfterLock'
  BY <1>1 DEF TypeD, LockInv, EndsAfterLock
<1>3. SUFFICES ASSUME ~removed PROVE (OpenHasName /\ HeldIsOpen /\ HeldByOne /\ RemovesWhenClosed)'
  BY <1>1, <1>2 DEF LockInv
<1>4. OpenHasName /\ HeldIsOpen /\ HeldByOne /\ RemovesWhenClosed
  BY <1>3 DEF LockInv
<1>5. PICK i : inode' = [inode EXCEPT ![p] = i] /\ lockPath' = i /\ i # NoFile
               /\ (lockPath # NoFile => i = lockPath)
  <2>1. CASE lockPath # NoFile
    BY <2>1 DEF OpenLock, TypeD
  <2>2. CASE lockPath = NoFile
    <3>1. \A q \in Procs : inode[q] = NoFile
      BY <1>4, <2>2 DEF OpenHasName
    <3>2. Files \ {inode[q] : q \in Procs} = Files
      BY <3>1 DEF Files, NoFile
    <3>3. Least(Files) # NoFile
      <4>1. Least(Files) \in Files
        BY LeastOfFiles
      <4> QED BY <4>1 DEF Files, NoFile
    <3>4. inode' = [inode EXCEPT ![p] = Least(Files)] /\ lockPath' = inode'[p]
      BY <2>2, <3>2 DEF OpenLock
    <3>5. inode'[p] = Least(Files)
      BY <3>4 DEF TypeD
    <3> QED BY <2>2, <3>3, <3>4, <3>5
  <2> QED BY <2>1, <2>2
<1>6. inode'[p] = i /\ \A q \in Procs \ {p} : inode'[q] = inode[q]
  BY <1>5 DEF TypeD
<1>7. OpenHasName'
  BY <1>4, <1>5, <1>6 DEF OpenHasName
<1>8. HeldIsOpen'
  BY <1>1, <1>4, <1>5, <1>6 DEF HeldIsOpen, TypeD
<1>9. HeldByOne'
  BY <1>1, <1>4 DEF HeldByOne
<1>10. RemovesWhenClosed'
  BY <1>1, <1>4, <1>6 DEF RemovesWhenClosed, LockInv, EndsAfterLock
<1> QED BY <1>7, <1>8, <1>9, <1>10

LEMMA LockWhenLocked ==
    ASSUME TypeD, LockInv, NEW p \in Procs, Locks(p)
    PROVE  LockInv'
<1>1. /\ at[p] = "opened" /\ at' = [at EXCEPT ![p] = "locked"]
      /\ holds' = [holds EXCEPT ![p] = TRUE]
      /\ UNCHANGED <<platform, inode, lockPath, removed, ending>>
      /\ \A q \in Procs : holds[q] => inode[q] # inode[p]
  BY DEF Locks, LockedFile, TryLock, Go
<1>2. EndsAfterLock'
  BY <1>1 DEF TypeD, LockInv, EndsAfterLock
<1>3. SUFFICES ASSUME ~removed PROVE (OpenHasName /\ HeldIsOpen /\ HeldByOne /\ RemovesWhenClosed)'
  BY <1>1, <1>2 DEF LockInv
<1>4. OpenHasName /\ HeldIsOpen /\ HeldByOne /\ RemovesWhenClosed
  BY <1>3 DEF LockInv
<1>5. OpenHasName' /\ RemovesWhenClosed'
  BY <1>1, <1>4 DEF OpenHasName, RemovesWhenClosed
<1>6. HeldIsOpen'
  BY <1>1, <1>4 DEF HeldIsOpen, TypeD
<1>7. \A q \in Procs : ~holds[q]
  BY <1>1, <1>4 DEF HeldIsOpen, OpenHasName
<1>8. HeldByOne'
  BY <1>1, <1>7 DEF HeldByOne, TypeD
<1> QED BY <1>5, <1>6, <1>8

LEMMA LockWhenUnlocked ==
    ASSUME TypeD, LockInv, NEW p \in Procs, NEW g \in Goroutines, Unlock(p, g)
    PROVE  LockInv'
<1>1. /\ ending[p][g] = "unlock" /\ UNCHANGED <<platform, at, lockPath, removed>>
      /\ holds' = [holds EXCEPT ![p] = FALSE] /\ inode' = [inode EXCEPT ![p] = NoFile]
      /\ ending' = [ending EXCEPT ![p][g] = "remove"]
  BY DEF Unlock
<1>2. /\ ~holds'[p] /\ \A q \in Procs \ {p} : holds'[q] = holds[q]
      /\ inode'[p] = NoFile /\ \A q \in Procs \ {p} : inode'[q] = inode[q] /\ ending'[q] = ending[q]
  BY <1>1 DEF TypeD
<1>3. \A h \in Goroutines : ending'[p][h] # "no" => h = g \/ ending[p][h] # "no"
  BY <1>1 DEF TypeD
<1>4. at[p] \notin {"start", "opened"}
  BY <1>1 DEF LockInv, EndsAfterLock
<1>5. EndsAfterLock'
  BY <1>1, <1>2, <1>4 DEF LockInv, EndsAfterLock
<1>6. SUFFICES ASSUME ~removed PROVE (OpenHasName /\ HeldIsOpen /\ HeldByOne /\ RemovesWhenClosed)'
  BY <1>1, <1>5 DEF LockInv
<1>7. OpenHasName /\ HeldIsOpen /\ HeldByOne /\ RemovesWhenClosed
  BY <1>6 DEF LockInv
<1>8. OpenHasName' /\ HeldByOne'
  BY <1>1, <1>2, <1>7 DEF OpenHasName, HeldByOne
<1>9. HeldIsOpen'
  BY <1>1, <1>2, <1>4, <1>7 DEF HeldIsOpen
<1>10. RemovesWhenClosed'
  BY <1>2, <1>7 DEF RemovesWhenClosed
<1> QED BY <1>8, <1>9, <1>10

LEMMA LockWhenRemoved ==
    ASSUME TypeD, LockInv, NEW p \in Procs, NEW g \in Goroutines, RemoveLock(p, g)
    PROVE  LockInv'
<1> DEFINE others == {q \in Procs \ {p} : inode[q] = lockPath /\ lockPath # NoFile}
<1>1. /\ ending[p][g] = "remove" /\ UNCHANGED <<platform, at, inode, holds>>
      /\ ending' = [ending EXCEPT ![p][g] = "exit"]
      /\ \/ UNCHANGED <<lockPath, removed>>
         \/ /\ ~(platform = "windows" /\ others # {})
            /\ lockPath' = NoFile /\ removed' = (removed \/ others # {})
  BY DEF RemoveLock
<1>2. /\ \A q \in Procs \ {p} : ending'[q] = ending[q]
      /\ \A h \in Goroutines : ending'[p][h] = IF h = g THEN "exit" ELSE ending[p][h]
  BY <1>1 DEF TypeD
<1>3. EndsAfterLock'
  BY <1>1, <1>2 DEF LockInv, EndsAfterLock
<1>4. removed' => platform' = "unix"
  BY <1>1 DEF LockInv, TypeD
<1>5. ASSUME ~removed' PROVE (OpenHasName /\ HeldIsOpen /\ HeldByOne /\ RemovesWhenClosed)'
  <2>1. ~removed
    BY <1>1, <1>5
  <2>2. OpenHasName /\ HeldIsOpen /\ HeldByOne /\ RemovesWhenClosed
    BY <2>1 DEF LockInv
  <2>3. HeldIsOpen' /\ HeldByOne'
    BY <1>1, <2>2 DEF HeldIsOpen, HeldByOne
  <2>4. RemovesWhenClosed'
    BY <1>1, <1>2, <2>2 DEF RemovesWhenClosed
  <2>5. OpenHasName'
    <3>1. CASE UNCHANGED lockPath
      BY <1>1, <2>2, <3>1 DEF OpenHasName
    <3>2. CASE others = {}
      <4>1. inode[p] = NoFile
        BY <1>1, <2>2 DEF RemovesWhenClosed
      <4>2. \A q \in Procs : inode[q] = NoFile
        BY <2>2, <3>2, <4>1 DEF OpenHasName
      <4> QED BY <1>1, <4>2 DEF OpenHasName
    <3> QED BY <1>1, <1>5, <3>1, <3>2
  <2> QED BY <2>3, <2>4, <2>5
<1> QED BY <1>3, <1>4, <1>5 DEF LockInv

LEMMA LockWhenDead ==
    ASSUME TypeD, LockInv, NEW S \in SUBSET Procs, Death(S)
    PROVE  LockInv'
<1>1. /\ UNCHANGED <<platform, lockPath, removed, ending>>
      /\ \A p \in S : at'[p] = "ended" /\ ~holds'[p] /\ inode'[p] = NoFile
      /\ \A p \in Procs \ S : holds'[p] = holds[p] /\ inode'[p] = inode[p] /\ (at'[p] = at[p] \/ at'[p] = "stopped")
  BY DEF Death
<1>2. EndsAfterLock'
  BY <1>1 DEF LockInv, EndsAfterLock
<1>3. SUFFICES ASSUME ~removed PROVE (OpenHasName /\ HeldIsOpen /\ HeldByOne /\ RemovesWhenClosed)'
  BY <1>1, <1>2 DEF LockInv
<1>4. OpenHasName /\ HeldIsOpen /\ HeldByOne /\ RemovesWhenClosed
  BY <1>3 DEF LockInv
<1>5. OpenHasName' /\ HeldIsOpen' /\ HeldByOne'
  BY <1>1, <1>4 DEF OpenHasName, HeldIsOpen, HeldByOne
<1>6. RemovesWhenClosed'
  BY <1>1, <1>4 DEF RemovesWhenClosed
<1> QED BY <1>5, <1>6

\* Other steps only move a process on that does not open the lock.
LEMMA LockOtherwise ==
    ASSUME TypeD, LockInv, UNCHANGED <<platform, lockPath, removed, inode, holds>>,
           \A p \in Procs : at'[p] = at[p] \/ at'[p] \notin {"start", "opened"},
           \A p \in Procs : ending'[p] = ending[p] \/ \E g \in Goroutines : BeginEnding(p, g)
    PROVE  LockInv'
<1>1. ASSUME NEW p \in Procs, NEW g \in Goroutines, BeginEnding(p, g)
      PROVE  /\ at'[p] = at[p] /\ at[p] \notin {"start", "opened"}
             /\ \A h \in Goroutines : ending'[p][h] = IF h = g THEN "unlock" ELSE ending[p][h]
  <2>1. UNCHANGED at /\ ending' = [ending EXCEPT ![p][g] = "unlock"] /\ at[p] \notin {"start", "opened"}
    BY <1>1 DEF BeginEnding, PastLock
  <2> QED BY <2>1 DEF TypeD
<1>2. EndsAfterLock'
  BY <1>1 DEF LockInv, EndsAfterLock
<1>3. SUFFICES ASSUME ~removed PROVE (OpenHasName /\ HeldIsOpen /\ HeldByOne /\ RemovesWhenClosed)'
  BY <1>2 DEF LockInv
<1>4. OpenHasName /\ HeldIsOpen /\ HeldByOne /\ RemovesWhenClosed
  BY <1>3 DEF LockInv
<1>5. OpenHasName' /\ HeldIsOpen' /\ HeldByOne'
  BY <1>4 DEF OpenHasName, HeldIsOpen, HeldByOne
<1>6. RemovesWhenClosed'
  BY <1>1, <1>4 DEF RemovesWhenClosed
<1> QED BY <1>5, <1>6

\* Which places the other steps lead to.
LEMMA OtherSteps ==
    ASSUME TypeD, NEW p \in Procs,
           \/ Listen(p) \/ GenerateToken(p) \/ DaemonGoes(p) \/ AgentGoes(p) \/ Spawns(p) \/ Asks(p)
           \/ \E g \in Goroutines : BeginEnding(p, g)
    PROVE  /\ UNCHANGED <<platform, lockPath, removed, inode, holds>>
           /\ \A q \in Procs : at'[q] = at[q] \/ at'[q] \notin {"start", "opened"}
           /\ UNCHANGED ending \/ \E g \in Goroutines : BeginEnding(p, g)
<1>1. CASE Listen(p) \/ GenerateToken(p)
  BY <1>1 DEF Listen, GenerateToken, locks
<1>2. CASE DaemonGoes(p) \/ AgentGoes(p)
  <2>1. PICK to \in Places \cup {"opening vectors", "answering"} : Progress(p, to)
    BY <1>2 DEF DaemonGoes, AgentGoes
  <2>2. \A q \in Procs : at'[q] = at[q] \/ at'[q] = to
    BY <2>1 DEF Progress, TypeD
  <2> QED BY <2>1, <2>2 DEF Progress, locks
<1>3. CASE Spawns(p)
  <2>1. PICK from \in {"stopped", "start", "spawning"}, to \in {"spawned", "waiting"} : Spawn(p, from, to)
    BY <1>3 DEF Spawns
  <2>2. \A q \in Procs : at'[q] = at[q] \/ at'[q] = to
    BY <2>1 DEF Spawn, Go, TypeD
  <2> QED BY <2>1, <2>2 DEF Spawn, locks
<1>4. CASE Asks(p)
  <2>1. UNCHANGED <<platform, locks, ending>>
    BY <1>4 DEF Asks, BeginAsking, Dial, ReadToken, Authenticated, TryAgain
  <2>2. \A q \in Procs : at'[q] = at[q] \/ at'[q] \notin {"start", "opened"}
    <3>1. CASE BeginAsking(p)
      BY <3>1 DEF BeginAsking, Go, TypeD
    <3>2. CASE Dial(p)
      BY <3>2 DEF Dial, Offline, TypeD
    <3>3. CASE ReadToken(p)
      BY <3>3 DEF ReadToken, TypeD
    <3>4. CASE Authenticated(p)
      BY <3>4 DEF Authenticated, Offline, TypeD
    <3>5. CASE TryAgain(p)
      BY <3>5 DEF TryAgain, TypeD
    <3> QED BY <1>4, <3>1, <3>2, <3>3, <3>4, <3>5 DEF Asks
  <2> QED BY <2>1, <2>2 DEF locks
<1>5. CASE \E g \in Goroutines : BeginEnding(p, g)
  BY <1>5 DEF BeginEnding, locks
<1> QED BY <1>1, <1>2, <1>3, <1>4, <1>5

LEMMA LockSteps == TypeD /\ LockInv /\ Shape => LockInv'
<1> SUFFICES ASSUME TypeD, LockInv, Shape PROVE LockInv'
  OBVIOUS
<1>1. CASE \E S \in SUBSET Procs : Death(S)
  BY <1>1, LockWhenDead
<1>2. ASSUME NEW p \in Procs, OpenLock(p) \/ Locks(p) \/ \E g \in Goroutines : Unlock(p, g) \/ RemoveLock(p, g)
      PROVE  LockInv'
  BY <1>2, LockWhenOpened, LockWhenLocked, LockWhenUnlocked, LockWhenRemoved
<1>3. ASSUME NEW p \in Procs,
             \/ Listen(p) \/ GenerateToken(p) \/ DaemonGoes(p) \/ AgentGoes(p) \/ Spawns(p) \/ Asks(p)
             \/ \E g \in Goroutines : BeginEnding(p, g)
      PROVE  LockInv'
  <2>1. /\ UNCHANGED <<platform, lockPath, removed, inode, holds>>
        /\ \A q \in Procs : at'[q] = at[q] \/ at'[q] \notin {"start", "opened"}
        /\ UNCHANGED ending \/ \E g \in Goroutines : BeginEnding(p, g)
    BY <1>3, OtherSteps
  <2>2. \A q \in Procs : ending'[q] = ending[q] \/ \E g \in Goroutines : BeginEnding(q, g)
    <3>1. CASE UNCHANGED ending
      BY <3>1
    <3>2. ASSUME NEW g \in Goroutines, BeginEnding(p, g)
          PROVE  \A q \in Procs : ending'[q] = ending[q] \/ BeginEnding(q, g)
      BY <3>2 DEF BeginEnding, TypeD
    <3> QED BY <2>1, <3>1, <3>2
  <2> QED BY <2>1, <2>2, LockOtherwise
<1> QED BY <1>1, <1>2, <1>3 DEF Shape

LEMMA TypeOfDaemon == Init => TypeD
  BY ProcsAssumption DEF Init, TypeD, NoFile

LEMMA TypeOfSteps == TypeD /\ [Next]_vars => TypeD' /\ (Shape \/ UNCHANGED vars)
<1>1. TypeD /\ UNCHANGED vars => TypeD'
  BY DEF TypeD, vars, locks, serving, asking
<1> QED BY <1>1, NextShape

\* The lock excludes, but for a file that is removed while another process has it open,
\* which only Unix allows.
THEOREM LockExcludes == Spec => []OneHolder
<1>1. Init => LockInv
  <2> SUFFICES ASSUME Init PROVE LockInv
    OBVIOUS
  <2>1. \A p \in Procs : inode[p] = NoFile /\ ~holds[p] /\ at[p] = "start"
    BY DEF Init
  <2>2. \A p \in Procs, g \in Goroutines : ending[p][g] = "no"
    BY DEF Init
  <2>3. ~removed
    BY DEF Init
  <2> QED
    BY <2>1, <2>2, <2>3 DEF LockInv, EndsAfterLock, OpenHasName, HeldIsOpen, HeldByOne, RemovesWhenClosed
<1>2. LockInv /\ UNCHANGED vars => LockInv'
  BY DEF LockInv, EndsAfterLock, OpenHasName, HeldIsOpen, HeldByOne, RemovesWhenClosed, vars, locks
<1>3. TypeD /\ LockInv /\ [Next]_vars => TypeD' /\ LockInv'
  BY <1>2, LockSteps, TypeOfSteps
<1>4. LockInv => OneHolder
  BY DEF LockInv, HeldByOne, OneHolder
<1> QED BY <1>1, <1>3, <1>4, TypeOfDaemon, PTL DEF Spec

-----------------------------------------------------------------------------
\* Restarts.

\* On Unix pkill ends the command that has called it.
StopsItself ==
    platform = "unix" => \A c \in Procs : kind[c] \in {"restart", "reset"} => at[c] \in {"start", "ended"}

\* On Unix the commands that restart the daemon end before they start one.
THEOREM RestartOnUnix == Spec => []RestartSpawns
<1>1. Init => TypeD /\ StopsItself /\ RestartSpawns
  BY TypeOfDaemon DEF Init, StopsItself, RestartSpawns
<1>2. TypeD /\ StopsItself /\ RestartSpawns /\ [Next]_vars => TypeD' /\ StopsItself' /\ RestartSpawns'
  <2> SUFFICES ASSUME TypeD, StopsItself, RestartSpawns, Shape \/ UNCHANGED vars
               PROVE  StopsItself' /\ RestartSpawns'
    BY TypeOfSteps
  <2>1. CASE UNCHANGED vars
    BY <2>1 DEF vars, asking, StopsItself, RestartSpawns
  <2>2. ASSUME NEW S \in SUBSET Procs, Death(S) PROVE StopsItself' /\ RestartSpawns'
    <3>1. UNCHANGED <<platform, kind, spawned>>
      BY <2>2 DEF Death, asking
    <3>2. platform = "unix" => \A c \in Procs : at'[c] = at[c] \/ at'[c] = "ended"
      BY <2>2 DEF Death
    <3> QED BY <3>1, <3>2 DEF StopsItself, RestartSpawns
  <2>3. ASSUME NEW c \in Procs, Spawns(c) PROVE StopsItself' /\ RestartSpawns'
    <3>1. UNCHANGED platform /\ \A q \in Procs \ {c} : at'[q] = at[q]
      BY <2>3 DEF Spawns, Spawn, Go, TypeD
    <3>2. \A q \in Procs : kind'[q] = kind[q] \/ kind'[q] = "daemon"
      BY <2>3 DEF Spawns, Spawn, TypeD
    <3>3. spawned' \subseteq spawned \cup {c}
      BY <2>3 DEF Spawns, Spawn
    <3>4. platform = "unix" => kind[c] \notin {"restart", "reset"}
      BY <2>3 DEF Spawns, Spawn, Go, StopsItself
    <3> QED BY <3>1, <3>2, <3>3, <3>4 DEF StopsItself, RestartSpawns, TypeD
  <2>4. ASSUME NEW p \in Procs,
               \/ OpenLock(p) \/ Locks(p) \/ Listen(p) \/ GenerateToken(p)
               \/ DaemonGoes(p) \/ AgentGoes(p) \/ Asks(p)
               \/ \E g \in Goroutines : Unlock(p, g) \/ RemoveLock(p, g) \/ BeginEnding(p, g)
        PROVE  StopsItself' /\ RestartSpawns'
    <3>1. UNCHANGED <<platform, kind, spawned>>
      BY <2>4 DEF OpenLock, Locks, TryLock, Ends, Listen, GenerateToken, DaemonGoes, AgentGoes, Progress, Asks,
                  BeginAsking, Dial, ReadToken, Authenticated, TryAgain, Unlock, RemoveLock, BeginEnding,
                  asking, serving
    <3>2. UNCHANGED at \/ (kind[p] \in {"daemon", "agent", "ask"} /\ \A q \in Procs \ {p} : at'[q] = at[q])
      <4>1. CASE Listen(p) \/ GenerateToken(p) \/ \E g \in Goroutines : Unlock(p, g) \/ RemoveLock(p, g) \/ BeginEnding(p, g)
        BY <4>1 DEF Listen, GenerateToken, Unlock, RemoveLock, BeginEnding
      <4>2. CASE DaemonGoes(p) \/ AgentGoes(p)
        BY <4>2 DEF DaemonGoes, AgentGoes, PastLock, Progress, TypeD
      <4>3. CASE OpenLock(p) \/ Locks(p)
        BY <4>3 DEF OpenLock, Locks, TryLock, Go, TypeD
      <4>4. CASE Asks(p)
        <5>1. kind[p] = "ask" /\ \E to : at' = [at EXCEPT ![p] = to]
          BY <4>4 DEF Asks, BeginAsking, Dial, ReadToken, Authenticated, TryAgain, Go
        <5> QED BY <5>1 DEF TypeD
      <4> QED BY <2>4, <4>1, <4>2, <4>3, <4>4
    <3> QED BY <3>1, <3>2 DEF StopsItself, RestartSpawns
  <2> QED BY <2>1, <2>2, <2>3, <2>4 DEF Shape
<1> QED BY <1>1, <1>2, PTL DEF Spec

-----------------------------------------------------------------------------
\* The daemon that is served.

Unborn == \A p \in Procs : kind[p] = "none" => at[p] = "start"

OnePastLock == ~overlap => \A p, q \in Procs : PastLock(p) /\ PastLock(q) => p = q

ServesPastLock == \A p \in Procs : ipc[p] # "off" => PastLock(p)

HasName == ~overlap => \A p \in Procs : ipc[p] # "off" => socket = p

HasToken == ~overlap => \A p \in Procs : ipc[p] = "accepts" => tokenFile = p

SocketIsServer ==
    socket # Nobody => kind[socket] = "daemon" /\ (PastLock(socket) \/ at[socket] = "ended")

ServedInv == Unborn /\ OnePastLock /\ ServesPastLock /\ HasName /\ HasToken /\ SocketIsServer

LEMMA PastLockAlive == \A p \in Procs : PastLock(p) => Alive(p)
  BY DEF PastLock, Alive

LEMMA UpIsPastLock == \A p \in Procs : Up(p) => PastLock(p)
  BY DEF PastLock, Up

\* Nobody comes past the lock but by taking it, and who is there serves as before, or
\* no more.
Quiet ==
    /\ UNCHANGED <<overlap, socket, tokenFile>>
    /\ \A p \in Procs : (PastLock(p))' => PastLock(p)
    /\ \A p \in Procs : kind[p] = "daemon" => kind'[p] = "daemon"
    /\ \A p \in Procs : PastLock(p) => (PastLock(p))' \/ at'[p] = "ended"
    /\ \A p \in Procs : kind[p] = "daemon" /\ at[p] = "ended" => at'[p] = "ended"
    /\ \A p \in Procs : (ipc'[p] = ipc[p] /\ (PastLock(p) => (PastLock(p))')) \/ ipc'[p] = "off"

LEMMA QuietSteps ==
    ASSUME TypeD, ServedInv, Quiet, Unborn'
    PROVE  ServedInv'
<1>1. OnePastLock'
  BY DEF ServedInv, OnePastLock, Quiet
<1>2. ServesPastLock'
  BY DEF ServedInv, ServesPastLock, Quiet
<1>3. HasName' /\ HasToken'
  BY DEF ServedInv, HasName, HasToken, Quiet
<1>4. SocketIsServer'
  BY DEF ServedInv, SocketIsServer, Quiet, TypeD
<1> QED BY <1>1, <1>2, <1>3, <1>4 DEF ServedInv

LEMMA ServedWhenDead ==
    ASSUME TypeD, ServedInv, NEW S \in SUBSET Procs, Death(S)
    PROVE  ServedInv'
<1>1. UNCHANGED kind /\ \A p \in S : kind[p] # "none" /\ at'[p] = "ended" /\ ipc'[p] = "off"
  BY DEF Death
<1>2. \A p \in Procs \ S :
        /\ ipc'[p] = ipc[p]
        /\ at'[p] = at[p] \/ (at'[p] = "stopped" /\ at[p] = "start" /\ kind[p] # "none" /\ kind[p] # "daemon")
  BY DEF Death
<1>3. Unborn'
  BY <1>1, <1>2 DEF ServedInv, Unborn
<1>4. \A p \in Procs \ S : (PastLock(p))' <=> PastLock(p)
  BY <1>1, <1>2 DEF PastLock
<1>5. \A p \in S : ~(PastLock(p))'
  BY <1>1 DEF PastLock
<1>6. Quiet
  BY <1>1, <1>2, <1>4, <1>5 DEF Quiet, Death
<1> QED BY <1>3, <1>6, QuietSteps

LEMMA ServedWhenLocked ==
    ASSUME TypeD, ServedInv, NEW p \in Procs, Locks(p)
    PROVE  ServedInv'
<1>1. /\ UNCHANGED <<kind, ipc, socket, tokenFile>>
      /\ kind[p] = "daemon" /\ at' = [at EXCEPT ![p] = "locked"]
      /\ overlap' = (overlap \/ \E q \in Procs : PastLock(q))
  BY DEF Locks, TryLock, Go, serving
<1>2. \A q \in Procs \ {p} : (PastLock(q))' <=> PastLock(q)
  BY <1>1 DEF PastLock, TypeD
<1>3. (PastLock(p))'
  BY <1>1 DEF PastLock, TypeD
<1>4. Unborn'
  BY <1>1 DEF ServedInv, Unborn, TypeD
<1>5. ServesPastLock'
  BY <1>1, <1>2, <1>3 DEF ServedInv, ServesPastLock
<1>6. OnePastLock'
  BY <1>1, <1>2 DEF OnePastLock
<1>7. HasName' /\ HasToken'
  BY <1>1 DEF ServedInv, HasName, HasToken
<1>8. SocketIsServer'
  BY <1>1, <1>2, <1>3 DEF ServedInv, SocketIsServer, TypeD
<1> QED BY <1>4, <1>5, <1>6, <1>7, <1>8 DEF ServedInv

LEMMA ServedWhenListening ==
    ASSUME TypeD, ServedInv, NEW p \in Procs, Listen(p)
    PROVE  ServedInv'
<1>1. /\ UNCHANGED <<kind, at, overlap, tokenFile>> /\ PastLock(p)
      /\ ipc[p] = "off" /\ ipc' = [ipc EXCEPT ![p] = "listens"]
      /\ socket' = p \/ (socket # Nobody /\ socket' = socket)
  BY UpIsPastLock DEF Listen, locks
<1>2. Unborn' /\ OnePastLock'
  BY <1>1 DEF ServedInv, Unborn, OnePastLock, PastLock
<1>3. ServesPastLock'
  BY <1>1 DEF ServedInv, ServesPastLock, PastLock, TypeD
<1>4. HasToken'
  BY <1>1 DEF ServedInv, HasToken, TypeD
<1>5. ~overlap => \A q \in Procs \ {p} : ipc[q] = "off"
  BY <1>1 DEF ServedInv, ServesPastLock, OnePastLock
<1>6. HasName'
  <2>1. CASE socket' = p
    BY <1>1, <1>5, <2>1 DEF HasName, TypeD
  <2>2. CASE socket' # p
    <3>1. socket \in Procs /\ Alive(socket) /\ socket # p
      BY <1>1, <2>2 DEF Listen, TypeD
    <3>2. PastLock(socket)
      BY <3>1, ProcsAssumption DEF ServedInv, SocketIsServer, Alive
    <3>3. overlap'
      BY <1>1, <3>1, <3>2 DEF ServedInv, OnePastLock
    <3> QED BY <3>3 DEF HasName
  <2> QED BY <2>1, <2>2
<1>7. SocketIsServer'
  BY <1>1 DEF ServedInv, SocketIsServer, PastLock
<1> QED BY <1>2, <1>3, <1>4, <1>6, <1>7 DEF ServedInv

LEMMA ServedWhenTokenIsWritten ==
    ASSUME TypeD, ServedInv, NEW p \in Procs, GenerateToken(p)
    PROVE  ServedInv'
<1>1. /\ UNCHANGED <<kind, at, overlap, socket>> /\ PastLock(p)
      /\ ipc[p] = "listens" /\ ipc' = [ipc EXCEPT ![p] = "accepts"] /\ tokenFile' = p
  BY UpIsPastLock DEF GenerateToken, locks
<1>2. Unborn' /\ OnePastLock' /\ SocketIsServer'
  BY <1>1 DEF ServedInv, Unborn, OnePastLock, PastLock, SocketIsServer
<1>3. ServesPastLock' /\ HasName'
  BY <1>1 DEF ServedInv, ServesPastLock, HasName, PastLock, TypeD
<1>4. ~overlap => \A q \in Procs \ {p} : ipc[q] = "off"
  BY <1>1 DEF ServedInv, ServesPastLock, OnePastLock
<1>5. HasToken'
  BY <1>1, <1>4 DEF HasToken, TypeD
<1> QED BY <1>2, <1>3, <1>5 DEF ServedInv

\* The steps that are quiet for all daemons.
LEMMA ServedOtherwise ==
    ASSUME TypeD, ServedInv, NEW p \in Procs,
           \/ OpenLock(p) \/ DaemonGoes(p) \/ AgentGoes(p) \/ Spawns(p) \/ Asks(p)
           \/ \E g \in Goroutines : Unlock(p, g) \/ RemoveLock(p, g) \/ BeginEnding(p, g)
    PROVE  ServedInv'
<1>1. CASE \E g \in Goroutines : Unlock(p, g) \/ RemoveLock(p, g) \/ BeginEnding(p, g)
  <2>1. UNCHANGED <<kind, at, overlap, serving>>
    BY <1>1 DEF Unlock, RemoveLock, BeginEnding, locks
  <2>2. Quiet /\ Unborn'
    BY <2>1 DEF Quiet, PastLock, serving, ServedInv, Unborn
  <2> QED BY <2>2, QuietSteps
<1>2. CASE DaemonGoes(p)
  <2>1. PICK to \in Places : Progress(p, to)
    BY <1>2 DEF DaemonGoes
  <2>2. /\ UNCHANGED <<kind, overlap, serving>> /\ kind[p] = "daemon" /\ at[p] \in Places
        /\ at'[p] \in Places /\ \A q \in Procs \ {p} : at'[q] = at[q]
    BY <1>2, <2>1 DEF DaemonGoes, Progress, PastLock, Places, locks, TypeD
  <2>3. Quiet /\ Unborn'
    BY <2>2 DEF Quiet, PastLock, Places, serving, ServedInv, Unborn
  <2> QED BY <2>3, QuietSteps
<1>3. CASE OpenLock(p) \/ AgentGoes(p) \/ Spawns(p) \/ Asks(p)
  <2>1. /\ UNCHANGED <<overlap, serving>> /\ \A q \in Procs \ {p} : at'[q] = at[q]
        /\ ~PastLock(p) /\ ~(PastLock(p))' /\ kind[p] # "none" /\ kind'[p] = kind[p]
        /\ kind[p] = "daemon" => at[p] # "ended"
    <3>1. CASE OpenLock(p)
      BY <3>1 DEF OpenLock, Go, PastLock, TypeD
    <3>2. CASE AgentGoes(p)
      BY <3>2 DEF AgentGoes, Progress, PastLock, TypeD, locks
    <3>3. CASE Spawns(p)
      <4>1. kind[p] \in {"restart", "reset", "start", "ask"} /\ \E from, to : Spawn(p, from, to)
        BY <3>3 DEF Spawns
      <4>2. kind'[p] = kind[p]
        BY <4>1 DEF Spawn, TypeD
      <4> QED BY <4>1, <4>2 DEF Spawn, Go, PastLock, TypeD, locks
    <3>4. CASE Asks(p)
      <4>1. kind[p] = "ask" /\ UNCHANGED <<kind, overlap, serving>> /\ \E to : at' = [at EXCEPT ![p] = to]
        BY <3>4 DEF Asks, BeginAsking, Dial, ReadToken, Authenticated, TryAgain, Go, locks
      <4> QED BY <4>1 DEF PastLock, TypeD
    <3> QED BY <1>3, <3>1, <3>2, <3>3, <3>4
  <2>2. \A q \in Procs : kind'[q] = kind[q] \/ (kind[q] = "none" /\ kind'[q] = "daemon")
    BY <1>3 DEF OpenLock, AgentGoes, Progress, Spawns, Spawn, Asks, BeginAsking, Dial, ReadToken,
                Authenticated, TryAgain, TypeD
  <2>3. \A q \in Procs : kind[q] = "none" => at[q] = "start"
    BY DEF ServedInv, Unborn
  <2>4. Unborn'
    BY <2>1, <2>2, <2>3 DEF Unborn
  <2>5. \A q \in Procs \ {p} : (PastLock(q))' <=> PastLock(q)
    BY <2>1, <2>2, <2>3 DEF PastLock
  <2>6. Quiet
    BY <2>1, <2>2, <2>5 DEF Quiet, serving
  <2> QED BY <2>4, <2>6, QuietSteps
<1> QED BY <1>1, <1>2, <1>3

LEMMA ServedSteps == TypeD /\ ServedInv /\ Shape => ServedInv'
  BY ServedWhenDead, ServedWhenLocked, ServedWhenListening, ServedWhenTokenIsWritten, ServedOtherwise
  DEF Shape

-----------------------------------------------------------------------------
\* A command that began when a daemon was ready.

Was(p) == p \in Procs /\ kind[p] = "daemon" /\ (ipc[p] = "accepts" \/ at[p] = "ended")

\* Where the command is that finds daemon p.
OnWay(c, p) ==
    /\ at[c] \in {"dialling", "reading token", "authenticating", "connected", "ended"}
    /\ at[c] \in {"reading token", "authenticating"} => conn[c] = p
    /\ at[c] = "authenticating" => token[c] = p

AskOk(c) ==
    kind[c] = "ask" =>
        /\ at[c] = "start" => readyAt[c] = Nobody
        /\ readyAt[c] # Nobody =>
              Was(readyAt[c]) /\ (Ready(readyAt[c]) /\ ~overlap => OnWay(c, readyAt[c]))

\* A daemon that was ready is ready until it ends or begins to.
LEMMA ReadyStays ==
    ASSUME TypeD, ServedInv, Shape, NEW p, Was(p)
    PROVE  Was(p)' /\ ((Ready(p))' => Ready(p))
<1>1. p \in Procs /\ kind[p] = "daemon"
  BY DEF Was
<1>2. CASE \E S \in SUBSET Procs : Death(S)
  BY <1>1, <1>2 DEF Death, Was, Ready, Alive
<1>3. ASSUME NEW q \in Procs,
             \/ OpenLock(q) \/ Locks(q) \/ Listen(q) \/ GenerateToken(q)
             \/ DaemonGoes(q) \/ AgentGoes(q) \/ Spawns(q) \/ Asks(q)
      PROVE  Was(p)' /\ ((Ready(p))' => Ready(p))
  <2>1. kind'[p] = "daemon" /\ ending' = ending
    BY <1>1, <1>3 DEF OpenLock, Locks, TryLock, Listen, GenerateToken, DaemonGoes, AgentGoes, Progress, Spawns,
                      Spawn, Asks, BeginAsking, Dial, ReadToken, Authenticated, TryAgain, TypeD
  <2>2. ipc'[p] = ipc[p] \/ (ipc'[p] = "listens" /\ ipc[p] = "off" /\ Up(p)) \/ (ipc'[p] = "accepts" /\ ipc[p] = "listens" /\ Up(p))
    BY <1>1, <1>3 DEF OpenLock, Locks, TryLock, Listen, GenerateToken, DaemonGoes, AgentGoes, Progress, Spawns,
                      Spawn, Asks, BeginAsking, Dial, ReadToken, Authenticated, TryAgain, TypeD, serving
  <2>3. at[p] = "ended" => at'[p] = "ended"
    <3>1. CASE q # p
      BY <1>1, <1>3, <3>1 DEF OpenLock, Locks, TryLock, Listen, GenerateToken, DaemonGoes, AgentGoes, Progress,
                      Spawns, Spawn, Asks, BeginAsking, Dial, ReadToken, Authenticated, TryAgain, TypeD, Go
    <3>2. CASE q = p
      BY <1>1, <1>3, <3>2 DEF OpenLock, Locks, TryLock, Listen, GenerateToken, DaemonGoes, PastLock, AgentGoes,
                      Spawns, Asks, BeginAsking, Dial, ReadToken, Authenticated, TryAgain, Go
    <3> QED BY <3>1, <3>2
  <2>4. ipc'[p] = ipc[p] /\ (at'[p] # "ended" => at[p] # "ended")
    BY <2>2, <2>3 DEF Was, Up
  <2> QED BY <1>1, <2>1, <2>3, <2>4 DEF Was, Ready, Alive
<1>4. ASSUME NEW q \in Procs, NEW g \in Goroutines, Unlock(q, g) \/ RemoveLock(q, g) \/ BeginEnding(q, g)
      PROVE  Was(p)' /\ ((Ready(p))' => Ready(p))
  <2>1. UNCHANGED <<kind, at, ipc>>
    BY <1>4 DEF Unlock, RemoveLock, BeginEnding, serving
  <2>2. \A h \in Goroutines : ending'[p][h] = "no" => ending[p][h] = "no"
    <3>1. PICK to \in {"unlock", "remove", "exit"} : ending' = [ending EXCEPT ![q][g] = to]
      BY <1>4 DEF Unlock, RemoveLock, BeginEnding
    <3> QED BY <1>1, <3>1 DEF TypeD
  <2> QED BY <2>1, <2>2 DEF Was, Ready, Alive
<1> QED BY <1>2, <1>3, <1>4 DEF Shape

LEMMA OverlapStays == ASSUME TypeD, Shape, overlap PROVE overlap'
<1>1. CASE \E S \in SUBSET Procs : Death(S)
  BY <1>1 DEF Death
<1>2. ASSUME NEW p \in Procs, OpenLock(p) \/ Locks(p) \/ Listen(p) \/ GenerateToken(p)
      PROVE  overlap'
  BY <1>2 DEF OpenLock, Locks, TryLock, Listen, GenerateToken, locks
<1>3. ASSUME NEW p \in Procs, DaemonGoes(p) \/ AgentGoes(p) \/ Spawns(p)
      PROVE  overlap'
  BY <1>3 DEF DaemonGoes, AgentGoes, Progress, Spawns, Spawn, locks
<1>4. ASSUME NEW p \in Procs, Asks(p)
      PROVE  overlap'
  BY <1>4 DEF Asks, BeginAsking, Dial, ReadToken, Authenticated, TryAgain, locks
<1>5. ASSUME NEW p \in Procs, NEW g \in Goroutines, Unlock(p, g) \/ RemoveLock(p, g) \/ BeginEnding(p, g)
      PROVE  overlap'
  BY <1>5 DEF Unlock, RemoveLock, BeginEnding, locks
<1> QED BY <1>1, <1>2, <1>3, <1>4, <1>5 DEF Shape

LEMMA AskStays ==
    ASSUME TypeD, ServedInv, Shape, NEW c \in Procs, AskOk(c), kind[c] = "ask",
           at'[c] = at[c] \/ at'[c] = "ended",
           conn'[c] = conn[c], token'[c] = token[c], readyAt'[c] = readyAt[c]
    PROVE  AskOk(c)'
<1>1. at'[c] = "start" => readyAt'[c] = Nobody
  BY DEF AskOk
<1>2. ASSUME NEW p, p = readyAt[c], p # Nobody
      PROVE  Was(p)' /\ ((Ready(p))' /\ ~overlap' => OnWay(c, p)')
  <2>1. Was(p) /\ (Ready(p) /\ ~overlap => OnWay(c, p))
    BY <1>2 DEF AskOk
  <2>2. Was(p)' /\ ((Ready(p))' => Ready(p))
    BY <2>1, ReadyStays
  <2>3. OnWay(c, p) => OnWay(c, p)'
    BY DEF OnWay
  <2> QED BY <2>1, <2>2, <2>3, OverlapStays
<1>3. \A p : p = readyAt'[c] /\ p # Nobody =>
          Was(p)' /\ ((Ready(p))' /\ ~overlap' => OnWay(c, p)')
  BY <1>2
<1> QED BY <1>1, <1>3 DEF AskOk, Was, Ready, OnWay, Alive

\* A step of the command itself.
LEMMA AskGoesOn ==
    ASSUME TypeD, ServedInv, Shape, NEW c \in Procs, AskOk(c), Asks(c)
    PROVE  AskOk(c)'
<1>1. kind[c] = "ask" /\ UNCHANGED <<platform, kind, locks, serving, ending>>
  BY DEF Asks, BeginAsking, Dial, ReadToken, Authenticated, TryAgain
<1>2. CASE BeginAsking(c)
  <2>1. at'[c] = "dialling" /\ at[c] = "start"
    BY <1>2 DEF BeginAsking, Go, TypeD
  <2>2. CASE UNCHANGED readyAt
    <3>1. readyAt'[c] = Nobody
      BY <1>1, <2>1, <2>2 DEF AskOk
    <3> QED BY <2>1, <3>1 DEF AskOk
  <2>3. ASSUME NEW p \in Procs, Ready(p), readyAt' = [readyAt EXCEPT ![c] = p] PROVE AskOk(c)'
    <3>1. readyAt'[c] = p
      BY <2>3 DEF TypeD
    <3>2. Was(p)'
      <4>1. Was(p)
        BY <2>3 DEF Ready, Was
      <4> QED BY <4>1, ReadyStays
    <3>3. OnWay(c, p)'
      BY <2>1 DEF OnWay
    <3> QED BY <2>1, <3>1, <3>2, <3>3 DEF AskOk, Was, Ready, OnWay, Alive
  <2> QED BY <1>2, <2>2, <2>3 DEF BeginAsking
<1>3. CASE Dial(c) \/ ReadToken(c) \/ Authenticated(c) \/ TryAgain(c)
  <2>1. readyAt'[c] = readyAt[c] /\ overlap' = overlap
    BY <1>1, <1>3 DEF Dial, ReadToken, Authenticated, TryAgain, asking, locks
  <2>2. at'[c] # "start"
    BY <1>3 DEF Dial, ReadToken, Authenticated, TryAgain, Offline, TypeD
  <2>3. ASSUME NEW p, p = readyAt[c], p # Nobody
        PROVE  Was(p)' /\ ((Ready(p))' /\ ~overlap' => OnWay(c, p)')
    <3>1. Was(p) /\ (Ready(p) /\ ~overlap => OnWay(c, p))
      BY <1>1, <2>3 DEF AskOk
    <3>2. Was(p)' /\ ((Ready(p))' => Ready(p))
      BY <3>1, ReadyStays
    <3>3. SUFFICES ASSUME Ready(p), ~overlap PROVE OnWay(c, p)'
      BY <2>1, <3>2
    <3>4. OnWay(c, p) /\ p \in Procs
      BY <3>1, <3>3 DEF Was
    <3>5. ipc[p] = "accepts" /\ Alive(p) /\ socket = p /\ tokenFile = p
      BY <3>3, <3>4 DEF Ready, ServedInv, HasName, HasToken
    <3>6. CASE Dial(c)
      <4>1. Reached = {p}
        BY <2>3, <3>5 DEF Reached
      <4>2. conn' = [conn EXCEPT ![c] = p] /\ at' = [at EXCEPT ![c] = "reading token"]
        BY <3>6, <4>1 DEF Dial
      <4> QED BY <4>2 DEF OnWay, TypeD
    <3>7. CASE ReadToken(c)
      <4>1. /\ at[c] = "reading token" /\ conn[c] = p /\ conn' = conn
            /\ token' = [token EXCEPT ![c] = p] /\ at' = [at EXCEPT ![c] = "authenticating"]
        BY <2>3, <3>4, <3>5, <3>7 DEF ReadToken, OnWay
      <4> QED BY <4>1 DEF OnWay, TypeD
    <3>8. CASE Authenticated(c)
      <4>1. at' = [at EXCEPT ![c] = "connected"]
        BY <3>4, <3>8 DEF Authenticated, OnWay
      <4> QED BY <4>1 DEF OnWay, TypeD
    <3>9. CASE TryAgain(c)
      BY <3>4, <3>9 DEF TryAgain, OnWay
    <3> QED BY <1>3, <3>6, <3>7, <3>8, <3>9
  <2>4. \A p : p = readyAt'[c] /\ p # Nobody => Was(p)' /\ ((Ready(p))' /\ ~overlap' => OnWay(c, p)')
    BY <2>1, <2>3
  <2> QED BY <2>2, <2>4 DEF AskOk, Was, Ready, OnWay, Alive
<1> QED BY <1>2, <1>3 DEF Asks

LEMMA AskSteps ==
    ASSUME TypeD, ServedInv, Shape, \A c \in Procs : AskOk(c), NEW c \in Procs
    PROVE  AskOk(c)'
<1>1. SUFFICES ASSUME kind'[c] = "ask" PROVE AskOk(c)'
  BY DEF AskOk
<1>2. CASE \E S \in SUBSET Procs : Death(S)
  <2>1. kind[c] = "ask" /\ (at'[c] = at[c] \/ at'[c] = "ended") /\ UNCHANGED asking
    BY <1>1, <1>2 DEF Death
  <2> QED BY <2>1, AskStays DEF asking
<1>3. CASE Asks(c)
  BY <1>3, AskGoesOn
<1>4. ASSUME NEW q \in Procs \ {c}, Asks(q) PROVE AskOk(c)'
  <2>1. kind' = kind /\ at'[c] = at[c]
    BY <1>4 DEF Asks, BeginAsking, Dial, ReadToken, Authenticated, TryAgain, Go, TypeD
  <2>2. conn'[c] = conn[c] /\ token'[c] = token[c] /\ readyAt'[c] = readyAt[c]
    BY <1>4 DEF Asks, BeginAsking, Dial, ReadToken, Authenticated, TryAgain, asking, TypeD
  <2> QED BY <1>1, <2>1, <2>2, AskStays
<1>5. ASSUME NEW q \in Procs, Spawns(q) PROVE AskOk(c)'
  <2>1. kind[c] = "ask" /\ UNCHANGED <<conn, token, readyAt, ending, ipc, overlap>>
    BY <1>1, <1>5 DEF Spawns, Spawn, TypeD, serving, locks
  <2>2. CASE q # c
    <3>1. at'[c] = at[c]
      BY <1>5, <2>2 DEF Spawns, Spawn, Go, TypeD
    <3> QED BY <2>1, <3>1, AskStays
  <2>3. CASE q = c
    <3>1. at[c] = "spawning" /\ at'[c] = "waiting"
      BY <1>5, <2>1, <2>3 DEF Spawns, Spawn, Go, TypeD
    <3>2. ASSUME NEW p, p = readyAt[c], p # Nobody PROVE Was(p)' /\ ~((Ready(p))' /\ ~overlap')
      <4>1. Was(p) /\ ~(Ready(p) /\ ~overlap)
        BY <2>1, <3>1, <3>2 DEF AskOk, OnWay
      <4> QED BY <2>1, <4>1, ReadyStays
    <3>3. \A p : p = readyAt'[c] /\ p # Nobody => Was(p)' /\ ~((Ready(p))' /\ ~overlap')
      BY <2>1, <3>2
    <3> QED BY <3>1, <3>3 DEF AskOk, Was, Ready, OnWay, Alive
  <2> QED BY <2>2, <2>3
<1>6. ASSUME NEW q \in Procs,
             \/ OpenLock(q) \/ Locks(q) \/ Listen(q) \/ GenerateToken(q) \/ DaemonGoes(q) \/ AgentGoes(q)
             \/ \E g \in Goroutines : Unlock(q, g) \/ RemoveLock(q, g) \/ BeginEnding(q, g)
      PROVE  AskOk(c)'
  <2>1. UNCHANGED <<kind, asking>>
    BY <1>6 DEF OpenLock, Locks, TryLock, Listen, GenerateToken, DaemonGoes, AgentGoes, Progress, Unlock,
                RemoveLock, BeginEnding
  <2>2. at'[c] = at[c]
    <3>1. CASE \/ Listen(q) \/ GenerateToken(q)
               \/ \E g \in Goroutines : Unlock(q, g) \/ RemoveLock(q, g) \/ BeginEnding(q, g)
      BY <3>1 DEF Listen, GenerateToken, Unlock, RemoveLock, BeginEnding
    <3>2. CASE OpenLock(q) \/ Locks(q) \/ DaemonGoes(q) \/ AgentGoes(q)
      <4>1. q # c
        BY <1>1, <2>1, <3>2 DEF OpenLock, Locks, TryLock, DaemonGoes, PastLock, AgentGoes
      <4> QED BY <3>2, <4>1 DEF OpenLock, Locks, TryLock, Go, DaemonGoes, AgentGoes, Progress, TypeD
    <3> QED BY <1>6, <3>1, <3>2
  <2> QED BY <1>1, <2>1, <2>2, AskStays DEF asking
<1> QED BY <1>2, <1>3, <1>4, <1>5, <1>6 DEF Shape

\* A command starts a daemon, waits or gives up only if the one that was ready when it
\* began is no more, or has shared the time past the lock with another.
THEOREM ReadyIsFound == Spec => []FoundWhenReady
<1> DEFINE Inv == TypeD /\ ServedInv /\ \A c \in Procs : AskOk(c)
<1>1. Init => Inv
  <2> SUFFICES ASSUME Init PROVE Inv
    OBVIOUS
  <2>1. TypeD
    BY TypeOfDaemon
  <2>2. /\ \A p \in Procs : at[p] = "start" /\ ipc[p] = "off" /\ readyAt[p] = Nobody
        /\ socket = Nobody
    BY DEF Init
  <2>3. \A p \in Procs : ~PastLock(p)
    BY <2>2 DEF PastLock
  <2>4. ServedInv
    BY <2>2, <2>3 DEF ServedInv, Unborn, OnePastLock, ServesPastLock, HasName, HasToken, SocketIsServer
  <2>5. \A c \in Procs : AskOk(c)
    BY <2>2 DEF AskOk
  <2> QED BY <2>1, <2>4, <2>5
<1>2. Inv /\ [Next]_vars => Inv'
  <2> SUFFICES ASSUME Inv, [Next]_vars PROVE Inv'
    OBVIOUS
  <2>1. TypeD'
    BY TypeOfSteps
  <2>2. CASE Shape
    <3>1. ServedInv'
      BY <2>2, ServedSteps
    <3>2. \A c \in Procs : AskOk(c)'
      BY <2>2, AskSteps
    <3> QED BY <2>1, <3>1, <3>2
  <2>3. CASE UNCHANGED vars
    <3>1. ServedInv'
      BY <2>3 DEF ServedInv, Unborn, OnePastLock, ServesPastLock, HasName, HasToken, SocketIsServer, PastLock,
                  vars, locks, serving
    <3>2. \A c \in Procs : AskOk(c)'
      BY <2>3 DEF AskOk, Was, Ready, Alive, OnWay, vars, locks, serving, asking
    <3> QED BY <2>1, <3>1, <3>2
  <2> QED BY <2>2, <2>3, TypeOfSteps
<1>3. Inv => FoundWhenReady
  BY DEF FoundWhenReady, AskOk, OnWay
<1> QED BY <1>1, <1>2, <1>3, PTL DEF Spec
=============================================================================

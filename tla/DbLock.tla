------------------------------- MODULE DbLock -------------------------------
(***************************************************************************)
(* The two lock files of the principal database (krb5-kdc/src/dblock.rs).  *)
(*                                                                         *)
(* A process that uses the database opens `principal.ok' and               *)
(* `principal.kadm5.lock' as one DbLock and shares that pair of            *)
(* descriptors among its threads, counting the holds in a State record     *)
(* kept under a mutex.  A hold locks `principal.ok' first and the policy   *)
(* lock file second.                                                       *)
(*                                                                         *)
(* A thread that must wait for the kernel waits inside try_lock, with the  *)
(* State mutex taken; an upgrade is tried without waiting and retried      *)
(* after the mutex is let go.                                              *)
(*                                                                         *)
(* The policy lock file is named by its inode: a permanent lock removes    *)
(* the file and its release makes a new one, while other processes keep    *)
(* the descriptor of the inode they opened.                                *)
(***************************************************************************)
EXTENDS Integers, FiniteSets

CONSTANTS
  Proc,      \* the processes that open the database
  Thread,    \* their threads
  ProcOf,    \* the process of each thread
  ReadOnly,  \* processes whose lock file descriptors are read-only
  Loader,    \* `kdb5_util load' processes, of one thread each
  MaxInode   \* bound on the policy lock files ever made

ASSUME ProcOfAssumption == ProcOf \in [Thread -> Proc]
ASSUME ThreadAssumption == IsFiniteSet(Thread)
ASSUME ReadOnlyAssumption == ReadOnly \subseteq Proc
ASSUME LoaderAssumption ==
  /\ Loader \subseteq Proc
  /\ \A t, u \in Thread : ProcOf[t] = ProcOf[u] /\ ProcOf[t] \in Loader => t = u
ASSUME MaxInodeAssumption == MaxInode \in Nat \ {0}

(* DbLockMode in the order its derived Ord gives it; FileLock is 0..2.     *)
Unlocked == 0
Shared == 1
Exclusive == 2
Permanent == 3

DbLockMode == {Shared, Exclusive, Permanent}
FileLock == {Unlocked, Shared, Exclusive}

NoFile == 0
Inode == Nat \ {NoFile}

VARIABLES
  ok,       \* the kernel's lock on `principal.ok', per process
  pol,      \* the kernel's lock on the policy lock file a process has open
  polFd,    \* the inode a process has open as its policy lock file
  polFile,  \* the inode at the path `principal.kadm5.lock'
  made,     \* how many policy lock files were ever made
  held,     \* State.held
  mode,     \* State.mode
  polCnt,   \* State.pol_cnt
  polMode,  \* State.pol_mode
  pc,       \* where each thread is
  want,     \* the mode each thread asks for or holds
  killed    \* a process died while it had the policy lock file removed

vars == <<ok, pol, polFd, polFile, made, held, mode, polCnt, polMode, pc,
          want, killed>>

state == <<held, mode, polCnt, polMode>>
kernel == <<ok, pol, polFd, polFile, made>>

(* "waitOk" and "waitPol" are inside try_lock, with the State mutex;       *)
(* "failed" is after a failed policy lock, between drop(st) and unlock();  *)
(* "creating" and "created" are a load's DbLock::create before it opens.   *)
Place == {"down", "idle", "want", "waitOk", "waitPol", "failed", "hold",
          "creating", "created"}

TypeOK ==
  /\ ok \in [Proc -> FileLock]
  /\ pol \in [Proc -> FileLock]
  /\ polFd \in [Proc -> Nat]
  /\ polFile \in Nat
  /\ made \in Nat
  /\ held \in [Proc -> Nat]
  /\ mode \in [Proc -> FileLock]
  /\ polCnt \in [Proc -> Nat]
  /\ polMode \in [Proc -> DbLockMode \cup {Unlocked}]
  /\ pc \in [Thread -> Place]
  /\ want \in [Thread -> DbLockMode]
  /\ killed \in BOOLEAN

Init ==
  /\ ok = [p \in Proc |-> Unlocked]
  /\ pol = [p \in Proc |-> Unlocked]
  /\ polFd = [p \in Proc |-> 1]
  /\ polFile = 1
  /\ made = 1
  /\ held = [p \in Proc |-> 0]
  /\ mode = [p \in Proc |-> Unlocked]
  /\ polCnt = [p \in Proc |-> 0]
  /\ polMode = [p \in Proc |-> Unlocked]
  /\ pc = [t \in Thread |-> "idle"]
  /\ want = [t \in Thread |-> Shared]
  /\ killed = FALSE

-----------------------------------------------------------------------------
(* Whole-file locks: shared locks go together, an exclusive lock goes with *)
(* nothing; a descriptor's own lock is converted.                          *)
CanLock(p, k) ==
  \A q \in Proc \ {p} : ok[q] = Unlocked \/ (k = Shared /\ ok[q] = Shared)

(* Only processes with the same inode open contend for the policy lock.    *)
CanLockPol(p, k) ==
  \A q \in Proc \ {p} :
    \/ polFd[q] # polFd[p]
    \/ pol[q] = Unlocked
    \/ k = Shared /\ pol[q] = Shared

KMode(m) == IF m = Shared THEN Shared ELSE Exclusive

(* The State mutex is free: no thread of p is inside try_lock.             *)
StateFree(p) ==
  \A t \in Thread : ProcOf[t] = p => pc[t] \notin {"waitOk", "waitPol"}

Goto(t, place) == pc' = [pc EXCEPT ![t] = place]

-----------------------------------------------------------------------------
(* A caller asks for a hold: `lock' or `lock_reopening'.                   *)
Request(t, m) ==
  /\ pc[t] = "idle"
  /\ m = Permanent => ProcOf[t] \in Loader /\ made < MaxInode
  /\ Goto(t, "want")
  /\ want' = [want EXCEPT ![t] = m]
  /\ UNCHANGED <<kernel, state, killed>>

UpgradeNever(p, k) == FALSE
Upgrade(p, k) == held[p] > 0 /\ mode[p] < k

(* try_lock: an exclusive lock on a read-only descriptor is EBADF.         *)
CantLock(t) ==
  LET p == ProcOf[t] IN
    /\ pc[t] = "want"
    /\ StateFree(p)
    /\ KMode(want[t]) = Exclusive /\ p \in ReadOnly
    /\ held[p] = 0 \/ Upgrade(p, Exclusive)
    /\ Goto(t, "idle")
    /\ UNCHANGED <<kernel, state, want, killed>>

(* try_lock with nothing held: the thread goes to wait for the kernel.     *)
StartWait(t) ==
  LET p == ProcOf[t] IN
    /\ pc[t] = "want"
    /\ StateFree(p)
    /\ held[p] = 0
    /\ ~(KMode(want[t]) = Exclusive /\ p \in ReadOnly)
    /\ Goto(t, "waitOk")
    /\ UNCHANGED <<kernel, state, want, killed>>

GrantOk(t, k) ==
  LET p == ProcOf[t] IN
    /\ CanLock(p, k)
    /\ ok' = [ok EXCEPT ![p] = k]
    /\ mode' = [mode EXCEPT ![p] = k]
    /\ held' = [held EXCEPT ![p] = @ + 1]
    /\ Goto(t, "waitPol")
    /\ UNCHANGED <<pol, polFd, polFile, made, polCnt, polMode, want, killed>>

LockOk(t) ==
  /\ pc[t] = "waitOk"
  /\ GrantOk(t, KMode(want[t]))

(* lock_reopening: the database does not reopen, the lock is put back.     *)
ReopenFails(t) ==
  LET p == ProcOf[t] IN
    /\ want[t] = Permanent
    /\ pc[t] = "waitOk"
    /\ CanLock(p, Exclusive)
    /\ Goto(t, "idle")
    /\ UNCHANGED <<kernel, state, want, killed>>

TryUpgradeWaits(t) ==
  LET p == ProcOf[t] IN
    /\ pc[t] = "want"
    /\ StateFree(p)
    /\ Upgrade(p, KMode(want[t]))
    /\ p \notin ReadOnly
    /\ Goto(t, "waitOk")
    /\ UNCHANGED <<kernel, state, want, killed>>

(* try_lock as an upgrade: never waits; EAGAIN leaves the thread wanting.  *)
TryUpgrade(t) ==
  LET p == ProcOf[t] IN
    /\ pc[t] = "want"
    /\ StateFree(p)
    /\ Upgrade(p, KMode(want[t]))
    /\ p \notin ReadOnly
    /\ GrantOk(t, KMode(want[t]))

(* try_lock when the process already holds the lock at least as strongly.  *)
Join(t) ==
  LET p == ProcOf[t] IN
    /\ pc[t] = "want"
    /\ StateFree(p)
    /\ held[p] > 0 /\ ~Upgrade(p, KMode(want[t]))
    /\ held' = [held EXCEPT ![p] = @ + 1]
    /\ Goto(t, "waitPol")
    /\ UNCHANGED <<kernel, mode, polCnt, polMode, want, killed>>

-----------------------------------------------------------------------------
(* get_policy_lock, still under the State mutex.  Its WouldBlock branch    *)
(* (an upgrade of a policy lock another process has) is never taken:       *)
(* PolicyLockIsFree below.                                                 *)
PolHeld(t) ==
  LET p == ProcOf[t] IN
    /\ pc[t] = "waitPol"
    /\ polMode[p] >= want[t]
    /\ polCnt' = [polCnt EXCEPT ![p] = @ + 1]
    /\ Goto(t, "hold")
    /\ UNCHANGED <<kernel, held, mode, polMode, want, killed>>

(* The descriptor was dropped, or the path is gone once it is locked.      *)
PolMissing(t) ==
  LET p == ProcOf[t] IN
    /\ pc[t] = "waitPol"
    /\ polMode[p] < want[t]
    /\ \/ polFd[p] = NoFile /\ UNCHANGED pol
       \/ /\ polFd[p] # NoFile
          /\ CanLockPol(p, KMode(want[t]))
          /\ polFile = NoFile
          /\ pol' = [pol EXCEPT ![p] = Unlocked]
    /\ Goto(t, "failed")
    /\ UNCHANGED <<ok, polFd, polFile, made, state, want, killed>>

PolLock(t) ==
  LET p == ProcOf[t] IN
    /\ pc[t] = "waitPol"
    /\ polMode[p] < want[t]
    /\ polFd[p] # NoFile
    /\ CanLockPol(p, KMode(want[t]))
    /\ polFile # NoFile
    /\ IF want[t] = Permanent
         THEN /\ polFile' = NoFile
              /\ polFd' = [polFd EXCEPT ![p] = NoFile]
              /\ pol' = [pol EXCEPT ![p] = Unlocked]
         ELSE /\ pol' = [pol EXCEPT ![p] = KMode(want[t])]
              /\ UNCHANGED <<polFile, polFd>>
    /\ polMode' = [polMode EXCEPT ![p] = want[t]]
    /\ polCnt' = [polCnt EXCEPT ![p] = @ + 1]
    /\ Goto(t, "hold")
    /\ UNCHANGED <<ok, made, held, mode, want, killed>>

-----------------------------------------------------------------------------
ReleasePolicyUnguarded(p) ==
  /\ polCnt' = [polCnt EXCEPT ![p] = @ - 1]
  /\ UNCHANGED <<polMode, pol, polFd, polFile, made>>

ReleasePolicyKeepsLock(p) ==
  /\ polCnt' = [polCnt EXCEPT ![p] = IF @ = 0 THEN 0 ELSE @ - 1]
  /\ polMode' = [polMode EXCEPT ![p] = IF polCnt[p] = 1 THEN Unlocked ELSE @]
  /\ UNCHANGED <<pol, polFd, polFile, made>>

(* release_policy_lock: a count of 0 is NotLocked, which unlock ignores.   *)
ReleasePolicy(p) ==
  /\ polCnt' = [polCnt EXCEPT ![p] = IF @ = 0 THEN 0 ELSE @ - 1]
  /\ IF polCnt[p] # 1
       THEN UNCHANGED <<polMode, pol, polFd, polFile, made>>
       ELSE /\ polMode' = [polMode EXCEPT ![p] = Unlocked]
            /\ pol' = [pol EXCEPT ![p] = Unlocked]
            /\ IF polMode[p] = Permanent
                 THEN /\ made' = made + 1
                      /\ polFile' = made + 1
                      /\ polFd' = [polFd EXCEPT ![p] = made + 1]
                 ELSE UNCHANGED <<made, polFile, polFd>>

(* unlock: the policy lock first, then `principal.ok' with the last hold.  *)
Unlock(t) ==
  LET p == ProcOf[t] IN
    /\ pc[t] \in {"hold", "failed"}
    /\ StateFree(p)
    /\ ReleasePolicy(p)
    /\ held' = [held EXCEPT ![p] = @ - 1]
    /\ mode' = IF held[p] = 1 THEN [mode EXCEPT ![p] = Unlocked] ELSE mode
    /\ ok' = IF held[p] = 1 THEN [ok EXCEPT ![p] = Unlocked] ELSE ok
    /\ Goto(t, "idle")
    /\ UNCHANGED <<want, killed>>

-----------------------------------------------------------------------------
(* promote: DbLock::create locks `principal.ok' without the policy lock;   *)
(* the database exists, so that lock is let go and the files are opened.   *)
Create(t) ==
  /\ pc[t] = "idle"
  /\ ProcOf[t] \in Loader
  /\ Goto(t, "creating")
  /\ UNCHANGED <<kernel, state, want, killed>>

CreateLocks(t) ==
  LET p == ProcOf[t] IN
    /\ pc[t] = "creating"
    /\ CanLock(p, Exclusive)
    /\ ok' = [ok EXCEPT ![p] = Exclusive]
    /\ mode' = [mode EXCEPT ![p] = Exclusive]
    /\ held' = [held EXCEPT ![p] = 1]
    /\ Goto(t, "created")
    /\ UNCHANGED <<pol, polFd, polFile, made, polCnt, polMode, want, killed>>

AlreadyExists(t) ==
  LET p == ProcOf[t] IN
    /\ pc[t] = "created"
    /\ ok' = [ok EXCEPT ![p] = Unlocked]
    /\ mode' = [mode EXCEPT ![p] = Unlocked]
    /\ held' = [held EXCEPT ![p] = 0]
    /\ polFd' = [polFd EXCEPT ![p] = NoFile]
    /\ Goto(t, "down")
    /\ UNCHANGED <<pol, polFile, made, polCnt, polMode, want, killed>>

-----------------------------------------------------------------------------
(* A process ends or is killed: its descriptors close, their locks drop.   *)
Kill(p) ==
  /\ \E t \in Thread : ProcOf[t] = p /\ pc[t] # "down"
  /\ ok' = [ok EXCEPT ![p] = Unlocked]
  /\ pol' = [pol EXCEPT ![p] = Unlocked]
  /\ polFd' = [polFd EXCEPT ![p] = NoFile]
  /\ held' = [held EXCEPT ![p] = 0]
  /\ mode' = [mode EXCEPT ![p] = Unlocked]
  /\ polCnt' = [polCnt EXCEPT ![p] = 0]
  /\ polMode' = [polMode EXCEPT ![p] = Unlocked]
  /\ pc' = [t \in Thread |-> IF ProcOf[t] = p THEN "down" ELSE pc[t]]
  /\ killed' = (killed \/ polMode[p] = Permanent)
  /\ UNCHANGED <<polFile, made, want>>

(* DbLock::open: refused while the policy lock file is missing.            *)
Open(p) ==
  /\ \A t \in Thread : ProcOf[t] = p => pc[t] = "down"
  /\ polFile # NoFile
  /\ polFd' = [polFd EXCEPT ![p] = polFile]
  /\ pc' = [t \in Thread |-> IF ProcOf[t] = p THEN "idle" ELSE pc[t]]
  /\ UNCHANGED <<ok, pol, polFile, made, state, want, killed>>

(* The administrator makes the file a killed permanent holder left away.   *)
AdminMakes ==
  /\ polFile = NoFile
  /\ killed
  /\ \A p \in Proc : polMode[p] # Permanent
  /\ made < MaxInode
  /\ made' = made + 1
  /\ polFile' = made + 1
  /\ killed' = FALSE
  /\ UNCHANGED <<ok, pol, polFd, state, pc, want>>

-----------------------------------------------------------------------------
Step(t) ==
  \/ CantLock(t)
  \/ StartWait(t)
  \/ LockOk(t)
  \/ ReopenFails(t)
  \/ TryUpgrade(t)
  \/ Join(t)
  \/ PolHeld(t)
  \/ PolMissing(t)
  \/ PolLock(t)
  \/ Unlock(t)
  \/ CreateLocks(t)
  \/ AlreadyExists(t)

Next ==
  \/ \E t \in Thread : Step(t) \/ Create(t)
  \/ \E t \in Thread, m \in DbLockMode : Request(t, m)
  \/ \E p \in Proc : Kill(p) \/ Open(p)
  \/ AdminMakes

Spec == Init /\ [][Next]_vars

(* A thread inside try_lock runs on once the kernel grants its lock; a     *)
(* hold is dropped, and its thread gets the State mutex in the end.        *)
Fairness ==
  \A t \in Thread :
    /\ WF_vars(PolHeld(t) \/ PolMissing(t) \/ PolLock(t))
    /\ SF_vars(Unlock(t))

FairSpec == Spec /\ Fairness

-----------------------------------------------------------------------------
Holds(t, m) == pc[t] = "hold" /\ want[t] >= m

Counted == {"waitPol", "failed", "hold", "created"}
At(place, S, p) == {t \in Thread : ProcOf[t] = p /\ place[t] \in S}
Holders(p) == At(pc, Counted, p)
PolHolders(p) == At(pc, {"hold"}, p)

(* What the counting rests on: the State record agrees with the kernel's   *)
(* lock and with the threads that have a hold or are taking one, the       *)
(* kernel's lock is as strong as every hold needs, and the policy lock is  *)
(* kept only under holds and is never stronger than `principal.ok'.        *)
LockInv ==
  /\ \A p \in Proc :
       /\ mode[p] = ok[p]
       /\ held[p] = Cardinality(Holders(p))
       /\ polCnt[p] <= Cardinality(PolHolders(p))
       /\ pol[p] # Unlocked => polCnt[p] > 0 /\ pol[p] <= ok[p]
       /\ ok[p] = Exclusive => \A q \in Proc \ {p} : ok[q] = Unlocked
  /\ \A t \in Thread :
       /\ pc[t] \in {"waitPol", "failed", "hold"} => KMode(want[t]) <= ok[ProcOf[t]]
       /\ pc[t] = "waitOk" => held[ProcOf[t]] = 0
       /\ pc[t] \in {"creating", "created"} => ProcOf[t] \in Loader
       /\ pc[t] \in {"waitOk", "waitPol"} =>
            \A u \in Thread : ProcOf[u] = ProcOf[t] /\ pc[u] \in {"waitOk", "waitPol"} => u = t

(* The lock excludes: while a thread holds the database exclusively or     *)
(* permanently (dblock.rs `lock'), no thread of another process holds it   *)
(* in any mode, whichever inode of the policy lock file each has open.     *)
MutualExclusion ==
  \A t, u \in Thread :
    Holds(t, Exclusive) /\ Holds(u, Shared) => ProcOf[t] = ProcOf[u]

(* `principal.ok' is locked first, so the policy lock is never contended   *)
(* when get_policy_lock asks for it: no hold waits for, or retries on,     *)
(* the second file, and its WouldBlock branch is unreachable.              *)
PolicyLockIsFree ==
  \A t \in Thread :
    pc[t] = "waitPol" /\ polFd[ProcOf[t]] # NoFile
      => CanLockPol(ProcOf[t], KMode(want[t]))

(* A permanent lock removes `principal.kadm5.lock' until it is released:   *)
(* the file is missing while one is held, and whenever it is missing one   *)
(* is held or its holder was killed.                                       *)
PermanentRemovesFile ==
  /\ \A t \in Thread : Holds(t, Permanent) => polFile = NoFile
  /\ polFile = NoFile => killed \/ \E t \in Thread : Holds(t, Permanent)

(* A hold comes to its end: no thread that drops its hold is kept waiting  *)
(* for the State mutex by an upgrade that waits for another process, so    *)
(* two KDCs on one database cannot each wait on the other.                 *)
HoldsEnd == \A t \in Thread : pc[t] = "hold" ~> pc[t] # "hold"
=============================================================================

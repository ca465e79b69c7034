---------------------------- MODULE DbLockProofs ----------------------------
(* Proofs about the database lock for every number of processes, threads   *)
(* and policy lock files.                                                  *)
EXTENDS DbLock, FiniteSetTheorems, TLAPS

(* Zenon first, Z3 for what needs arithmetic. *)
USE ZenonT(5), SMTT(20)

-----------------------------------------------------------------------------
(* The counts of a process's holds, and the invariant through the steps   *)
(* that take a hold, get_policy_lock and unlock.                          *)

(* The threads of a process at some places are finitely many; one at them  *)
(* makes the count positive, and a count of 1 leaves no second one.        *)
LEMMA AtCount ==
  ASSUME NEW f, NEW S, NEW p
  PROVE  /\ IsFiniteSet(At(f, S, p))
         /\ Cardinality(At(f, S, p)) \in Nat
         /\ Cardinality(At(f, S, p)) = 0 <=> At(f, S, p) = {}
         /\ \A t \in At(f, S, p) :
              /\ Cardinality(At(f, S, p)) >= 1
              /\ Cardinality(At(f, S, p)) = 1 => At(f, S, p) = {t}
<1> DEFINE A == At(f, S, p)
<1>1. IsFiniteSet(A)
  <2>1. A \subseteq Thread
    BY DEF At
  <2> QED BY <2>1, ThreadAssumption, FS_Subset
<1>2. Cardinality(A) \in Nat
  BY <1>1, FS_CardinalityType
<1>3. Cardinality(A) = 0 <=> A = {}
  BY <1>1, FS_EmptySet
<1>4. ASSUME NEW t \in A
      PROVE  /\ Cardinality(A) >= 1
             /\ Cardinality(A) = 1 => A = {t}
  <2>1. /\ IsFiniteSet(A \ {t})
        /\ Cardinality(A \ {t}) = Cardinality(A) - 1
    BY <1>1, FS_RemoveElement
  <2>2. Cardinality(A) # 0
    BY <1>3
  <2>3. Cardinality(A) - 1 = 0 => A \ {t} = {}
    BY <2>1, FS_EmptySet
  <2> QED BY <1>2, <2>2, <2>3
<1> QED BY <1>1, <1>2, <1>3, <1>4

(* One thread moves: the count of its process changes by that move alone.  *)
LEMMA AtMove ==
  ASSUME TypeOK, NEW t \in Thread, NEW x \in Place, Goto(t, x), NEW S
  PROVE  /\ \A q : q # ProcOf[t] => At(pc', S, q) = At(pc, S, q)
         /\ (pc[t] \in S <=> x \in S) => At(pc', S, ProcOf[t]) = At(pc, S, ProcOf[t])
         /\ pc[t] \notin S /\ x \in S => Cardinality(At(pc', S, ProcOf[t]))
                                      = Cardinality(At(pc, S, ProcOf[t])) + 1
         /\ pc[t] \in S /\ x \notin S => Cardinality(At(pc', S, ProcOf[t]))
                                      = Cardinality(At(pc, S, ProcOf[t])) - 1
<1>0. pc \in [Thread -> Place] /\ pc' = [pc EXCEPT ![t] = x]
  BY DEF TypeOK, Goto
<1>1. \A q : q # ProcOf[t] => At(pc', S, q) = At(pc, S, q)
  BY <1>0 DEF At
<1>2. (pc[t] \in S <=> x \in S) => At(pc', S, ProcOf[t]) = At(pc, S, ProcOf[t])
  BY <1>0 DEF At
<1>3. ASSUME pc[t] \notin S, x \in S
      PROVE  Cardinality(At(pc', S, ProcOf[t])) = Cardinality(At(pc, S, ProcOf[t])) + 1
  <2>1. /\ At(pc', S, ProcOf[t]) = At(pc, S, ProcOf[t]) \cup {t}
        /\ t \notin At(pc, S, ProcOf[t])
    BY <1>0, <1>3 DEF At
  <2> QED BY <2>1, AtCount, FS_AddElement
<1>4. ASSUME pc[t] \in S, x \notin S
      PROVE  Cardinality(At(pc', S, ProcOf[t])) = Cardinality(At(pc, S, ProcOf[t])) - 1
  <2>1. /\ At(pc', S, ProcOf[t]) = At(pc, S, ProcOf[t]) \ {t}
        /\ t \in At(pc, S, ProcOf[t])
    BY <1>0, <1>4 DEF At
  <2>2. Cardinality(At(pc, S, ProcOf[t]) \ {t}) = Cardinality(At(pc, S, ProcOf[t])) - 1
    BY <2>1, AtCount, FS_RemoveElement
  <2> QED BY <2>1, <2>2
<1> QED BY <1>1, <1>2, <1>3, <1>4

In(x, S) == IF x \in S THEN 1 ELSE 0

(* AtMove for the two counts of the lock's State record.                   *)
LEMMA Moved ==
  ASSUME TypeOK, NEW t \in Thread, NEW x \in Place, Goto(t, x)
  PROVE  /\ \A q \in Proc \ {ProcOf[t]} :
              Holders(q)' = Holders(q) /\ PolHolders(q)' = PolHolders(q)
         /\ Cardinality(Holders(ProcOf[t])') =
              Cardinality(Holders(ProcOf[t])) + In(x, Counted) - In(pc[t], Counted)
         /\ Cardinality(PolHolders(ProcOf[t])') =
              Cardinality(PolHolders(ProcOf[t])) + In(x, {"hold"}) - In(pc[t], {"hold"})
         /\ pc' \in [Thread -> Place]
         /\ pc'[t] = x /\ \A u \in Thread \ {t} : pc'[u] = pc[u]
<1>1. pc \in [Thread -> Place] /\ pc' = [pc EXCEPT ![t] = x]
  BY DEF TypeOK, Goto
<1>2. ASSUME NEW S
      PROVE  /\ \A q : q # ProcOf[t] => At(pc', S, q) = At(pc, S, q)
             /\ Cardinality(At(pc', S, ProcOf[t])) =
                  Cardinality(At(pc, S, ProcOf[t])) + In(x, S) - In(pc[t], S)
  <2>1. /\ \A q : q # ProcOf[t] => At(pc', S, q) = At(pc, S, q)
        /\ (pc[t] \in S <=> x \in S) => At(pc', S, ProcOf[t]) = At(pc, S, ProcOf[t])
        /\ pc[t] \notin S /\ x \in S => Cardinality(At(pc', S, ProcOf[t]))
                                        = Cardinality(At(pc, S, ProcOf[t])) + 1
        /\ pc[t] \in S /\ x \notin S => Cardinality(At(pc', S, ProcOf[t]))
                                        = Cardinality(At(pc, S, ProcOf[t])) - 1
    BY AtMove
  <2>2. Cardinality(At(pc, S, ProcOf[t])) \in Nat
    BY AtCount
  <2> QED BY <2>1, <2>2 DEF In
<1>3. pc' \in [Thread -> Place] /\ pc'[t] = x /\ \A u \in Thread \ {t} : pc'[u] = pc[u]
  BY <1>1
<1> QED BY <1>2, <1>3 DEF Holders, PolHolders

(* What AtCount says of the two counts.                                    *)
LEMMA Counts ==
  ASSUME NEW p \in Proc
  PROVE  /\ Cardinality(Holders(p)) \in Nat
         /\ Cardinality(PolHolders(p)) \in Nat
         /\ \A t \in Thread : ProcOf[t] = p /\ pc[t] \in Counted =>
              /\ Cardinality(Holders(p)) >= 1
              /\ Cardinality(Holders(p)) = 1 =>
                   \A u \in Thread : ProcOf[u] = p /\ pc[u] \in Counted => u = t
         /\ \A t \in Thread : ProcOf[t] = p /\ pc[t] = "hold" => Cardinality(PolHolders(p)) >= 1
         /\ (\A t \in Thread : ProcOf[t] = p => pc[t] \notin Counted)
              => Cardinality(Holders(p)) = 0 /\ Cardinality(PolHolders(p)) = 0
         /\ Cardinality(Holders(p)) = 0 => Cardinality(PolHolders(p)) = 0
<1>1. ASSUME NEW t \in Thread, ProcOf[t] = p, pc[t] \in Counted
      PROVE  /\ Cardinality(Holders(p)) >= 1
             /\ Cardinality(Holders(p)) = 1 =>
                  \A u \in Thread : ProcOf[u] = p /\ pc[u] \in Counted => u = t
  <2>1. t \in Holders(p)
    BY <1>1 DEF Holders, At
  <2>2. Cardinality(Holders(p)) >= 1 /\ (Cardinality(Holders(p)) = 1 => Holders(p) = {t})
    BY <2>1, AtCount DEF Holders
  <2>3. \A u \in Thread : ProcOf[u] = p /\ pc[u] \in Counted => u \in Holders(p)
    BY DEF Holders, At
  <2> QED BY <2>2, <2>3
<1>2. ASSUME NEW t \in Thread, ProcOf[t] = p, pc[t] = "hold"
      PROVE  Cardinality(PolHolders(p)) >= 1
  <2>1. t \in PolHolders(p)
    BY <1>2 DEF PolHolders, At
  <2> QED BY <2>1, AtCount DEF PolHolders
<1>3. ASSUME \A t \in Thread : ProcOf[t] = p => pc[t] \notin Counted
      PROVE  Cardinality(Holders(p)) = 0 /\ Cardinality(PolHolders(p)) = 0
  <2>1. Holders(p) = {} /\ PolHolders(p) = {}
    BY <1>3 DEF Holders, PolHolders, At, Counted
  <2> QED BY <2>1, AtCount DEF Holders, PolHolders
<1>4. Cardinality(Holders(p)) \in Nat /\ Cardinality(PolHolders(p)) \in Nat
  BY AtCount DEF Holders, PolHolders
<1>5. ASSUME Cardinality(Holders(p)) = 0
      PROVE  Cardinality(PolHolders(p)) = 0
  <2>1. Holders(p) = {}
    BY <1>5, AtCount DEF Holders
  <2>2. PolHolders(p) = {}
    BY <2>1 DEF Holders, PolHolders, At, Counted
  <2> QED BY <2>2, AtCount DEF PolHolders
<1> QED BY <1>1, <1>2, <1>3, <1>4, <1>5

Inv == TypeOK /\ LockInv

(* The initial states, with nothing locked, satisfy it.                    *)
LEMMA InitInv == Init => Inv
<1> SUFFICES ASSUME Init PROVE Inv
  OBVIOUS
<1>1. TypeOK
  BY DEF Init, TypeOK, FileLock, DbLockMode, Place, Unlocked, Shared
<1>2. \A p \in Proc : Cardinality(Holders(p)) = 0 /\ Cardinality(PolHolders(p)) = 0
  BY Counts DEF Init, Counted
<1>3. LockInv
  BY <1>2 DEF Init, LockInv, Unlocked, Exclusive
<1> QED BY <1>1, <1>3 DEF Inv

(* A move that neither takes nor drops a hold, to a place that is neither  *)
(* counted nor inside try_lock, keeps the invariant.                       *)
LEMMA QuietMove ==
  ASSUME Inv, NEW t \in Thread, NEW x \in {"idle", "want", "waitOk", "creating"}, Goto(t, x),
         pc[t] \notin Counted,
         UNCHANGED <<kernel, state, killed>>,
         want' \in [Thread -> DbLockMode],
         \A u \in Thread \ {t} : want'[u] = want[u],
         x = "waitOk" => StateFree(ProcOf[t]) /\ held[ProcOf[t]] = 0,
         x = "creating" => ProcOf[t] \in Loader
  PROVE  Inv'
<1>1. TypeOK /\ LockInv /\ x \in Place
  BY DEF Inv, Place
<1>2. /\ pc' \in [Thread -> Place]
      /\ pc'[t] = x /\ \A u \in Thread \ {t} : pc'[u] = pc[u]
  BY <1>1, Moved
<1>3. \A p \in Proc : /\ Cardinality(Holders(p)') = Cardinality(Holders(p))
                      /\ Cardinality(PolHolders(p)') = Cardinality(PolHolders(p))
  <2>1. x \notin Counted /\ x # "hold" /\ pc[t] # "hold"
    BY DEF Counted
  <2>2. ProcOf[t] \in Proc
    BY ProcOfAssumption
  <2> QED BY <1>1, <2>1, <2>2, Moved, Counts DEF In
<1>4. TypeOK'
  BY <1>1, <1>2 DEF TypeOK, kernel, state
<1>5. LockInv'
  BY <1>1, <1>2, <1>3, ProcOfAssumption DEF LockInv, kernel, state, StateFree, TypeOK
<1> QED BY <1>4, <1>5 DEF Inv

(* `principal.ok' is granted to a thread that is alone inside try_lock,    *)
(* as the first lock of its process or as one stronger than it had.        *)
LEMMA Granted ==
  ASSUME Inv, NEW t \in Thread, NEW k \in {Shared, Exclusive}, GrantOk(t, k),
         pc[t] \notin Counted, k = KMode(want[t]),
         held[ProcOf[t]] = 0 \/ mode[ProcOf[t]] < k,
         \A u \in Thread \ {t} : ProcOf[u] = ProcOf[t] => pc[u] \notin {"waitOk", "waitPol"}
  PROVE  Inv'
<1> DEFINE p == ProcOf[t]
<1>1. TypeOK /\ LockInv /\ p \in Proc
  BY ProcOfAssumption DEF Inv
<1>2. Goto(t, "waitPol") /\ "waitPol" \in Place
  BY DEF GrantOk, Place
<1>3. /\ pc' \in [Thread -> Place]
      /\ pc'[t] = "waitPol" /\ \A u \in Thread \ {t} : pc'[u] = pc[u]
  BY <1>1, <1>2, Moved
<1>4. /\ \A q \in Proc \ {p} : /\ Cardinality(Holders(q)') = Cardinality(Holders(q))
                              /\ Cardinality(PolHolders(q)') = Cardinality(PolHolders(q))
      /\ Cardinality(Holders(p)') = Cardinality(Holders(p)) + 1
      /\ Cardinality(PolHolders(p)') = Cardinality(PolHolders(p))
  <2>1. pc[t] # "hold" /\ "waitPol" \in Counted /\ "waitPol" # "hold"
    BY DEF Counted
  <2> QED BY <1>1, <1>2, <2>1, Moved, Counts DEF In
<1>5. TypeOK'
  BY <1>1, <1>3 DEF TypeOK, GrantOk, FileLock
<1>6. \A u \in Thread : ProcOf[u] = p /\ pc[u] \in {"waitPol", "failed", "hold"} => ok[p] < k
  <2> SUFFICES ASSUME NEW u \in Thread, ProcOf[u] = p, pc[u] \in {"waitPol", "failed", "hold"}
               PROVE  ok[p] < k
    OBVIOUS
  <2>1. pc[u] \in Counted
    BY DEF Counted
  <2>2. held[p] # 0
    BY <1>1, <2>1, Counts DEF LockInv
  <2> QED BY <1>1, <2>2 DEF LockInv
<1>7. \A q \in Proc \ {p} : ok[q] = Unlocked \/ (k = Shared /\ ok[q] = Shared)
  BY DEF GrantOk, CanLock
<1>8. /\ ok' = [ok EXCEPT ![p] = k] /\ mode' = [mode EXCEPT ![p] = k]
      /\ held' = [held EXCEPT ![p] = @ + 1]
      /\ UNCHANGED <<pol, polCnt, want>>
  BY DEF GrantOk
<1>9. LockInv'
  <2>1. ASSUME NEW q \in Proc
        PROVE  /\ mode'[q] = ok'[q]
               /\ held'[q] = Cardinality(Holders(q)')
               /\ polCnt'[q] <= Cardinality(PolHolders(q)')
               /\ ok'[q] = Exclusive => \A r \in Proc \ {q} : ok'[r] = Unlocked
    BY <1>1, <1>4, <1>7, <1>8 DEF LockInv, TypeOK, Shared, Exclusive, Unlocked
  <2>2. ASSUME NEW q \in Proc
        PROVE  pol'[q] # Unlocked => polCnt'[q] > 0 /\ pol'[q] <= ok'[q]
    <3>1. CASE q # p
      BY <1>1, <1>8, <3>1 DEF LockInv, TypeOK
    <3>2. CASE q = p
      <4>1. held[p] = 0 => polCnt[p] = 0
        BY <1>1, Counts DEF LockInv, TypeOK
      <4> QED BY <1>1, <1>8, <3>2, <4>1
              DEF LockInv, TypeOK, FileLock, Unlocked, Shared, Exclusive
    <3> QED BY <3>1, <3>2
  <2>3. ASSUME NEW u \in Thread
        PROVE  /\ pc'[u] \in {"waitPol", "failed", "hold"} => KMode(want'[u]) <= ok'[ProcOf[u]]
               /\ pc'[u] = "waitOk" => held'[ProcOf[u]] = 0
               /\ pc'[u] \in {"creating", "created"} => ProcOf[u] \in Loader
               /\ pc'[u] \in {"waitOk", "waitPol"} => \A v \in Thread :
                    ProcOf[v] = ProcOf[u] /\ pc'[v] \in {"waitOk", "waitPol"} => v = u
    <3>1. pc'[u] \in {"waitPol", "failed", "hold"} => KMode(want'[u]) <= ok'[ProcOf[u]]
      BY <1>1, <1>3, <1>6, <1>8, ProcOfAssumption
         DEF LockInv, TypeOK, KMode, FileLock, Unlocked, Shared, Exclusive
    <3> QED BY <1>1, <1>3, <1>8, <3>1, ProcOfAssumption DEF LockInv, TypeOK
  <2>4. \A u \in Thread : KMode(want[u])' = KMode(want'[u])
    BY DEF KMode
  <2> QED BY <2>1, <2>2, <2>3, <2>4 DEF LockInv
<1> QED BY <1>5, <1>9 DEF Inv

(* What the lemmas below use of a thread's move.                           *)
LEMMA Step1 ==
  ASSUME Inv, NEW t \in Thread, NEW x \in Place, Goto(t, x)
  PROVE  /\ TypeOK /\ LockInv /\ ProcOf[t] \in Proc
         /\ pc' \in [Thread -> Place]
         /\ pc'[t] = x /\ \A u \in Thread \ {t} : pc'[u] = pc[u]
         /\ \A q \in Proc \ {ProcOf[t]} :
              /\ Cardinality(Holders(q)') = Cardinality(Holders(q))
              /\ Cardinality(PolHolders(q)') = Cardinality(PolHolders(q))
         /\ Cardinality(Holders(ProcOf[t])') =
              Cardinality(Holders(ProcOf[t])) + In(x, Counted) - In(pc[t], Counted)
         /\ Cardinality(PolHolders(ProcOf[t])') =
              Cardinality(PolHolders(ProcOf[t])) + In(x, {"hold"}) - In(pc[t], {"hold"})
         /\ \A q \in Proc : /\ Cardinality(Holders(q)) \in Nat
                            /\ Cardinality(PolHolders(q)) \in Nat
BY Moved, Counts, ProcOfAssumption DEF Inv

(* The counts of the other processes stay right when a thread moves.       *)
LEMMA OtherCounts ==
  ASSUME Inv, NEW t \in Thread, NEW x \in Place, Goto(t, x),
         \A q \in Proc \ {ProcOf[t]} : held'[q] = held[q] /\ polCnt'[q] = polCnt[q],
         NEW q \in Proc \ {ProcOf[t]}
  PROVE  /\ held'[q] = Cardinality(Holders(q)')
         /\ polCnt'[q] <= Cardinality(PolHolders(q)')
<1>1. /\ Cardinality(Holders(q)') = Cardinality(Holders(q))
      /\ Cardinality(PolHolders(q)') = Cardinality(PolHolders(q))
  BY Step1
<1>2. held[q] = Cardinality(Holders(q)) /\ polCnt[q] <= Cardinality(PolHolders(q))
  BY DEF Inv, LockInv
<1> QED BY <1>1, <1>2

(* What LockInv says of one process and of one thread.                     *)
LEMMA Parts ==
  ASSUME LockInv
  PROVE  /\ \A p \in Proc : mode[p] = ok[p]
         /\ \A p \in Proc : held[p] = Cardinality(Holders(p))
         /\ \A p \in Proc : polCnt[p] <= Cardinality(PolHolders(p))
         /\ \A p \in Proc : pol[p] # Unlocked => polCnt[p] > 0 /\ pol[p] <= ok[p]
         /\ \A p \in Proc : ok[p] = Exclusive => \A q \in Proc \ {p} : ok[q] = Unlocked
         /\ \A t \in Thread :
              pc[t] \in {"waitPol", "failed", "hold"} => KMode(want[t]) <= ok[ProcOf[t]]
         /\ \A t \in Thread : pc[t] = "waitOk" => held[ProcOf[t]] = 0
         /\ \A t \in Thread : pc[t] \in {"creating", "created"} => ProcOf[t] \in Loader
         /\ \A t, u \in Thread :
              /\ pc[t] \in {"waitOk", "waitPol"} /\ pc[u] \in {"waitOk", "waitPol"}
              /\ ProcOf[u] = ProcOf[t]
              => u = t
BY DEF LockInv

(* A thread joins a hold its process has: the count alone grows.           *)
LEMMA JoinInv ==
  ASSUME Inv, NEW t \in Thread, Join(t)
  PROVE  Inv'
<1> DEFINE p == ProcOf[t]
<1>1. Goto(t, "waitPol") /\ "waitPol" \in Place
  BY DEF Join, Place
<1>2. /\ In("waitPol", Counted) = 1 /\ In(pc[t], Counted) = 0
      /\ In("waitPol", {"hold"}) = 0 /\ In(pc[t], {"hold"}) = 0
  BY DEF Join, In, Counted
<1>3. /\ TypeOK /\ LockInv /\ p \in Proc
      /\ held' = [held EXCEPT ![p] = @ + 1] /\ held[p] > 0
      /\ UNCHANGED <<ok, pol, polFd, polFile, made, mode, polCnt, polMode, want, killed>>
      /\ StateFree(p) /\ KMode(want[t]) <= mode[p]
  BY <1>1, Step1 DEF Join, kernel, Upgrade, TypeOK, KMode, FileLock, Unlocked, Shared, Exclusive
<1>4. TypeOK'
  BY <1>1, <1>3, Step1 DEF TypeOK
<1>5. LockInv'
  <2>1. \A q \in Proc : /\ held'[q] = Cardinality(Holders(q)')
                        /\ polCnt'[q] <= Cardinality(PolHolders(q)')
    <3>1. \A q \in Proc \ {p} : held'[q] = held[q] /\ polCnt'[q] = polCnt[q]
      BY <1>3 DEF TypeOK
    <3>2. ASSUME NEW q \in Proc \ {p}
          PROVE  held'[q] = Cardinality(Holders(q)') /\ polCnt'[q] <= Cardinality(PolHolders(q)')
      BY <1>1, <3>1, OtherCounts, SMTT(30)
    <3>3. /\ Cardinality(Holders(p)') = Cardinality(Holders(p)) + 1
          /\ Cardinality(PolHolders(p)') = Cardinality(PolHolders(p))
      <4>1. /\ Cardinality(Holders(p)') =
                 Cardinality(Holders(p)) + In("waitPol", Counted) - In(pc[t], Counted)
            /\ Cardinality(PolHolders(p)') =
                 Cardinality(PolHolders(p)) + In("waitPol", {"hold"}) - In(pc[t], {"hold"})
            /\ Cardinality(Holders(p)) \in Nat /\ Cardinality(PolHolders(p)) \in Nat
        BY <1>1, Step1
      <4> QED BY <1>2, <4>1
    <3>4. held'[p] = held[p] + 1 /\ polCnt'[p] = polCnt[p]
      BY <1>3 DEF TypeOK
    <3>5. held[p] = Cardinality(Holders(p)) /\ polCnt[p] <= Cardinality(PolHolders(p))
      BY <1>3, Parts
    <3> QED BY <3>2, <3>3, <3>4, <3>5
  <2>2. \A u \in Thread : KMode(want[u])' = KMode(want[u])
    BY <1>3 DEF KMode
  <2>3. \A u \in Thread : ProcOf[u] = p => pc[u] \notin {"waitOk", "waitPol"}
    BY <1>3 DEF StateFree
  <2>4. \A q \in Proc : /\ mode'[q] = ok'[q]
                        /\ pol'[q] # Unlocked => polCnt'[q] > 0 /\ pol'[q] <= ok'[q]
                        /\ ok'[q] = Exclusive => \A r \in Proc \ {q} : ok'[r] = Unlocked
    BY <1>3 DEF LockInv
  <2>5. pc'[t] = "waitPol" /\ \A u \in Thread \ {t} : pc'[u] = pc[u]
    BY <1>1, Step1
  <2>6. mode[p] = ok[p]
    BY <1>3, Parts
  <2>7. ASSUME NEW u \in Thread
        PROVE  /\ pc'[u] \in {"waitPol", "failed", "hold"} => KMode(want[u])' <= ok'[ProcOf[u]]
               /\ pc'[u] = "waitOk" => held'[ProcOf[u]] = 0
               /\ pc'[u] \in {"creating", "created"} => ProcOf[u] \in Loader
    <3>1. CASE u = t
      BY <1>3, <2>2, <2>5, <2>6, <3>1
    <3>2. CASE u # t
      <4>1. pc'[u] = pc[u]
        BY <2>5, <3>2
      <4>2. pc[u] = "waitOk" => ProcOf[u] # p /\ ProcOf[u] \in Proc
        BY <2>3, ProcOfAssumption
      <4>3. ProcOf[u] # p /\ ProcOf[u] \in Proc => held'[ProcOf[u]] = held[ProcOf[u]]
        BY <1>3 DEF TypeOK
      <4> QED BY <1>3, <2>2, <4>1, <4>2, <4>3, Parts
    <3> QED BY <3>1, <3>2
  <2>8. \A u, v \in Thread :
          /\ pc'[u] \in {"waitOk", "waitPol"} /\ pc'[v] \in {"waitOk", "waitPol"}
          /\ ProcOf[v] = ProcOf[u]
          => v = u
    BY <1>3, <2>3, <2>5, Parts
  <2> QED BY <2>1, <2>4, <2>7, <2>8 DEF LockInv
<1> QED BY <1>4, <1>5 DEF Inv


(* get_policy_lock ends: the thread holds, or goes to undo its hold.       *)
LEMMA PolicyInv ==
  ASSUME Inv, NEW t \in Thread, PolHeld(t) \/ PolMissing(t) \/ PolLock(t)
  PROVE  Inv'
<1> DEFINE p == ProcOf[t]
<1>0. PICK x \in {"hold", "failed"} : Goto(t, x) /\ (x = "failed" <=> PolMissing(t))
  BY DEF PolHeld, PolMissing, PolLock, Goto
<1>1. x \in Place /\ pc[t] = "waitPol"
  BY <1>0 DEF PolHeld, PolMissing, PolLock, Place
<1>2. /\ In(x, Counted) = 1 /\ In(pc[t], Counted) = 1
      /\ In(x, {"hold"}) = (IF x = "hold" THEN 1 ELSE 0) /\ In(pc[t], {"hold"}) = 0
  BY <1>1 DEF In, Counted
<1>3. /\ TypeOK /\ LockInv /\ p \in Proc
      /\ UNCHANGED <<ok, made, held, mode, want, killed>>
      /\ KMode(want[t]) <= ok[p]
  BY <1>0, <1>1, Step1 DEF PolHeld, PolMissing, PolLock, kernel, state, LockInv
<1>4. /\ polCnt' = IF x = "hold" THEN [polCnt EXCEPT ![p] = @ + 1] ELSE polCnt
      /\ \/ pol' = pol
         \/ pol' = [pol EXCEPT ![p] = Unlocked]
         \/ pol' = [pol EXCEPT ![p] = KMode(want[t])] /\ x = "hold"
  BY <1>0, <1>3 DEF PolHeld, PolMissing, PolLock, kernel, state, TypeOK
<1>5. TypeOK'
  <2>1. polCnt' \in [Proc -> Nat] /\ pol' \in [Proc -> FileLock]
    BY <1>3, <1>4 DEF TypeOK, KMode, FileLock, Shared, Exclusive, Unlocked
  <2>2. polMode' \in [Proc -> DbLockMode \cup {Unlocked}] /\ polFd' \in [Proc -> Nat] /\ polFile' \in Nat
    BY <1>3 DEF PolHeld, PolMissing, PolLock, kernel, state, TypeOK, NoFile
  <2> QED BY <1>0, <1>1, <1>3, <2>1, <2>2, Step1 DEF TypeOK
<1>6. LockInv'
  <2>1. \A q \in Proc : /\ held'[q] = Cardinality(Holders(q)')
                        /\ polCnt'[q] <= Cardinality(PolHolders(q)')
    <3>1. \A q \in Proc \ {p} : held'[q] = held[q] /\ polCnt'[q] = polCnt[q]
      BY <1>3, <1>4 DEF TypeOK
    <3>2. ASSUME NEW q \in Proc \ {p}
          PROVE  held'[q] = Cardinality(Holders(q)') /\ polCnt'[q] <= Cardinality(PolHolders(q)')
      BY <1>0, <1>1, <3>1, OtherCounts
    <3>3. /\ Cardinality(Holders(p)') = Cardinality(Holders(p)) + 1 - 1
          /\ Cardinality(PolHolders(p)') =
               Cardinality(PolHolders(p)) + (IF x = "hold" THEN 1 ELSE 0) - 0
          /\ Cardinality(Holders(p)) \in Nat /\ Cardinality(PolHolders(p)) \in Nat
      BY <1>0, <1>1, <1>2, <1>3, Step1
    <3>4. held'[p] = held[p] /\ polCnt'[p] = polCnt[p] + (IF x = "hold" THEN 1 ELSE 0)
          /\ polCnt[p] \in Nat
      BY <1>3, <1>4 DEF TypeOK
    <3>5. held[p] = Cardinality(Holders(p)) /\ polCnt[p] <= Cardinality(PolHolders(p))
      BY <1>3, Parts
    <3>6. held'[p] = Cardinality(Holders(p)')
      BY <3>3, <3>4, <3>5
    <3>7. polCnt'[p] <= Cardinality(PolHolders(p)')
      <4> DEFINE a == Cardinality(PolHolders(p))
                 b == Cardinality(PolHolders(p)')
                 n == IF x = "hold" THEN 1 ELSE 0
      <4>1. n \in Nat /\ a \in Nat /\ b = a + n /\ polCnt'[p] = polCnt[p] + n
            /\ polCnt[p] \in Nat /\ polCnt[p] <= a
        BY <3>3, <3>4, <3>5
      <4> HIDE DEF a, n, p
      <4>2. polCnt'[p] <= b
        BY <4>1
      <4> QED BY <4>2 DEF p
    <3> QED BY <3>2, <3>6, <3>7
  <2>2. \A u \in Thread : KMode(want[u])' = KMode(want[u])
    BY <1>3 DEF KMode
  <2>3. \A q \in Proc : pol'[q] # Unlocked => polCnt'[q] > 0 /\ pol'[q] <= ok'[q]
    <3>1. ASSUME NEW q \in Proc \ {p}
          PROVE  pol'[q] # Unlocked => polCnt'[q] > 0 /\ pol'[q] <= ok'[q]
      <4>1. pol'[q] = pol[q] /\ polCnt'[q] = polCnt[q] /\ ok'[q] = ok[q]
        BY <1>3, <1>4 DEF TypeOK
      <4> QED BY <1>3, <4>1, Parts
    <3>2. ASSUME pol'[p] # Unlocked PROVE polCnt'[p] > 0 /\ pol'[p] <= ok'[p]
      <4>1. /\ polCnt[p] \in Nat /\ ok' = ok
            /\ polCnt'[p] = polCnt[p] + (IF x = "hold" THEN 1 ELSE 0)
            /\ pol'[p] = pol[p] \/ (pol'[p] = KMode(want[t]) /\ x = "hold")
        BY <1>3, <1>4, <3>2 DEF TypeOK
      <4>2. pol[p] # Unlocked => polCnt[p] > 0 /\ pol[p] <= ok[p]
        BY <1>3, Parts
      <4>3. KMode(want[t]) <= ok[p]
        BY <1>3
      <4>4. CASE x = "hold"
        <5>1. polCnt'[p] = polCnt[p] + 1 /\ polCnt[p] \in Nat
          BY <4>1, <4>4
        <5>2. polCnt'[p] > 0
          BY <5>1
        <5>3. pol'[p] <= ok'[p]
          BY <3>2, <4>1, <4>2, <4>3
        <5> QED BY <5>2, <5>3
      <4>5. CASE x # "hold"
        <5>1. polCnt'[p] = polCnt[p] + 0 /\ pol'[p] = pol[p] /\ polCnt[p] \in Nat
          BY <4>1, <4>5
        <5>2. polCnt'[p] = polCnt[p]
          BY <5>1
        <5> QED BY <3>2, <4>1, <4>2, <5>1, <5>2
      <4> QED BY <4>4, <4>5
    <3> QED BY <3>1, <3>2
  <2>4. \A q \in Proc : /\ mode'[q] = ok'[q]
                        /\ ok'[q] = Exclusive => \A r \in Proc \ {q} : ok'[r] = Unlocked
    BY <1>3 DEF LockInv
  <2>5. \A u \in Thread \ {t} : pc'[u] = pc[u]
    BY <1>0, <1>1, Step1
  <2>6. pc'[t] = x /\ x \notin {"waitOk", "waitPol", "creating", "created"}
    BY <1>0, <1>1, Step1
  <2>7. ASSUME NEW u \in Thread
        PROVE  /\ pc'[u] \in {"waitPol", "failed", "hold"} => KMode(want[u])' <= ok'[ProcOf[u]]
               /\ pc'[u] = "waitOk" => held'[ProcOf[u]] = 0
               /\ pc'[u] \in {"creating", "created"} => ProcOf[u] \in Loader
    <3>1. CASE u = t
      BY <1>3, <2>2, <2>6, <3>1
    <3>2. CASE u # t
      BY <1>3, <2>2, <2>5, <3>2 DEF LockInv
    <3> QED BY <3>1, <3>2
  <2>8. \A u, v \in Thread :
          /\ pc'[u] \in {"waitOk", "waitPol"} /\ pc'[v] \in {"waitOk", "waitPol"}
          /\ ProcOf[v] = ProcOf[u]
          => v = u
    BY <1>3, <2>5, <2>6 DEF LockInv
  <2> QED BY <2>1, <2>3, <2>4, <2>7, <2>8 DEF LockInv
<1> QED BY <1>5, <1>6 DEF Inv

(* The last hold of a process lets both files go.                          *)
LEMMA UnlockInv ==
  ASSUME Inv, NEW t \in Thread, Unlock(t)
  PROVE  Inv'
<1> DEFINE p == ProcOf[t]
<1>1. Goto(t, "idle") /\ "idle" \in Place
  BY DEF Unlock, Place
<1>2. /\ In("idle", Counted) = 0 /\ In(pc[t], Counted) = 1
      /\ In("idle", {"hold"}) = 0
      /\ In(pc[t], {"hold"}) = (IF pc[t] = "hold" THEN 1 ELSE 0)
  BY DEF Unlock, In, Counted
<1>3. /\ TypeOK /\ LockInv /\ p \in Proc
      /\ held' = [held EXCEPT ![p] = @ - 1]
      /\ mode' = IF held[p] = 1 THEN [mode EXCEPT ![p] = Unlocked] ELSE mode
      /\ ok' = IF held[p] = 1 THEN [ok EXCEPT ![p] = Unlocked] ELSE ok
      /\ polCnt' = [polCnt EXCEPT ![p] = IF @ = 0 THEN 0 ELSE @ - 1]
      /\ pol' = IF polCnt[p] = 1 THEN [pol EXCEPT ![p] = Unlocked] ELSE pol
      /\ UNCHANGED <<want, killed>>
      /\ pc[t] \in {"hold", "failed"}
  BY <1>1, Step1 DEF Unlock, ReleasePolicy
<1>4. /\ held[p] >= 1
      /\ held[p] = 1 => \A u \in Thread \ {t} : ProcOf[u] = p => pc[u] \notin Counted
      /\ polCnt[p] <= held[p]
  <2>1. pc[t] \in Counted
    BY <1>3 DEF Counted
  <2>2. held[p] >= 1 /\ (held[p] = 1 => \A u \in Thread \ {t} : ProcOf[u] = p => pc[u] \notin Counted)
    <3>1. held[p] = Cardinality(Holders(p))
      BY <1>3, Parts
    <3> QED BY <1>3, <2>1, <3>1, Counts
  <2>3. Cardinality(PolHolders(p)) <= Cardinality(Holders(p))
    <3>1. PolHolders(p) \subseteq Holders(p) /\ IsFiniteSet(Holders(p))
      <4>1. PolHolders(p) \subseteq Holders(p)
        BY DEF PolHolders, Holders, At, Counted
      <4> QED BY <4>1, AtCount DEF Holders
    <3> QED BY <3>1, FS_Subset
  <2>4. /\ held[p] = Cardinality(Holders(p)) /\ polCnt[p] <= Cardinality(PolHolders(p))
        /\ held[p] \in Nat /\ polCnt[p] \in Nat
    BY <1>3, Parts DEF TypeOK
  <2>5. Cardinality(PolHolders(p)) \in Nat
    BY <1>3, Counts
  <2>6. polCnt[p] <= held[p]
    <3> DEFINE a == Cardinality(PolHolders(p))
               b == Cardinality(Holders(p))
    <3>1. a <= b /\ held[p] = b /\ polCnt[p] <= a /\ a \in Nat /\ held[p] \in Nat /\ polCnt[p] \in Nat
      BY <2>3, <2>4, <2>5
    <3> HIDE DEF a, b, p
    <3> QED BY <3>1
  <2> QED BY <2>2, <2>6
<1>m. /\ pc' \in [Thread -> Place]
      /\ pc'[t] = "idle" /\ \A u \in Thread \ {t} : pc'[u] = pc[u]
  BY <1>1, Step1
<1>5. TypeOK'
  <2>1. /\ held' \in [Proc -> Nat] /\ polCnt' \in [Proc -> Nat]
        /\ pol' \in [Proc -> FileLock] /\ ok' \in [Proc -> FileLock] /\ mode' \in [Proc -> FileLock]
    BY <1>3, <1>4 DEF TypeOK, FileLock
  <2>2. /\ polMode' \in [Proc -> DbLockMode \cup {Unlocked}] /\ polFd' \in [Proc -> Nat]
        /\ polFile' \in Nat /\ made' \in Nat
    <3>1. ReleasePolicy(p)
      BY DEF Unlock
    <3>2. CASE polCnt[p] # 1
      BY <1>3, <3>1, <3>2 DEF ReleasePolicy, TypeOK
    <3>3. CASE polCnt[p] = 1
      BY <1>3, <3>1, <3>3 DEF ReleasePolicy, TypeOK
    <3> QED BY <3>2, <3>3
  <2> QED BY <1>1, <1>3, <2>1, <2>2, Step1 DEF TypeOK
<1>6. LockInv'
  <2>1. \A q \in Proc : /\ held'[q] = Cardinality(Holders(q)')
                        /\ polCnt'[q] <= Cardinality(PolHolders(q)')
    <3>1. ASSUME NEW q \in Proc, q # p
          PROVE  /\ held'[q] = Cardinality(Holders(q)')
                 /\ polCnt'[q] <= Cardinality(PolHolders(q)')
      <4>1. \A r \in Proc \ {p} : held'[r] = held[r] /\ polCnt'[r] = polCnt[r]
        BY <1>3 DEF TypeOK
      <4> QED BY <1>1, <3>1, <4>1, OtherCounts
    <3>2. /\ Cardinality(Holders(p)') = Cardinality(Holders(p)) - 1
          /\ Cardinality(PolHolders(p)') =
               Cardinality(PolHolders(p)) - (IF pc[t] = "hold" THEN 1 ELSE 0)
          /\ Cardinality(Holders(p)) \in Nat /\ Cardinality(PolHolders(p)) \in Nat
      <4>1. /\ Cardinality(Holders(p)') =
                 Cardinality(Holders(p)) + In("idle", Counted) - In(pc[t], Counted)
            /\ Cardinality(PolHolders(p)') =
                 Cardinality(PolHolders(p)) + In("idle", {"hold"}) - In(pc[t], {"hold"})
            /\ Cardinality(Holders(p)) \in Nat /\ Cardinality(PolHolders(p)) \in Nat
        BY <1>1, Step1
      <4> QED BY <1>2, <4>1
    <3>3. pc[t] = "hold" => Cardinality(PolHolders(p)) >= 1
      BY <1>3, Counts
    <3>4. held'[p] = Cardinality(Holders(p)')
      <4>1. held'[p] = held[p] - 1 /\ held[p] = Cardinality(Holders(p))
        BY <1>3, Parts DEF TypeOK
      <4> QED BY <3>2, <4>1
    <3>5. polCnt'[p] <= Cardinality(PolHolders(p)')
      <4>1. /\ polCnt'[p] = (IF polCnt[p] = 0 THEN 0 ELSE polCnt[p] - 1)
            /\ polCnt[p] \in Nat /\ polCnt[p] <= Cardinality(PolHolders(p))
        BY <1>3, Parts DEF TypeOK
      <4> DEFINE a == Cardinality(PolHolders(p))
                 b == Cardinality(PolHolders(p)')
      <4>2. a \in Nat /\ b = a - (IF pc[t] = "hold" THEN 1 ELSE 0) /\ (pc[t] = "hold" => a >= 1)
        BY <3>2, <3>3
      <4> HIDE DEF a, b, p
      <4>3. polCnt'[p] <= b
        BY <4>1, <4>2 DEF a
      <4> QED BY <4>3 DEF b
    <3> QED BY <3>1, <3>4, <3>5
  <2>2. \A u \in Thread : KMode(want[u])' = KMode(want[u])
    BY <1>3 DEF KMode
  <2>3. \A q \in Proc : pol'[q] # Unlocked => polCnt'[q] > 0 /\ pol'[q] <= ok'[q]
    <3>1. ASSUME NEW q \in Proc \ {p}
          PROVE  pol'[q] # Unlocked => polCnt'[q] > 0 /\ pol'[q] <= ok'[q]
      <4>1. pol'[q] = pol[q] /\ polCnt'[q] = polCnt[q] /\ ok'[q] = ok[q]
        BY <1>3 DEF TypeOK
      <4> QED BY <1>3, <4>1, Parts
    <3>2. ASSUME pol'[p] # Unlocked PROVE polCnt'[p] > 0 /\ pol'[p] <= ok'[p]
      <4>1. polCnt[p] # 1 /\ pol'[p] = pol[p]
        BY <1>3, <3>2 DEF TypeOK
      <4>2. polCnt[p] > 0 /\ pol[p] <= ok[p] /\ polCnt[p] \in Nat /\ held[p] \in Nat
        BY <1>3, <3>2, <4>1, Parts DEF TypeOK
      <4>3. polCnt'[p] = polCnt[p] - 1
        BY <1>3, <4>2 DEF TypeOK
      <4>4. held[p] # 1
        <5>1. polCnt[p] <= held[p]
          BY <1>4
        <5>2. polCnt[p] \in Nat /\ held[p] \in Nat /\ polCnt[p] > 0 /\ polCnt[p] # 1
          BY <4>1, <4>2
        <5> HIDE DEF p
        <5> QED BY <5>1, <5>2
      <4>5. ok' = ok
        BY <1>3, <4>4
      <4>6. polCnt'[p] > 0
        BY <4>1, <4>2, <4>3
      <4> QED BY <4>1, <4>2, <4>5, <4>6
    <3> QED BY <3>1, <3>2
  <2>4. \A q \in Proc : /\ mode'[q] = ok'[q]
                        /\ ok'[q] = Exclusive => \A r \in Proc \ {q} : ok'[r] = Unlocked
    <3>1. \/ ok' = ok /\ mode' = mode
          \/ ok' = [ok EXCEPT ![p] = Unlocked] /\ mode' = [mode EXCEPT ![p] = Unlocked]
      BY <1>3
    <3>2. ok \in [Proc -> FileLock] /\ mode \in [Proc -> FileLock] /\ p \in Proc
      BY <1>3 DEF TypeOK
    <3>3. \A q \in Proc : /\ mode[q] = ok[q]
                          /\ ok[q] = Exclusive => \A r \in Proc \ {q} : ok[r] = Unlocked
      BY <1>3, Parts
    <3>4. CASE ok' = ok /\ mode' = mode
      BY <3>3, <3>4
    <3>5. CASE ok' = [ok EXCEPT ![p] = Unlocked] /\ mode' = [mode EXCEPT ![p] = Unlocked]
      <4> HIDE DEF p
      <4>1. ok'[p] = Unlocked /\ mode'[p] = Unlocked
            /\ \A q \in Proc \ {p} : ok'[q] = ok[q] /\ mode'[q] = mode[q]
        BY <3>2, <3>5
      <4>2. Unlocked # Exclusive
        BY DEF Unlocked, Exclusive
      <4> QED BY <3>2, <3>3, <4>1, <4>2
    <3> QED BY <3>1, <3>4, <3>5
  <2>5. \A u \in Thread : pc'[u] \in {"waitPol", "failed", "hold"} => KMode(want[u]) <= ok'[ProcOf[u]]
    <3> SUFFICES ASSUME NEW u \in Thread, pc'[u] \in {"waitPol", "failed", "hold"}
                 PROVE  KMode(want[u]) <= ok'[ProcOf[u]]
      OBVIOUS
    <3>1. u # t /\ pc[u] \in {"waitPol", "failed", "hold"} /\ pc[u] \in Counted
      BY <1>m DEF Counted
    <3>2. ProcOf[u] = p => held[p] # 1
      BY <1>4, <3>1
    <3>3. ok'[ProcOf[u]] = ok[ProcOf[u]]
      BY <1>3, <3>2, ProcOfAssumption DEF TypeOK
    <3> QED BY <1>3, <3>1, <3>3, Parts
  <2>6. ASSUME NEW u \in Thread, pc'[u] = "waitOk" PROVE held'[ProcOf[u]] = 0
    <3>1. pc[u] = "waitOk" /\ held[ProcOf[u]] = 0
      BY <1>3, <1>m, <2>6 DEF LockInv
    <3>2. ProcOf[u] # p
      BY <1>4, <3>1
    <3> QED BY <1>3, <3>1, <3>2, ProcOfAssumption DEF TypeOK
  <2>7. \A u \in Thread :
          /\ pc'[u] \in {"creating", "created"} => ProcOf[u] \in Loader
          /\ pc'[u] \in {"waitOk", "waitPol"} => \A v \in Thread :
               ProcOf[v] = ProcOf[u] /\ pc'[v] \in {"waitOk", "waitPol"} => v = u
    BY <1>3, <1>m DEF LockInv
  <2> QED BY <1>3, <2>1, <2>2, <2>3, <2>4, <2>5, <2>6, <2>7 DEF LockInv
<1> QED BY <1>5, <1>6 DEF Inv

-----------------------------------------------------------------------------
(* DbLock::create in a load, which has one thread.                         *)
LEMMA CreateInv ==
  ASSUME Inv, NEW t \in Thread, CreateLocks(t) \/ AlreadyExists(t)
  PROVE  Inv'
<1> DEFINE p == ProcOf[t]
<1>1. TypeOK /\ LockInv /\ p \in Proc /\ p \in Loader
      /\ (\A u \in Thread : ProcOf[u] = p => u = t)
  BY ProcOfAssumption, LoaderAssumption DEF Inv, LockInv, CreateLocks, AlreadyExists
<1>2. CASE CreateLocks(t)
  <2>1. Goto(t, "created") /\ "created" \in Place /\ pc[t] = "creating"
    BY <1>2 DEF CreateLocks, Place
  <2>2. /\ In("created", Counted) = 1 /\ In("creating", Counted) = 0
        /\ In("created", {"hold"}) = 0 /\ In("creating", {"hold"}) = 0
    BY DEF In, Counted
  <2>3. Cardinality(Holders(p)) = 0 /\ held[p] = 0 /\ polCnt[p] = 0
    BY <1>1, <2>1, Counts DEF Counted, LockInv, TypeOK
  <2>4. /\ ok' = [ok EXCEPT ![p] = Exclusive] /\ mode' = [mode EXCEPT ![p] = Exclusive]
        /\ held' = [held EXCEPT ![p] = 1] /\ CanLock(p, Exclusive)
        /\ UNCHANGED <<pol, polFd, polFile, made, polCnt, polMode, want, killed>>
    BY <1>2 DEF CreateLocks
  <2>5. TypeOK'
    BY <1>1, <2>1, <2>4, Step1 DEF TypeOK, FileLock
  <2>6. LockInv'
    <3>1. \A q \in Proc : /\ held'[q] = Cardinality(Holders(q)')
                          /\ polCnt'[q] <= Cardinality(PolHolders(q)')
      <4>1. \A q \in Proc \ {p} : held'[q] = held[q] /\ polCnt'[q] = polCnt[q]
        BY <1>1, <2>4 DEF TypeOK
      <4>2. ASSUME NEW q \in Proc \ {p}
            PROVE  held'[q] = Cardinality(Holders(q)') /\ polCnt'[q] <= Cardinality(PolHolders(q)')
        BY <2>1, <4>1, OtherCounts
      <4>3. /\ Cardinality(Holders(p)') = 1
            /\ Cardinality(PolHolders(p)') = Cardinality(PolHolders(p))
        BY <1>1, <2>1, <2>2, <2>3, Step1
      <4>4. held'[p] = 1 /\ polCnt'[p] = polCnt[p] /\ polCnt[p] <= Cardinality(PolHolders(p))
        BY <1>1, <2>4, Parts DEF TypeOK
      <4> QED BY <4>2, <4>3, <4>4
    <3>2. \A u \in Thread : KMode(want[u])' = KMode(want[u])
      BY <2>4 DEF KMode
    <3>3. \A q \in Proc \ {p} : ok[q] = Unlocked
      BY <2>4 DEF CanLock, Shared, Exclusive
    <3>4. ASSUME NEW q \in Proc
          PROVE  /\ mode'[q] = ok'[q]
                 /\ pol'[q] # Unlocked => polCnt'[q] > 0 /\ pol'[q] <= ok'[q]
                 /\ ok'[q] = Exclusive => \A r \in Proc \ {q} : ok'[r] = Unlocked
      <4>1. /\ ok'[p] = Exclusive /\ mode'[p] = Exclusive
            /\ \A r \in Proc \ {p} : ok'[r] = Unlocked /\ mode'[r] = mode[r] /\ ok[r] = Unlocked
        BY <1>1, <2>4, <3>3 DEF TypeOK
      <4>2. pol[p] = Unlocked /\ pol' = pol /\ polCnt' = polCnt
        BY <1>1, <2>3, <2>4, Parts
      <4>3. CASE q = p
        BY <4>1, <4>2, <4>3
      <4>4. CASE q # p
        BY <1>1, <4>1, <4>2, <4>4, Parts DEF Exclusive, Unlocked
      <4> QED BY <4>3, <4>4
    <3>5. pc'[t] = "created" /\ \A u \in Thread \ {t} : pc'[u] = pc[u]
      BY <2>1, Step1
    <3>6. ASSUME NEW u \in Thread
          PROVE  /\ pc'[u] \in {"waitPol", "failed", "hold"} => KMode(want[u])' <= ok'[ProcOf[u]]
                 /\ pc'[u] = "waitOk" => held'[ProcOf[u]] = 0
                 /\ pc'[u] \in {"creating", "created"} => ProcOf[u] \in Loader
      <4>1. CASE u = t
        BY <1>1, <3>5, <4>1
      <4>2. CASE u # t
        <5>1. pc'[u] = pc[u] /\ ProcOf[u] # p /\ ProcOf[u] \in Proc
          BY <1>1, <3>5, <4>2, ProcOfAssumption
        <5>2. ok'[ProcOf[u]] = ok[ProcOf[u]] /\ held'[ProcOf[u]] = held[ProcOf[u]]
          BY <1>1, <2>4, <5>1 DEF TypeOK
        <5> QED BY <1>1, <3>2, <5>1, <5>2, Parts
      <4> QED BY <4>1, <4>2
    <3>7. \A u, v \in Thread :
            /\ pc'[u] \in {"waitOk", "waitPol"} /\ pc'[v] \in {"waitOk", "waitPol"}
            /\ ProcOf[v] = ProcOf[u]
            => v = u
      BY <1>1, <3>5, Parts
    <3> QED BY <3>1, <3>4, <3>6, <3>7 DEF LockInv
  <2> QED BY <2>5, <2>6 DEF Inv
<1>3. CASE AlreadyExists(t)
  <2>1. Goto(t, "down") /\ "down" \in Place /\ pc[t] = "created"
    BY <1>3 DEF AlreadyExists, Place
  <2>2. /\ In("down", Counted) = 0 /\ In("created", Counted) = 1
        /\ In("down", {"hold"}) = 0 /\ In("created", {"hold"}) = 0
    BY DEF In, Counted
  <2>3. PolHolders(p) = {}
    BY <1>1, <2>1 DEF PolHolders, At
  <2>4. /\ ok' = [ok EXCEPT ![p] = Unlocked] /\ mode' = [mode EXCEPT ![p] = Unlocked]
        /\ held' = [held EXCEPT ![p] = 0] /\ polFd' = [polFd EXCEPT ![p] = NoFile]
        /\ UNCHANGED <<pol, polFile, made, polCnt, polMode, want, killed>>
    BY <1>3 DEF AlreadyExists
  <2>5. TypeOK'
    BY <1>1, <2>1, <2>4, Step1 DEF TypeOK, FileLock, NoFile
  <2>6. polCnt[p] = 0 /\ pol[p] = Unlocked
    BY <1>1, <2>3, AtCount DEF LockInv, TypeOK, PolHolders
  <2>7. LockInv'
    <3>0. At(pc', Counted, p) = {}
      BY <1>1, <2>1, Step1 DEF At, Counted
    <3>1. \A q \in Proc : /\ held'[q] = Cardinality(Holders(q)')
                          /\ polCnt'[q] <= Cardinality(PolHolders(q)')
      <4>1. Cardinality(Holders(p)') = 0 /\ Cardinality(PolHolders(p)') \in Nat
        BY <3>0, AtCount DEF Holders, PolHolders
      <4>2. \A q \in Proc \ {p} : /\ Cardinality(Holders(q)') = Cardinality(Holders(q))
                                 /\ Cardinality(PolHolders(q)') = Cardinality(PolHolders(q))
        BY <2>1, Step1
      <4>3. held'[p] = 0 /\ polCnt'[p] = 0
        BY <1>1, <2>4, <2>6 DEF TypeOK
      <4>4. \A q \in Proc \ {p} : held'[q] = held[q] /\ polCnt'[q] = polCnt[q]
        BY <1>1, <2>4 DEF TypeOK
      <4>5. \A q \in Proc : held[q] = Cardinality(Holders(q)) /\ polCnt[q] <= Cardinality(PolHolders(q))
        BY <1>1, Parts
      <4> QED BY <4>1, <4>2, <4>3, <4>4, <4>5
    <3>2. \A u \in Thread : KMode(want[u])' = KMode(want[u])
      BY <2>4 DEF KMode
    <3>3. /\ ok'[p] = Unlocked /\ mode'[p] = Unlocked
          /\ \A q \in Proc \ {p} : ok'[q] = ok[q] /\ mode'[q] = mode[q] /\ held'[q] = held[q]
      BY <1>1, <2>4 DEF TypeOK
    <3>4. ASSUME NEW q \in Proc
          PROVE  /\ mode'[q] = ok'[q]
                 /\ pol'[q] # Unlocked => polCnt'[q] > 0 /\ pol'[q] <= ok'[q]
                 /\ ok'[q] = Exclusive => \A r \in Proc \ {q} : ok'[r] = Unlocked
      <4>1. CASE q = p
        BY <2>4, <2>6, <3>3, <4>1 DEF Unlocked, Exclusive
      <4>2. CASE q # p
        BY <1>1, <2>4, <3>3, <4>2, Parts
      <4> QED BY <4>1, <4>2
    <3>5. pc'[t] = "down" /\ \A u \in Thread \ {t} : pc'[u] = pc[u]
      BY <2>1, Step1
    <3>6. ASSUME NEW u \in Thread
          PROVE  /\ pc'[u] \in {"waitPol", "failed", "hold"} => KMode(want[u])' <= ok'[ProcOf[u]]
                 /\ pc'[u] = "waitOk" => held'[ProcOf[u]] = 0
                 /\ pc'[u] \in {"creating", "created"} => ProcOf[u] \in Loader
      <4>1. CASE u = t
        BY <3>5, <4>1
      <4>2. CASE u # t
        <5>1. pc'[u] = pc[u] /\ ProcOf[u] # p /\ ProcOf[u] \in Proc
          BY <1>1, <3>5, <4>2, ProcOfAssumption
        <5> QED BY <1>1, <3>2, <3>3, <5>1, Parts
      <4> QED BY <4>1, <4>2
    <3>7. \A u, v \in Thread :
            /\ pc'[u] \in {"waitOk", "waitPol"} /\ pc'[v] \in {"waitOk", "waitPol"}
            /\ ProcOf[v] = ProcOf[u]
            => v = u
      BY <1>1, <3>5, Parts
    <3> QED BY <3>1, <3>4, <3>6, <3>7 DEF LockInv
  <2> QED BY <2>5, <2>7 DEF Inv
<1> QED BY <1>2, <1>3

(* A process whose threads are at no counted place, and whose counts are   *)
(* zero, keeps the invariant when the others stay as they are.             *)
LEMMA Cleared ==
  ASSUME TypeOK, LockInv, NEW p \in Proc,
         \A t \in Thread : ProcOf[t] = p => pc'[t] \in {"down", "idle"},
         \A t \in Thread : ProcOf[t] # p => pc'[t] = pc[t],
         want' = want,
         held'[p] = 0, polCnt'[p] = 0,
         \/ UNCHANGED <<ok, mode, pol>> /\ polCnt[p] = 0
         \/ ok'[p] = Unlocked /\ mode'[p] = Unlocked /\ pol'[p] = Unlocked,
         \A q \in Proc \ {p} : /\ held'[q] = held[q] /\ polCnt'[q] = polCnt[q] /\ ok'[q] = ok[q]
                               /\ mode'[q] = mode[q] /\ pol'[q] = pol[q]
  PROVE  LockInv'
<1>1. \A q \in Proc : /\ held'[q] = Cardinality(Holders(q)')
                      /\ polCnt'[q] <= Cardinality(PolHolders(q)')
  <2>1. At(pc', Counted, p) = {} /\ At(pc', {"hold"}, p) = {}
    BY DEF At, Counted
  <2>2. Cardinality(Holders(p)') = 0 /\ Cardinality(PolHolders(p)') = 0
    BY <2>1, AtCount DEF Holders, PolHolders
  <2>3. \A q \in Proc \ {p} : Holders(q)' = Holders(q) /\ PolHolders(q)' = PolHolders(q)
    BY DEF Holders, PolHolders, At
  <2>4. \A q \in Proc : held[q] = Cardinality(Holders(q)) /\ polCnt[q] <= Cardinality(PolHolders(q))
    BY Parts
  <2> QED BY <2>2, <2>3, <2>4
<1>2. \A q \in Proc : mode'[q] = ok'[q]
  BY Parts
<1>3. ASSUME NEW q \in Proc
      PROVE  pol'[q] # Unlocked => polCnt'[q] > 0 /\ pol'[q] <= ok'[q]
  <2>1. pol[p] # Unlocked => polCnt[p] > 0
    BY Parts
  <2>2. pol'[p] = Unlocked
    BY <2>1
  <2> QED BY <2>2, Parts
<1>4. ASSUME NEW q \in Proc, ok'[q] = Exclusive, NEW r \in Proc \ {q}
      PROVE  ok'[r] = Unlocked
  <2>1. ok[q] = Exclusive
    BY <1>4 DEF Unlocked, Exclusive
  <2>2. ok[r] = Unlocked
    BY <2>1, Parts
  <2> QED BY <2>2
<1>5. ASSUME NEW u \in Thread
      PROVE  /\ pc'[u] \in {"waitPol", "failed", "hold"} => KMode(want[u])' <= ok'[ProcOf[u]]
             /\ pc'[u] = "waitOk" => held'[ProcOf[u]] = 0
             /\ pc'[u] \in {"creating", "created"} => ProcOf[u] \in Loader
  <2>1. KMode(want[u])' = KMode(want[u]) /\ ProcOf[u] \in Proc
    BY ProcOfAssumption DEF KMode
  <2>2. CASE ProcOf[u] = p
    BY <2>2
  <2>3. CASE ProcOf[u] # p
    BY <2>1, <2>3, Parts
  <2> QED BY <2>2, <2>3
<1>6. \A u, v \in Thread :
        /\ pc'[u] \in {"waitOk", "waitPol"} /\ pc'[v] \in {"waitOk", "waitPol"}
        /\ ProcOf[v] = ProcOf[u]
        => v = u
  BY Parts
<1> QED BY <1>1, <1>2, <1>3, <1>4, <1>5, <1>6 DEF LockInv

(* A killed process and one that opens the files have no hold.             *)
LEMMA ProcessInv ==
  ASSUME Inv, NEW p \in Proc, Kill(p) \/ Open(p)
  PROVE  Inv'
<1>1. /\ TypeOK /\ LockInv
      /\ pc' \in [Thread -> Place]
      /\ \A t \in Thread : ProcOf[t] = p => pc'[t] \in {"down", "idle"}
      /\ \A t \in Thread : ProcOf[t] # p => pc'[t] = pc[t]
      /\ UNCHANGED <<polFile, made, want>>
  BY DEF Inv, TypeOK, Kill, Open, Place
<1>5. CASE Kill(p)
  <2>1. /\ ok' = [ok EXCEPT ![p] = Unlocked] /\ mode' = [mode EXCEPT ![p] = Unlocked]
        /\ pol' = [pol EXCEPT ![p] = Unlocked] /\ held' = [held EXCEPT ![p] = 0]
        /\ polCnt' = [polCnt EXCEPT ![p] = 0]
    BY <1>5 DEF Kill
  <2>2. TypeOK'
    BY <1>1, <1>5, <2>1 DEF Kill, TypeOK, FileLock, NoFile
  <2>3. LockInv'
    BY <1>1, <1>5, <2>1, Cleared DEF TypeOK
  <2> QED BY <2>2, <2>3 DEF Inv
<1>6. CASE Open(p)
  <2>1. TypeOK'
    BY <1>1, <1>6 DEF Open, TypeOK, state
  <2>2. Cardinality(Holders(p)) = 0
    BY <1>6, Counts DEF Open, Counted
  <2>3. /\ held[p] = 0 /\ polCnt[p] = 0 /\ polCnt[p] \in Nat
        /\ UNCHANGED <<held, polCnt, ok, mode, pol>>
    <3>1. held[p] = Cardinality(Holders(p)) /\ polCnt[p] <= Cardinality(PolHolders(p))
      BY <1>1, Parts
    <3>2. Cardinality(PolHolders(p)) = 0
      BY <2>2, Counts
    <3>3. polCnt[p] \in Nat
      BY <1>1 DEF TypeOK
    <3> QED BY <1>6, <2>2, <3>1, <3>2, <3>3 DEF Open, state
  <2>4. LockInv'
    BY <1>1, <1>6, <2>3, Cleared DEF TypeOK
  <2> QED BY <2>1, <2>4 DEF Inv
<1> QED BY <1>5, <1>6

(* Every step of the system keeps the invariant.                           *)
LEMMA NextInv == Inv /\ [Next]_vars => Inv'
<1> SUFFICES ASSUME Inv, [Next]_vars PROVE Inv'
  OBVIOUS
<1>0. TypeOK /\ LockInv
  BY DEF Inv
<1>1. ASSUME NEW t \in Thread, CantLock(t) \/ ReopenFails(t) PROVE Inv'
  <2>1. /\ Goto(t, "idle") /\ pc[t] \notin Counted /\ UNCHANGED <<kernel, state, killed>>
        /\ want' = want
    BY <1>1 DEF CantLock, ReopenFails, Counted
  <2> QED BY <1>0, <2>1, QuietMove DEF TypeOK
<1>2. ASSUME NEW t \in Thread, StartWait(t) PROVE Inv'
  <2>1. /\ Goto(t, "waitOk") /\ pc[t] \notin Counted /\ UNCHANGED <<kernel, state, killed>>
        /\ want' = want /\ StateFree(ProcOf[t]) /\ held[ProcOf[t]] = 0
    BY <1>2 DEF StartWait, Counted
  <2> QED BY <1>0, <2>1, QuietMove DEF TypeOK
<1>3. ASSUME NEW t \in Thread, LockOk(t) PROVE Inv'
  <2>1. KMode(want[t]) \in {Shared, Exclusive} /\ pc[t] = "waitOk" /\ pc[t] \notin Counted
    BY <1>3 DEF LockOk, KMode, Counted
  <2>2. held[ProcOf[t]] = 0
        /\ \A u \in Thread \ {t} : ProcOf[u] = ProcOf[t] => pc[u] \notin {"waitOk", "waitPol"}
    BY <1>0, <2>1 DEF LockInv
  <2> QED BY <1>3, <2>1, <2>2, Granted DEF LockOk
<1>4. ASSUME NEW t \in Thread, TryUpgrade(t) PROVE Inv'
  <2>1. KMode(want[t]) \in {Shared, Exclusive} /\ pc[t] \notin Counted
        /\ mode[ProcOf[t]] < KMode(want[t])
        /\ \A u \in Thread \ {t} : ProcOf[u] = ProcOf[t] => pc[u] \notin {"waitOk", "waitPol"}
    BY <1>4 DEF TryUpgrade, KMode, Counted, Upgrade, StateFree
  <2> QED BY <1>4, <2>1, Granted DEF TryUpgrade
<1>5. ASSUME NEW t \in Thread, Create(t) PROVE Inv'
  <2>1. /\ Goto(t, "creating") /\ pc[t] \notin Counted /\ UNCHANGED <<kernel, state, killed>>
        /\ want' = want /\ ProcOf[t] \in Loader
    BY <1>5 DEF Create, Counted
  <2> QED BY <1>0, <2>1, QuietMove DEF TypeOK
<1>6. ASSUME NEW t \in Thread, NEW m \in DbLockMode, Request(t, m) PROVE Inv'
  <2>1. /\ Goto(t, "want") /\ pc[t] \notin Counted /\ UNCHANGED <<kernel, state, killed>>
        /\ want' = [want EXCEPT ![t] = m]
    BY <1>6 DEF Request, Counted
  <2> QED BY <1>0, <2>1, QuietMove DEF TypeOK
<1>7. CASE AdminMakes \/ UNCHANGED vars
  <2>1. UNCHANGED <<ok, pol, held, mode, polCnt, pc, want>>
    BY <1>7 DEF AdminMakes, vars, state
  <2>2. TypeOK'
    <3>1. CASE AdminMakes
      <4>1. made' = made + 1 /\ polFile' = made + 1 /\ killed' = FALSE
            /\ UNCHANGED <<ok, pol, polFd, held, mode, polCnt, polMode, pc, want>>
        BY <3>1 DEF AdminMakes, state
      <4>2. killed' \in BOOLEAN
        BY <4>1
      <4> QED BY <1>0, <4>1, <4>2 DEF TypeOK
    <3>2. CASE UNCHANGED vars
      BY <1>0, <3>2 DEF TypeOK, vars
    <3> QED BY <1>7, <3>1, <3>2
  <2>3. \A q \in Proc : Holders(q)' = Holders(q) /\ PolHolders(q)' = PolHolders(q)
    BY <2>1 DEF Holders, PolHolders
  <2>4. \A u \in Thread : KMode(want[u])' = KMode(want[u])
    BY <2>1 DEF KMode
  <2>5. LockInv'
    BY <1>0, <2>1, <2>3, <2>4 DEF LockInv, TypeOK
  <2> QED BY <2>2, <2>5 DEF Inv
<1> QED BY <1>1, <1>2, <1>3, <1>4, <1>5, <1>6, <1>7, JoinInv, PolicyInv, UnlockInv, CreateInv,
           ProcessInv DEF Next, Step

(* The State record and the kernel's locks agree at all times, for every   *)
(* number of processes and threads.                                        *)
THEOREM LockInvariant == Spec => [](TypeOK /\ LockInv)
<1>1. Spec => []Inv
  BY InitInv, NextInv, PTL DEF Spec
<1> QED BY <1>1, PTL DEF Inv

(* The invariant gives mutual exclusion: an exclusive holder's process has *)
(* the kernel's exclusive lock, and a holder elsewhere has some lock.      *)
THEOREM Exclusion == Spec => []MutualExclusion
<1>1. TypeOK /\ LockInv => MutualExclusion
  <2> SUFFICES ASSUME TypeOK, LockInv, NEW t \in Thread, NEW u \in Thread,
                      Holds(t, Exclusive), Holds(u, Shared)
               PROVE  ProcOf[t] = ProcOf[u]
    BY DEF MutualExclusion
  <2>1. KMode(want[t]) = Exclusive /\ KMode(want[u]) >= Shared
    BY DEF Holds, KMode, TypeOK, DbLockMode, Shared, Exclusive, Permanent
  <2>2. ok[ProcOf[t]] >= Exclusive /\ ok[ProcOf[u]] >= Shared
    <3>1. KMode(want[t]) <= ok[ProcOf[t]] /\ KMode(want[u]) <= ok[ProcOf[u]]
      BY DEF Holds, LockInv
    <3>2. ok[ProcOf[t]] \in 0 .. 2 /\ ok[ProcOf[u]] \in 0 .. 2
      BY ProcOfAssumption DEF TypeOK, FileLock, Unlocked, Shared, Exclusive
    <3> QED BY <2>1, <3>1, <3>2 DEF KMode, Shared, Exclusive
  <2>3. ok[ProcOf[t]] = Exclusive /\ ok[ProcOf[u]] # Unlocked
    BY <2>2, ProcOfAssumption DEF TypeOK, FileLock, Unlocked, Shared, Exclusive
  <2>4. \A p \in Proc : ok[p] = Exclusive => \A q \in Proc \ {p} : ok[q] = Unlocked
    BY DEF LockInv
  <2> QED BY <2>3, <2>4, ProcOfAssumption
<1> QED BY <1>1, LockInvariant, PTL

(* A lock on the policy file is never stronger than its process's lock on  *)
(* `principal.ok', so whoever has the latter finds the former free.        *)
THEOREM PolicyFree == Spec => []PolicyLockIsFree
<1>1. TypeOK /\ LockInv => PolicyLockIsFree
  <2> SUFFICES ASSUME TypeOK, LockInv, NEW t \in Thread, pc[t] = "waitPol",
                      NEW q \in Proc \ {ProcOf[t]}, pol[q] # Unlocked
               PROVE  KMode(want[t]) = Shared /\ pol[q] = Shared
    BY DEF PolicyLockIsFree, CanLockPol
  <2>1. KMode(want[t]) <= ok[ProcOf[t]] /\ pol[q] <= ok[q] /\ ProcOf[t] \in Proc
    BY ProcOfAssumption DEF LockInv
  <2>2. ok[q] # Unlocked /\ ok[ProcOf[t]] # Unlocked
    BY <2>1 DEF TypeOK, FileLock, Unlocked, Shared, Exclusive, KMode
  <2>3. ok[q] = Shared /\ ok[ProcOf[t]] = Shared
    BY <2>1, <2>2 DEF LockInv, TypeOK, FileLock
  <2> QED BY <2>1, <2>3 DEF TypeOK, FileLock, Unlocked, Shared, Exclusive, KMode
<1> QED BY <1>1, LockInvariant, PTL
=============================================================================

--------------------------- MODULE RuntimeProofs ---------------------------
(***************************************************************************)
(* The safety properties of Runtime, for every set of processes, threads   *)
(* and PIDs.  None of them is inductive: LiveRuntime rests on what RUNTIME *)
(* and FORK_RUNTIME hold when the PIDs match, BuiltOnce on who owns which  *)
(* runtime, and both on the locks admitting one thread at a time.          *)
(***************************************************************************)
EXTENDS Runtime, TLAPS

\* A thread is in the critical part exactly when it holds the lock.
Held ==
    \A p \in Process, t \in Thread :
        /\ pc[p][t] = "locked" <=> mutex[p] = t
        /\ pc[p][t] = "building" <=> initing[p] = t

\* A process that was not started has returned no runtime and runs nothing.
Unborn ==
    \A p \in Process : pidOf[p] = NoPid =>
        /\ p \notin alive
        /\ p \notin clean
        /\ \A t \in Thread : got[p][t] = None

\* A runtime some memory points to was built by a process that was started.
Owned ==
    \A p, q \in Process : once[q] = p \/ forkRt[q] = p => pidOf[p] # NoPid

\* The slots agree with the locks that protect them.
Slots ==
    \A p \in Process :
        /\ forkRt[p] = p => forkPid[p] = pidOf[p]
        /\ initing[p] # None => once[p] = None

\* A process points to every runtime it built.
Counted ==
    \A p \in Process :
        built[p] = (IF once[p] = p THEN 1 ELSE 0)
                 + (IF forkRt[p] = p THEN 1 ELSE 0)

\* In a clean process a PID that matches stands for a live runtime.
Sound ==
    \A p \in clean :
        /\ recorded[p] = pidOf[p] => once[p] = p
        /\ recorded[p] = NoPid => once[p] \in {p, None}
        /\ forkPid[p] = pidOf[p] => forkRt[p] = p
        /\ \A t \in Thread :
              /\ pc[p][t] \in {"init", "building", "store"} =>
                     recorded[p] \in {NoPid, pidOf[p]}
              /\ pc[p][t] = "store" => once[p] = p

Inv == /\ TypeOK
       /\ Held
       /\ Unborn
       /\ Owned
       /\ Slots
       /\ Counted
       /\ Sound
       /\ LiveRuntime

LEMMA InitInv == Init => Inv
  BY RuntimeAssumption, SMT
  DEF Init, Inv, TypeOK, Busy, Held, Unborn, Owned, Slots, Counted,
      Sound, LiveRuntime

\* The steps of a thread inside get_runtime, one lemma each.
LEMMA GetRuntimeInv ==
  ASSUME Inv, NEW p \in alive, NEW t \in Thread, GetRuntime(p, t)
  PROVE  Inv'
<1>0. p \in Process
  BY DEF Inv, TypeOK
<1>1. CASE recorded[p] = pidOf[p]
  <2>0. /\ pc[p][t] = "idle"
        /\ pc' = [pc EXCEPT ![p][t] = "idle"]
        /\ got' = [got EXCEPT ![p][t] = once[p]]
        /\ UNCHANGED <<alive, pidOf, once, initing, recorded, mutex, forkPid,
                    forkRt, built, clean>>
    BY <1>1 DEF GetRuntime, Returns, Goto
  <2>1. TypeOK'
    BY RuntimeAssumption, <1>0, <1>1, <2>0
    DEF Inv, TypeOK, Busy
  <2>2. Held'
    BY RuntimeAssumption, <1>0, <1>1, <2>0
    DEF Inv, TypeOK, Held
    <2>3. Unborn'
    BY RuntimeAssumption, <1>0, <1>1, <2>0
    DEF Inv, TypeOK, Unborn
  <2>4. Owned'
    BY RuntimeAssumption, <1>0, <1>1, <2>0
    DEF Inv, TypeOK, Owned, Unborn
  <2>5. Slots'
    BY RuntimeAssumption, <1>0, <1>1, <2>0
    DEF Inv, TypeOK, Slots, Held
  <2>6. Counted'
    BY RuntimeAssumption, <1>0, <1>1, <2>0
    DEF Inv, TypeOK, Counted, Slots, Held
  <2>7. Sound'
    BY RuntimeAssumption, <1>0, <1>1, <2>0
    DEF Inv, TypeOK, Sound, Held, Unborn, Slots
  <2>8. LiveRuntime'
    BY RuntimeAssumption, <1>0, <1>1, <2>0
    DEF Inv, TypeOK, LiveRuntime, Sound
  <2> QED BY <2>1, <2>2, <2>3, <2>4, <2>5, <2>6, <2>7, <2>8 DEF Inv
<1>2. CASE recorded[p] # pidOf[p]
  <2>0. /\ pc[p][t] = "idle"
        /\ pc' = [pc EXCEPT ![p][t] = "slow"]
        /\ got' = got
        /\ UNCHANGED <<alive, pidOf, once, initing, recorded, mutex, forkPid,
                    forkRt, built, clean>>
    BY <1>2 DEF GetRuntime, Returns, Goto
  <2>1. TypeOK'
    BY RuntimeAssumption, <1>0, <1>2, <2>0
    DEF Inv, TypeOK, Busy
  <2>2. Held'
    BY RuntimeAssumption, <1>0, <1>2, <2>0
    DEF Inv, TypeOK, Held
    <2>3. Unborn'
    BY RuntimeAssumption, <1>0, <1>2, <2>0
    DEF Inv, TypeOK, Unborn
  <2>4. Owned'
    BY RuntimeAssumption, <1>0, <1>2, <2>0
    DEF Inv, TypeOK, Owned, Unborn
  <2>5. Slots'
    BY RuntimeAssumption, <1>0, <1>2, <2>0
    DEF Inv, TypeOK, Slots, Held
  <2>6. Counted'
    BY RuntimeAssumption, <1>0, <1>2, <2>0
    DEF Inv, TypeOK, Counted, Slots, Held
  <2>7. Sound'
    BY RuntimeAssumption, <1>0, <1>2, <2>0
    DEF Inv, TypeOK, Sound, Held, Unborn, Slots
  <2>8. LiveRuntime'
    BY RuntimeAssumption, <1>0, <1>2, <2>0
    DEF Inv, TypeOK, LiveRuntime, Sound
  <2> QED BY <2>1, <2>2, <2>3, <2>4, <2>5, <2>6, <2>7, <2>8 DEF Inv
<1> QED BY <1>1, <1>2

LEMMA InitOrForkInv ==
  ASSUME Inv, NEW p \in alive, NEW t \in Thread, InitOrForkRuntime(p, t)
  PROVE  Inv'
<1>1. TypeOK'
  BY RuntimeAssumption
  DEF Inv, TypeOK, Busy, InitOrForkRuntime, Goto
<1>2. Held'
  BY RuntimeAssumption
  DEF Inv, TypeOK, Held, InitOrForkRuntime, Goto
<1>3. Unborn'
  BY RuntimeAssumption
  DEF Inv, TypeOK, Unborn, InitOrForkRuntime, Goto
<1>4. Owned'
  BY RuntimeAssumption
  DEF Inv, TypeOK, Owned, Unborn, InitOrForkRuntime, Goto
<1>5. Slots'
  BY RuntimeAssumption
  DEF Inv, TypeOK, Slots, Held, InitOrForkRuntime, Goto
<1>6. Counted'
  BY RuntimeAssumption
  DEF Inv, TypeOK, Counted, Slots, Held, InitOrForkRuntime, Goto
<1>7. Sound'
  BY RuntimeAssumption
  DEF Inv, TypeOK, Sound, Held, Unborn, Slots, InitOrForkRuntime, Goto
<1>8. LiveRuntime'
  BY RuntimeAssumption
  DEF Inv, TypeOK, LiveRuntime, Sound, InitOrForkRuntime, Goto
<1> QED BY <1>1, <1>2, <1>3, <1>4, <1>5, <1>6, <1>7, <1>8 DEF Inv

LEMMA GetOrInitInv ==
  ASSUME Inv, NEW p \in alive, NEW t \in Thread, GetOrInit(p, t)
  PROVE  Inv'
<1>0. p \in Process
  BY DEF Inv, TypeOK
<1>1. CASE once[p] # None
  <2>0. /\ pc[p][t] = "init"
        /\ pc' = [pc EXCEPT ![p][t] = "store"]
        /\ initing' = initing
        /\ UNCHANGED <<alive, pidOf, once, recorded, mutex, forkPid, forkRt,
                    got, built, clean>>
    BY <1>1 DEF GetOrInit, Goto
  <2>1. TypeOK'
    BY RuntimeAssumption, <1>0, <1>1, <2>0
    DEF Inv, TypeOK, Busy
  <2>2. Held'
    BY RuntimeAssumption, <1>0, <1>1, <2>0
    DEF Inv, TypeOK, Held
    <2>3. Unborn'
    BY RuntimeAssumption, <1>0, <1>1, <2>0
    DEF Inv, TypeOK, Unborn
  <2>4. Owned'
    BY RuntimeAssumption, <1>0, <1>1, <2>0
    DEF Inv, TypeOK, Owned, Unborn
  <2>5. Slots'
    BY RuntimeAssumption, <1>0, <1>1, <2>0
    DEF Inv, TypeOK, Slots, Held
  <2>6. Counted'
    BY RuntimeAssumption, <1>0, <1>1, <2>0
    DEF Inv, TypeOK, Counted, Slots, Held
  <2>7. Sound'
    BY RuntimeAssumption, <1>0, <1>1, <2>0
    DEF Inv, TypeOK, Sound, Held, Unborn, Slots
  <2>8. LiveRuntime'
    BY RuntimeAssumption, <1>0, <1>1, <2>0
    DEF Inv, TypeOK, LiveRuntime, Sound
  <2> QED BY <2>1, <2>2, <2>3, <2>4, <2>5, <2>6, <2>7, <2>8 DEF Inv
<1>2. CASE once[p] = None
  <2>0. /\ pc[p][t] = "init"
        /\ initing[p] = None
        /\ initing' = [initing EXCEPT ![p] = t]
        /\ pc' = [pc EXCEPT ![p][t] = "building"]
        /\ UNCHANGED <<alive, pidOf, once, recorded, mutex, forkPid, forkRt,
                    got, built, clean>>
    BY <1>2 DEF GetOrInit, Goto
  <2>1. TypeOK'
    BY RuntimeAssumption, <1>0, <1>2, <2>0
    DEF Inv, TypeOK, Busy
  <2>2. Held'
    BY RuntimeAssumption, <1>0, <1>2, <2>0
    DEF Inv, TypeOK, Held
    <2>3. Unborn'
    BY RuntimeAssumption, <1>0, <1>2, <2>0
    DEF Inv, TypeOK, Unborn
  <2>4. Owned'
    BY RuntimeAssumption, <1>0, <1>2, <2>0
    DEF Inv, TypeOK, Owned, Unborn
  <2>5. Slots'
    BY RuntimeAssumption, <1>0, <1>2, <2>0
    DEF Inv, TypeOK, Slots, Held
  <2>6. Counted'
    BY RuntimeAssumption, <1>0, <1>2, <2>0
    DEF Inv, TypeOK, Counted, Slots, Held
  <2>7. Sound'
    BY RuntimeAssumption, <1>0, <1>2, <2>0
    DEF Inv, TypeOK, Sound, Held, Unborn, Slots
  <2>8. LiveRuntime'
    BY RuntimeAssumption, <1>0, <1>2, <2>0
    DEF Inv, TypeOK, LiveRuntime, Sound
  <2> QED BY <2>1, <2>2, <2>3, <2>4, <2>5, <2>6, <2>7, <2>8 DEF Inv
<1> QED BY <1>1, <1>2

LEMMA BuildOnceInv ==
  ASSUME Inv, NEW p \in alive, NEW t \in Thread, BuildOnce(p, t)
  PROVE  Inv'
<1>0. p \in Process /\ once[p] = None
  BY RuntimeAssumption DEF Inv, TypeOK, Held, Slots, BuildOnce
<1>1. TypeOK'
  BY RuntimeAssumption
  DEF Inv, TypeOK, Busy, BuildOnce, Goto
<1>2. Held'
  BY RuntimeAssumption
  DEF Inv, TypeOK, Held, BuildOnce, Goto
<1>3. Unborn'
  BY RuntimeAssumption
  DEF Inv, TypeOK, Unborn, BuildOnce, Goto
<1>4. Owned'
  BY RuntimeAssumption
  DEF Inv, TypeOK, Owned, Unborn, BuildOnce, Goto
<1>5. Slots'
  BY RuntimeAssumption
  DEF Inv, TypeOK, Slots, Held, BuildOnce, Goto
<1>6. Counted'
  <2> SUFFICES ASSUME NEW q \in Process
               PROVE  built'[q] = (IF once'[q] = q THEN 1 ELSE 0)
                                + (IF forkRt'[q] = q THEN 1 ELSE 0)
    BY DEF Counted
  <2>1. CASE q = p
    BY RuntimeAssumption, <1>0, <2>1
    DEF Inv, TypeOK, Counted, BuildOnce
  <2>2. CASE q # p
    BY <1>0, <2>2 DEF Inv, TypeOK, Counted, BuildOnce
  <2> QED BY <2>1, <2>2
<1>7. Sound'
  BY RuntimeAssumption
  DEF Inv, TypeOK, Sound, Held, Unborn, Slots, BuildOnce, Goto
<1>8. LiveRuntime'
  BY RuntimeAssumption
  DEF Inv, TypeOK, LiveRuntime, Sound, BuildOnce, Goto
<1> QED BY <1>1, <1>2, <1>3, <1>4, <1>5, <1>6, <1>7, <1>8 DEF Inv

LEMMA StorePidInv ==
  ASSUME Inv, NEW p \in alive, NEW t \in Thread, StorePid(p, t)
  PROVE  Inv'
<1>1. TypeOK'
  BY RuntimeAssumption
  DEF Inv, TypeOK, Busy, StorePid, Returns, Goto
<1>2. Held'
  BY RuntimeAssumption
  DEF Inv, TypeOK, Held, StorePid, Returns, Goto
<1>3. Unborn'
  BY RuntimeAssumption
  DEF Inv, TypeOK, Unborn, StorePid, Returns, Goto
<1>4. Owned'
  BY RuntimeAssumption
  DEF Inv, TypeOK, Owned, Unborn, StorePid, Returns, Goto
<1>5. Slots'
  BY RuntimeAssumption
  DEF Inv, TypeOK, Slots, Held, StorePid, Returns, Goto
<1>6. Counted'
  BY RuntimeAssumption
  DEF Inv, TypeOK, Counted, Slots, Held, StorePid, Returns, Goto
<1>7. Sound'
  BY RuntimeAssumption
  DEF Inv, TypeOK, Sound, Held, Unborn, Slots, StorePid, Returns, Goto
<1>8. LiveRuntime'
  BY RuntimeAssumption
  DEF Inv, TypeOK, LiveRuntime, Sound, StorePid, Returns, Goto
<1> QED BY <1>1, <1>2, <1>3, <1>4, <1>5, <1>6, <1>7, <1>8 DEF Inv

LEMMA LockInv ==
  ASSUME Inv, NEW p \in alive, NEW t \in Thread, LockForkRuntime(p, t)
  PROVE  Inv'
<1>1. TypeOK'
  BY RuntimeAssumption
  DEF Inv, TypeOK, Busy, LockForkRuntime, Goto
<1>2. Held'
  BY RuntimeAssumption
  DEF Inv, TypeOK, Held, LockForkRuntime, Goto
<1>3. Unborn'
  BY RuntimeAssumption
  DEF Inv, TypeOK, Unborn, LockForkRuntime, Goto
<1>4. Owned'
  BY RuntimeAssumption
  DEF Inv, TypeOK, Owned, Unborn, LockForkRuntime, Goto
<1>5. Slots'
  BY RuntimeAssumption
  DEF Inv, TypeOK, Slots, Held, LockForkRuntime, Goto
<1>6. Counted'
  BY RuntimeAssumption
  DEF Inv, TypeOK, Counted, Slots, Held, LockForkRuntime, Goto
<1>7. Sound'
  BY RuntimeAssumption
  DEF Inv, TypeOK, Sound, Held, Unborn, Slots, LockForkRuntime, Goto
<1>8. LiveRuntime'
  BY RuntimeAssumption
  DEF Inv, TypeOK, LiveRuntime, Sound, LockForkRuntime, Goto
<1> QED BY <1>1, <1>2, <1>3, <1>4, <1>5, <1>6, <1>7, <1>8 DEF Inv

LEMMA UseForkInv ==
  ASSUME Inv, NEW p \in alive, NEW t \in Thread, UseForkRuntime(p, t)
  PROVE  Inv'
<1>0. p \in Process
  BY DEF Inv, TypeOK
<1>1. CASE forkPid[p] = pidOf[p]
  <2>0. /\ pc[p][t] = "locked"
        /\ pc' = [pc EXCEPT ![p][t] = "idle"]
        /\ got' = [got EXCEPT ![p][t] = forkRt[p]]
        /\ mutex' = [mutex EXCEPT ![p] = None]
        /\ UNCHANGED <<forkPid, forkRt, built>>
        /\ UNCHANGED <<alive, pidOf, once, initing, recorded, clean>>
    BY <1>1 DEF UseForkRuntime, Returns, Goto
  <2>1. TypeOK'
    BY RuntimeAssumption, <1>0, <1>1, <2>0
    DEF Inv, TypeOK, Busy
  <2>2. Held'
    BY RuntimeAssumption, <1>0, <1>1, <2>0
    DEF Inv, TypeOK, Held
    <2>3. Unborn'
    BY RuntimeAssumption, <1>0, <1>1, <2>0
    DEF Inv, TypeOK, Unborn
  <2>4. Owned'
    BY RuntimeAssumption, <1>0, <1>1, <2>0
    DEF Inv, TypeOK, Owned, Unborn
  <2>5. Slots'
    BY RuntimeAssumption, <1>0, <1>1, <2>0
    DEF Inv, TypeOK, Slots, Held
  <2>6. Counted'
    BY RuntimeAssumption, <1>0, <1>1, <2>0
    DEF Inv, TypeOK, Counted, Slots, Held
  <2>7. Sound'
    BY RuntimeAssumption, <1>0, <1>1, <2>0
    DEF Inv, TypeOK, Sound, Held, Unborn, Slots
  <2>8. LiveRuntime'
    BY RuntimeAssumption, <1>0, <1>1, <2>0
    DEF Inv, TypeOK, LiveRuntime, Sound
  <2> QED BY <2>1, <2>2, <2>3, <2>4, <2>5, <2>6, <2>7, <2>8 DEF Inv
<1>2. CASE forkPid[p] # pidOf[p]
  <2>0. /\ pc[p][t] = "locked"
        /\ pc' = [pc EXCEPT ![p][t] = "idle"]
        /\ got' = [got EXCEPT ![p][t] = p]
        /\ mutex' = [mutex EXCEPT ![p] = None]
        /\ forkPid' = [forkPid EXCEPT ![p] = pidOf[p]]
        /\ forkRt' = [forkRt EXCEPT ![p] = p]
        /\ built' = [built EXCEPT ![p] = @ + 1]
        /\ UNCHANGED <<alive, pidOf, once, initing, recorded, clean>>
    BY <1>2 DEF UseForkRuntime, Returns, Goto
  <2>1. TypeOK'
    BY RuntimeAssumption, <1>0, <1>2, <2>0
    DEF Inv, TypeOK, Busy
  <2>2. Held'
    BY RuntimeAssumption, <1>0, <1>2, <2>0
    DEF Inv, TypeOK, Held
    <2>3. Unborn'
    BY RuntimeAssumption, <1>0, <1>2, <2>0
    DEF Inv, TypeOK, Unborn
  <2>4. Owned'
    BY RuntimeAssumption, <1>0, <1>2, <2>0
    DEF Inv, TypeOK, Owned, Unborn
  <2>5. Slots'
    BY RuntimeAssumption, <1>0, <1>2, <2>0
    DEF Inv, TypeOK, Slots, Held
  <2>6. Counted'
    BY RuntimeAssumption, <1>0, <1>2, <2>0
    DEF Inv, TypeOK, Counted, Slots, Held
  <2>7. Sound'
    BY RuntimeAssumption, <1>0, <1>2, <2>0
    DEF Inv, TypeOK, Sound, Held, Unborn, Slots
  <2>8. LiveRuntime'
    BY RuntimeAssumption, <1>0, <1>2, <2>0
    DEF Inv, TypeOK, LiveRuntime, Sound
  <2> QED BY <2>1, <2>2, <2>3, <2>4, <2>5, <2>6, <2>7, <2>8 DEF Inv
<1> QED BY <1>1, <1>2

\* What the operating system does to the processes.
LEMMA ForkInv ==
  ASSUME Inv, NEW p \in Process, NEW t \in Thread, NEW c \in Process,
         NEW i \in Pid, Fork(p, t, c, i)
  PROVE  Inv'
<1>1. TypeOK'
  BY RuntimeAssumption
  DEF Inv, TypeOK, Busy, Fork, Published, Copied
<1>2. Held'
  BY RuntimeAssumption
  DEF Inv, TypeOK, Held, Fork, Published, Copied
<1>3. Unborn'
  BY RuntimeAssumption
  DEF Inv, TypeOK, Unborn, Fork, Published, Copied
<1>4. Owned'
  BY RuntimeAssumption
  DEF Inv, TypeOK, Owned, Unborn, Fork, Published, Copied
<1>5. Slots'
  BY RuntimeAssumption
  DEF Inv, TypeOK, Slots, Held, Owned, Fork, Published, Copied
<1>6. Counted'
  BY RuntimeAssumption
  DEF Inv, TypeOK, Counted, Slots, Held, Owned, Fork, Published, Copied
<1>7. Sound'
  BY RuntimeAssumption
  DEF Inv, TypeOK, Sound, Held, Unborn, Slots, Owned, Fork, Published, Copied
<1>8. LiveRuntime'
  BY RuntimeAssumption
  DEF Inv, TypeOK, LiveRuntime, Sound, Unborn, Fork, Published, Copied
<1> QED BY <1>1, <1>2, <1>3, <1>4, <1>5, <1>6, <1>7, <1>8 DEF Inv

LEMMA StartThreadInv ==
  ASSUME Inv, NEW p \in Process, NEW t \in Thread, StartThread(p, t)
  PROVE  Inv'
<1>1. TypeOK'
  BY RuntimeAssumption
  DEF Inv, TypeOK, Busy, StartThread, Goto
<1>2. Held'
  BY RuntimeAssumption
  DEF Inv, TypeOK, Held, StartThread, Goto
<1>3. Unborn'
  BY RuntimeAssumption
  DEF Inv, TypeOK, Unborn, StartThread, Goto
<1>4. Owned'
  BY RuntimeAssumption
  DEF Inv, TypeOK, Owned, Unborn, StartThread, Goto
<1>5. Slots'
  BY RuntimeAssumption
  DEF Inv, TypeOK, Slots, Held, StartThread, Goto
<1>6. Counted'
  BY RuntimeAssumption
  DEF Inv, TypeOK, Counted, Slots, Held, StartThread, Goto
<1>7. Sound'
  BY RuntimeAssumption
  DEF Inv, TypeOK, Sound, Held, Unborn, Slots, StartThread, Goto
<1>8. LiveRuntime'
  BY RuntimeAssumption
  DEF Inv, TypeOK, LiveRuntime, Sound, StartThread, Goto
<1> QED BY <1>1, <1>2, <1>3, <1>4, <1>5, <1>6, <1>7, <1>8 DEF Inv

LEMMA ExitInv ==
  ASSUME Inv, NEW p \in Process, Exit(p)
  PROVE  Inv'
<1>1. TypeOK'
  BY RuntimeAssumption
  DEF Inv, TypeOK, Busy, Exit
<1>2. Held'
  BY RuntimeAssumption
  DEF Inv, TypeOK, Held, Exit
<1>3. Unborn'
  BY RuntimeAssumption
  DEF Inv, TypeOK, Unborn, Exit
<1>4. Owned'
  BY RuntimeAssumption
  DEF Inv, TypeOK, Owned, Unborn, Exit
<1>5. Slots'
  BY RuntimeAssumption
  DEF Inv, TypeOK, Slots, Held, Exit
<1>6. Counted'
  BY RuntimeAssumption
  DEF Inv, TypeOK, Counted, Slots, Held, Exit
<1>7. Sound'
  BY RuntimeAssumption
  DEF Inv, TypeOK, Sound, Held, Unborn, Slots, Exit
<1>8. LiveRuntime'
  BY RuntimeAssumption
  DEF Inv, TypeOK, LiveRuntime, Sound, Exit
<1> QED BY <1>1, <1>2, <1>3, <1>4, <1>5, <1>6, <1>7, <1>8 DEF Inv

LEMMA NextInv == Inv /\ [Next]_vars => Inv'
<1> SUFFICES ASSUME Inv, [Next]_vars PROVE Inv'
  OBVIOUS
<1>1. ASSUME NEW p \in alive, NEW t \in Thread, Step(p, t)
      PROVE  Inv'
  BY <1>1, GetRuntimeInv, InitOrForkInv, GetOrInitInv, BuildOnceInv,
     StorePidInv, LockInv, UseForkInv DEF Step
<1>2. ASSUME NEW p \in Process, NEW t \in Thread, NEW c \in Process,
             NEW i \in Pid, Fork(p, t, c, i)
      PROVE  Inv'
  BY <1>2, ForkInv
<1>3. ASSUME NEW p \in Process, NEW t \in Thread, StartThread(p, t)
      PROVE  Inv'
  BY <1>3, StartThreadInv
<1>4. ASSUME NEW p \in Process, Exit(p)
      PROVE  Inv'
  BY <1>4, ExitInv
<1>5. CASE UNCHANGED vars
  BY <1>5 DEF vars, Inv, TypeOK, Held, Unborn, Owned, Slots,
              Counted, Sound, LiveRuntime
<1> QED BY <1>1, <1>2, <1>3, <1>4, <1>5 DEF Next

LEMMA InvariantHolds == Spec => []Inv
  BY InitInv, NextInv, PTL DEF Spec

-----------------------------------------------------------------------------
(* The variables of the registry keep their types, whatever threads and    *)
(* processes do to the three statics of runtime.rs.                        *)
THEOREM TypeCorrect == Spec => []TypeOK
<1>1. Inv => TypeOK
  BY DEF Inv
<1> QED BY <1>1, InvariantHolds, PTL

(* No thread is ever handed a runtime whose worker threads live in another *)
(* process, if its process was not forked between get_or_init and the      *)
(* store of the PID, or given a recorded PID again (get_runtime).          *)
THEOREM LiveRuntimeHolds == Spec => []LiveRuntime
<1>1. Inv => LiveRuntime
  BY DEF Inv
<1> QED BY <1>1, InvariantHolds, PTL

(* A process builds at most one runtime in FORK_RUNTIME and one in RUNTIME *)
(* however many threads race through init_or_fork_runtime.                 *)
THEOREM BuiltOnceHolds == Spec => []BuiltOnce
<1>1. ASSUME Inv, NEW p \in Process
      PROVE  built[p] <= IF once[p] = p THEN 2 ELSE 1
  <2>1. built[p] = (IF once[p] = p THEN 1 ELSE 0)
                 + (IF forkRt[p] = p THEN 1 ELSE 0)
    BY <1>1 DEF Inv, Counted
  <2>2. CASE forkRt[p] = p
    BY <2>1, <2>2
  <2>3. CASE forkRt[p] # p
    BY <2>1, <2>3
  <2> QED BY <2>2, <2>3
<1>2. Inv => BuiltOnce
  BY <1>1 DEF BuiltOnce
<1> QED BY <1>2, InvariantHolds, PTL

=============================================================================

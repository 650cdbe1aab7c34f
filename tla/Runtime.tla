------------------------------ MODULE Runtime ------------------------------
(***************************************************************************)
(* The process-global tokio runtime of runtime.rs: one OnceLock (RUNTIME), *)
(* one recorded PID (RUNTIME_PID) and one mutex (FORK_RUNTIME) with the    *)
(* runtime a forked process built for itself.  get_runtime is called with  *)
(* the GIL released (sync_op! calls it inside py.detach), so any other     *)
(* Python thread may call os.fork between two of its steps.  A fork copies *)
(* the memory and only the thread that called it; a tokio runtime has its  *)
(* worker threads in the process that built it and nowhere else, so a      *)
(* runtime is identified by that process.  Atomic accesses are taken to be *)
(* sequentially consistent.                                                *)
(***************************************************************************)
EXTENDS Naturals, FiniteSets

CONSTANTS
    Process,    \* the processes that can come to exist
    Thread,     \* the Python threads a process can have
    Pid,        \* the PIDs the operating system hands out, again and again
    Root,       \* the process that exists at the start
    RootPid,    \* and its PID
    MaxAlive,   \* bound: how many processes run at the same time
    NoPid,      \* RUNTIME_PID before the first store: 0, no process has it
    None,       \* no runtime, no holder
    Ghost       \* the holder of a lock that was copied by a fork and whose
                \* thread does not exist in the child

ASSUME RuntimeAssumption ==
    /\ Root \in Process
    /\ RootPid \in Pid
    /\ NoPid \notin Pid
    /\ None \notin Process \cup Thread
    /\ Ghost \notin Thread \cup {None}

VARIABLES
    alive,      \* the processes that are running
    pidOf,      \* the PID a process was started with, NoPid before that
    once,       \* RUNTIME: the process whose runtime it holds, or None
    initing,    \* the thread inside get_or_init's closure, None or Ghost
    recorded,   \* RUNTIME_PID
    mutex,      \* who holds the lock of FORK_RUNTIME
    forkPid,    \* FORK_RUNTIME's stored_pid, NoPid when it is None
    forkRt,     \* FORK_RUNTIME's runtime
    pc,         \* where each thread is in get_runtime; "gone": no such thread
    got,        \* the runtime the thread's last get_runtime returned
    built,      \* how many runtimes the process has built
    clean       \* the processes forked outside the window between get_or_init
                \* and the store of the PID, with a PID new to their memory

vars == <<alive, pidOf, once, initing, recorded, mutex, forkPid, forkRt, pc,
          got, built, clean>>

Busy == {"slow", "init", "building", "store", "lock", "locked"}

Init ==
    /\ alive = {Root}
    /\ pidOf = [p \in Process |-> IF p = Root THEN RootPid ELSE NoPid]
    /\ once = [p \in Process |-> None]
    /\ initing = [p \in Process |-> None]
    /\ recorded = [p \in Process |-> NoPid]
    /\ mutex = [p \in Process |-> None]
    /\ forkPid = [p \in Process |-> NoPid]
    /\ forkRt = [p \in Process |-> None]
    /\ pc = [p \in Process |-> [t \in Thread |->
                 IF p = Root THEN "idle" ELSE "gone"]]
    /\ got = [p \in Process |-> [t \in Thread |-> None]]
    /\ built = [p \in Process |-> 0]
    /\ clean = {Root}

Goto(p, t, l) == pc' = [pc EXCEPT ![p][t] = l]

Returns(p, t, rt) == /\ Goto(p, t, "idle")
                     /\ got' = [got EXCEPT ![p][t] = rt]

\* get_runtime: the fast path answers from RUNTIME when the PID is ours.
GetRuntime(p, t) ==
    /\ pc[p][t] = "idle"
    /\ IF recorded[p] = pidOf[p]
       THEN Returns(p, t, once[p])
       ELSE Goto(p, t, "slow") /\ UNCHANGED got
    /\ UNCHANGED <<alive, pidOf, once, initing, recorded, mutex, forkPid,
                   forkRt, built, clean>>

\* init_or_fork_runtime reads RUNTIME_PID a second time: zero means that no
\* process has recorded a runtime in this memory yet.
InitOrForkRuntime(p, t) ==
    /\ pc[p][t] = "slow"
    /\ Goto(p, t, IF recorded[p] = NoPid THEN "init" ELSE "lock")
    /\ UNCHANGED <<alive, pidOf, once, initing, recorded, mutex, forkPid,
                   forkRt, got, built, clean>>

\* RUNTIME.get_or_init: the first thread runs the closure, the others wait.
GetOrInit(p, t) ==
    /\ pc[p][t] = "init"
    /\ \/ /\ once[p] # None
          /\ Goto(p, t, "store")
          /\ UNCHANGED initing
       \/ /\ once[p] = None /\ initing[p] = None
          /\ initing' = [initing EXCEPT ![p] = t]
          /\ Goto(p, t, "building")
    /\ UNCHANGED <<alive, pidOf, once, recorded, mutex, forkPid, forkRt, got,
                   built, clean>>

BuildOnce(p, t) ==
    /\ pc[p][t] = "building"
    /\ once' = [once EXCEPT ![p] = p]
    /\ built' = [built EXCEPT ![p] = @ + 1]
    /\ initing' = [initing EXCEPT ![p] = None]
    /\ Goto(p, t, "store")
    /\ UNCHANGED <<alive, pidOf, recorded, mutex, forkPid, forkRt, got, clean>>

\* RUNTIME_PID.store(pid), after which the fast path is open.
StorePid(p, t) ==
    /\ pc[p][t] = "store"
    /\ recorded' = [recorded EXCEPT ![p] = pidOf[p]]
    /\ Returns(p, t, once[p])
    /\ UNCHANGED <<alive, pidOf, once, initing, mutex, forkPid, forkRt, built,
                   clean>>

LockForkRuntime(p, t) ==
    /\ pc[p][t] = "lock"
    /\ mutex[p] = None
    /\ mutex' = [mutex EXCEPT ![p] = t]
    /\ Goto(p, t, "locked")
    /\ UNCHANGED <<alive, pidOf, once, initing, recorded, forkPid, forkRt, got,
                   built, clean>>

\* Mutant: the stored PID is not compared with the own one.
UseForkRuntimeOfAnyPid(p, t) ==
    /\ pc[p][t] = "locked"
    /\ IF forkPid[p] # NoPid
       THEN /\ Returns(p, t, forkRt[p])
            /\ UNCHANGED <<forkPid, forkRt, built>>
       ELSE /\ forkPid' = [forkPid EXCEPT ![p] = pidOf[p]]
            /\ forkRt' = [forkRt EXCEPT ![p] = p]
            /\ built' = [built EXCEPT ![p] = @ + 1]
            /\ Returns(p, t, p)
    /\ mutex' = [mutex EXCEPT ![p] = None]
    /\ UNCHANGED <<alive, pidOf, once, initing, recorded, clean>>

\* Mutant: the new runtime is not kept for the next call.
UseForkRuntimeWithoutStore(p, t) ==
    /\ pc[p][t] = "locked"
    /\ IF forkPid[p] = pidOf[p]
       THEN /\ Returns(p, t, forkRt[p])
            /\ UNCHANGED built
       ELSE /\ built' = [built EXCEPT ![p] = @ + 1]
            /\ Returns(p, t, p)
    /\ mutex' = [mutex EXCEPT ![p] = None]
    /\ UNCHANGED <<alive, pidOf, once, initing, recorded, forkPid, forkRt,
                   clean>>

\* Under the lock: the runtime this PID built, or a new one that is leaked.
UseForkRuntime(p, t) ==
    /\ pc[p][t] = "locked"
    /\ IF forkPid[p] = pidOf[p]
       THEN /\ Returns(p, t, forkRt[p])
            /\ UNCHANGED <<forkPid, forkRt, built>>
       ELSE /\ forkPid' = [forkPid EXCEPT ![p] = pidOf[p]]
            /\ forkRt' = [forkRt EXCEPT ![p] = p]
            /\ built' = [built EXCEPT ![p] = @ + 1]
            /\ Returns(p, t, p)
    /\ mutex' = [mutex EXCEPT ![p] = None]
    /\ UNCHANGED <<alive, pidOf, once, initing, recorded, clean>>

Step(p, t) ==
    \/ GetRuntime(p, t)
    \/ InitOrForkRuntime(p, t)
    \/ GetOrInit(p, t)
    \/ BuildOnce(p, t)
    \/ StorePid(p, t)
    \/ LockForkRuntime(p, t)
    \/ UseForkRuntime(p, t)

-----------------------------------------------------------------------------
(* What the operating system and the interpreter do.                       *)

\* RUNTIME and RUNTIME_PID agree: no thread is between get_or_init and the store
\* of the PID.
Published(p) == once[p] = None <=> recorded[p] = NoPid

Copied(holder) == IF holder = None THEN None ELSE Ghost

\* os.fork() by thread t of p: the child c gets a PID no running process has.
Fork(p, t, c, i) ==
    /\ p \in alive /\ pc[p][t] = "idle"
    /\ pidOf[c] = NoPid
    /\ Cardinality(alive) < MaxAlive
    /\ \A q \in alive : pidOf[q] # i
    /\ alive' = alive \cup {c}
    /\ pidOf' = [pidOf EXCEPT ![c] = i]
    /\ once' = [once EXCEPT ![c] = once[p]]
    /\ initing' = [initing EXCEPT ![c] = Copied(initing[p])]
    /\ recorded' = [recorded EXCEPT ![c] = recorded[p]]
    /\ mutex' = [mutex EXCEPT ![c] = Copied(mutex[p])]
    /\ forkPid' = [forkPid EXCEPT ![c] = forkPid[p]]
    /\ forkRt' = [forkRt EXCEPT ![c] = forkRt[p]]
    /\ pc' = [pc EXCEPT ![c] = [u \in Thread |->
                  IF u = t THEN "idle" ELSE "gone"]]
    /\ clean' = IF Published(p) /\ i \notin {recorded[p], forkPid[p]}
                THEN clean \cup {c} ELSE clean
    /\ UNCHANGED <<got, built>>

\* A forked process starts another Python thread.
StartThread(p, t) ==
    /\ p \in alive /\ pc[p][t] = "gone"
    /\ Goto(p, t, "idle")
    /\ UNCHANGED <<alive, pidOf, once, initing, recorded, mutex, forkPid,
                   forkRt, got, built, clean>>

\* A process ends, its memory with it; its PID can be handed out again.
Exit(p) ==
    /\ p \in alive
    /\ alive' = alive \ {p}
    /\ once' = [once EXCEPT ![p] = None]
    /\ initing' = [initing EXCEPT ![p] = None]
    /\ recorded' = [recorded EXCEPT ![p] = NoPid]
    /\ mutex' = [mutex EXCEPT ![p] = None]
    /\ forkPid' = [forkPid EXCEPT ![p] = NoPid]
    /\ forkRt' = [forkRt EXCEPT ![p] = None]
    /\ pc' = [pc EXCEPT ![p] = [t \in Thread |-> "gone"]]
    /\ got' = [got EXCEPT ![p] = [t \in Thread |-> None]]
    /\ built' = [built EXCEPT ![p] = 0]
    /\ UNCHANGED <<pidOf, clean>>

Next ==
    \/ \E p \in alive, t \in Thread : Step(p, t)
    \/ \E p \in Process, t \in Thread, c \in Process, i \in Pid : Fork(p, t, c, i)
    \/ \E p \in Process, t \in Thread : StartThread(p, t)
    \/ \E p \in Process : Exit(p)

Spec == Init /\ [][Next]_vars

-----------------------------------------------------------------------------
TypeOK ==
    /\ alive \subseteq Process
    /\ pidOf \in [Process -> Pid \cup {NoPid}]
    /\ once \in [Process -> Process \cup {None}]
    /\ initing \in [Process -> Thread \cup {None, Ghost}]
    /\ recorded \in [Process -> Pid \cup {NoPid}]
    /\ mutex \in [Process -> Thread \cup {None, Ghost}]
    /\ forkPid \in [Process -> Pid \cup {NoPid}]
    /\ forkRt \in [Process -> Process \cup {None}]
    /\ pc \in [Process -> [Thread -> Busy \cup {"idle", "gone"}]]
    /\ got \in [Process -> [Thread -> Process \cup {None}]]
    /\ built \in [Process -> Nat]
    /\ clean \subseteq Process

(* A runtime whose worker threads died with another process is never used: *)
(* get_runtime answers with a runtime of the calling process, in the first *)
(* process and in every process forked at any moment but one, also while   *)
(* another thread builds a runtime or holds FORK_RUNTIME.  The moment is   *)
(* that between get_or_init and the store of the PID; left out, too, is a  *)
(* process that is given the PID an earlier user of its memory recorded.   *)
LiveRuntime ==
    \A p \in clean, t \in Thread : got[p][t] \in {p, None}

(* However many threads make the first call at once, before or after a     *)
(* fork, nothing is leaked per call: a forked process that inherited a     *)
(* runtime builds one of its own, and a process that filled RUNTIME itself *)
(* builds at most one more (a thread that compares the PID before the      *)
(* first store and reads it again after takes the path of a fork).         *)
BuiltOnce ==
    \A p \in Process : built[p] <= IF once[p] = p THEN 2 ELSE 1

=============================================================================

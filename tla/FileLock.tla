------------------------------ MODULE FileLock ------------------------------
(***************************************************************************)
(* The LOCK file that keeps a database to one user: PosixEnv::LockFile and *)
(* UnlockFile with the process's table of locked names (env_posix.cpp),    *)
(* DB::Open and the destructor, which hold the lock, and DestroyDB, which  *)
(* removes the file (db_impl.cpp).                                         *)
(*                                                                         *)
(* A handle is one attempt to hold the lock, in a thread of a process.     *)
(* The kernel's fcntl locks belong to a process and an inode, and a        *)
(* process loses its lock when it closes any descriptor of the inode.      *)
(* Fault_... definitions are wrong variants that the specification does    *)
(* not use.                                                                *)
(***************************************************************************)
EXTENDS Integers, FiniteSets

CONSTANTS Handles, Processes, ProcessOf,   \* handle -> process
          MaxInodes                        \* bound: LOCK files ever created

ASSUME FileLockAssumption == ProcessOf \in [Handles -> Processes] /\ MaxInodes \in Nat

VARIABLES fl_pc,       \* handle -> where it is
          fl_fd,       \* handle -> inode of its descriptor, 0: none
          fl_op,       \* handle -> "open" or "destroy"
          fl_name,     \* inode LOCK names, 0: no such file
          fl_inodes,   \* inodes created
          fl_fcntl,    \* inode -> set of (at most one) process that has it locked
          fl_table,    \* processes whose PosixLockTable has the name
          fl_dropped   \* history: a held lock was dropped, or a held file unlinked
fl_vars == <<fl_pc, fl_fd, fl_op, fl_name, fl_inodes, fl_fcntl, fl_table, fl_dropped>>

Holding == {h \in Handles : fl_pc[h] = "held"}
Owners(i) == IF i = 0 THEN {} ELSE fl_fcntl[i]

\* close(fd): every fcntl lock of the process on the inode goes.
Close(h) ==
    LET p == ProcessOf[h]
        i == fl_fd[h]
    IN /\ fl_fcntl' = [fl_fcntl EXCEPT ![i] = @ \ {p}]
       /\ fl_dropped' = (fl_dropped \/ \E g \in Holding \ {h} : ProcessOf[g] = p /\ fl_fd[g] = i)

To(h, pc, inode) == /\ fl_pc' = [fl_pc EXCEPT ![h] = pc]
                    /\ fl_fd' = [fl_fd EXCEPT ![h] = inode]

-----------------------------------------------------------------------------
(* LockFile *)

LockOpen(h, op) ==
    LET new == fl_inodes + 1
        i == IF fl_name = 0 THEN new ELSE fl_name
    IN /\ fl_pc[h] = "idle" /\ i <= MaxInodes
       /\ To(h, "opened", i) /\ fl_name' = i
       /\ fl_inodes' = IF i = new THEN new ELSE fl_inodes
       /\ fl_op' = [fl_op EXCEPT ![h] = op]
       /\ UNCHANGED <<fl_fcntl, fl_table, fl_dropped>>

Fault_LockInsert(h) ==
    /\ fl_pc[h] = "opened"
    /\ fl_table' = fl_table \cup {ProcessOf[h]}
    /\ To(h, "inserted", fl_fd[h])
    /\ UNCHANGED <<fl_op, fl_name, fl_inodes, fl_fcntl, fl_dropped>>

LockInsert(h) ==
    /\ fl_pc[h] = "opened" /\ ProcessOf[h] \notin fl_table
    /\ fl_table' = fl_table \cup {ProcessOf[h]}
    /\ To(h, "inserted", fl_fd[h])
    /\ UNCHANGED <<fl_op, fl_name, fl_inodes, fl_fcntl, fl_dropped>>

\* "already held by process": the descriptor just opened is closed again.
LockHeldByProcess(h) ==
    /\ fl_pc[h] = "opened" /\ ProcessOf[h] \in fl_table
    /\ Close(h) /\ To(h, "idle", 0)
    /\ UNCHANGED <<fl_op, fl_name, fl_inodes, fl_table>>

\* LockOrUnlock(fd, true): F_SETLK does not wait.
LockSet(h) ==
    /\ fl_pc[h] = "inserted" /\ Owners(fl_fd[h]) \subseteq {ProcessOf[h]}
    /\ fl_fcntl' = [fl_fcntl EXCEPT ![fl_fd[h]] = {ProcessOf[h]}]
    /\ To(h, "held", fl_fd[h])
    /\ UNCHANGED <<fl_op, fl_name, fl_inodes, fl_table, fl_dropped>>

LockRefused(h) ==
    /\ fl_pc[h] = "inserted" /\ ~(Owners(fl_fd[h]) \subseteq {ProcessOf[h]})
    /\ Close(h) /\ To(h, "refused", 0)
    /\ UNCHANGED <<fl_op, fl_name, fl_inodes, fl_table>>

Fault_LockTableRemove(h) == IF fl_pc[h] = "refused" THEN fl_table ELSE fl_table \ {ProcessOf[h]}
LockTableRemove(h) == fl_table \ {ProcessOf[h]}

LockRemove(h) ==
    /\ fl_pc[h] = "refused"
    /\ fl_table' = LockTableRemove(h)
    /\ To(h, "idle", 0)
    /\ UNCHANGED <<fl_op, fl_name, fl_inodes, fl_fcntl, fl_dropped>>

-----------------------------------------------------------------------------
(* UnlockFile, by the destructor of the database or by DestroyDB *)

UnlockFcntl(h) ==
    /\ fl_pc[h] = "held"
    /\ fl_fcntl' = [fl_fcntl EXCEPT ![fl_fd[h]] = @ \ {ProcessOf[h]}]
    /\ To(h, "unlocked", fl_fd[h])
    /\ UNCHANGED <<fl_op, fl_name, fl_inodes, fl_table, fl_dropped>>

UnlockRemove(h) ==
    /\ fl_pc[h] = "unlocked"
    /\ fl_table' = LockTableRemove(h)
    /\ To(h, "removed", fl_fd[h])
    /\ UNCHANGED <<fl_op, fl_name, fl_inodes, fl_fcntl, fl_dropped>>

UnlockClose(h) ==
    /\ fl_pc[h] = "removed"
    /\ Close(h)
    /\ To(h, IF fl_op[h] = "destroy" THEN "unlink" ELSE "idle", 0)
    /\ UNCHANGED <<fl_op, fl_name, fl_inodes, fl_table>>

\* DestroyDB deletes the lock file last, when it no longer holds it.
DestroyUnlink(h) ==
    /\ fl_pc[h] = "unlink"
    /\ fl_name' = 0
    /\ fl_dropped' = (fl_dropped \/ \E g \in Handles : fl_fd[g] # 0 /\ fl_fd[g] = fl_name)
    /\ To(h, "idle", 0)
    /\ UNCHANGED <<fl_op, fl_inodes, fl_fcntl, fl_table>>

\* A process ends, with or without its destructors: the kernel closes everything.
ProcessExit(p) ==
    /\ \E h \in Handles : ProcessOf[h] = p /\ fl_pc[h] # "idle"
    /\ fl_pc' = [h \in Handles |-> IF ProcessOf[h] = p THEN "idle" ELSE fl_pc[h]]
    /\ fl_fd' = [h \in Handles |-> IF ProcessOf[h] = p THEN 0 ELSE fl_fd[h]]
    /\ fl_fcntl' = [i \in DOMAIN fl_fcntl |-> fl_fcntl[i] \ {p}]
    /\ fl_table' = fl_table \ {p}
    /\ UNCHANGED <<fl_op, fl_name, fl_inodes, fl_dropped>>

FileLockInit ==
    /\ fl_pc = [h \in Handles |-> "idle"] /\ fl_fd = [h \in Handles |-> 0]
    /\ fl_op = [h \in Handles |-> "open"] /\ fl_name = 0 /\ fl_inodes = 0
    /\ fl_fcntl = [i \in 1 .. MaxInodes |-> {}] /\ fl_table = {} /\ fl_dropped = FALSE

FileLockNext ==
    \/ \E h \in Handles :
          \/ \E op \in {"open", "destroy"} : LockOpen(h, op)
          \/ LockInsert(h) \/ LockHeldByProcess(h) \/ LockSet(h) \/ LockRefused(h) \/ LockRemove(h)
          \/ UnlockFcntl(h) \/ UnlockRemove(h) \/ UnlockClose(h) \/ DestroyUnlink(h)
    \/ \E p \in Processes : ProcessExit(p)

FileLockSpec == FileLockInit /\ [][FileLockNext]_fl_vars

-----------------------------------------------------------------------------
(* Properties *)

\* The table and the kernel's lock together: two holders are never in the same
\* process, and in different processes only after one of the three events the code does
\* not prevent: a process that held the lock closed another descriptor of the file, in a
\* second open that failed or at the end of an UnlockFile, or DestroyDB unlinked the
\* file while somebody else had it open.
LockExclusive ==
    \A g, h \in {x \in Handles : fl_pc[x] = "held"} :
        g # h => ProcessOf[g] # ProcessOf[h] /\ fl_dropped

\* A failed or finished attempt leaves no entry behind that would refuse every later one.
LockTableExact ==
    \A p \in Processes :
        p \in fl_table <=> \E h \in Handles : ProcessOf[h] = p
                               /\ fl_pc[h] \in {"inserted", "held", "refused", "unlocked"}

\* LockFile and UnlockFile, with any of their steps failing: one holder, and no entry of
\* the table of locks left behind.
LockSound == LockExclusive /\ LockTableExact
=============================================================================

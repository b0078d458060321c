------------------------------- MODULE Pidfile -------------------------------
(***************************************************************************)
(* Starting and stopping instances of hamchat on one host: daemonize and   *)
(* shutdown of src/daemon.cpp, and the part of main that calls them.  The  *)
(* instances share nothing but the pidfile, which the path names and       *)
(* lockf locks, so every system call is a step of its own.                 *)
(*                                                                         *)
(* An inode is the file behind the path at some time: unlink leaves it to  *)
(* the processes that have it open, and the next open creates another.     *)
(* fork is left out: the parent does stat, the child everything after, and *)
(* the record lock is taken by the child.                                  *)
(*                                                                         *)
(* shutdown() only closes and unlinks: it is meant for atexit.  But        *)
(* Modem_ARDOP::Init calls it, and carries on, when the station is not     *)
(* configured (Anonymous).                                                 *)
(***************************************************************************)
EXTENDS Naturals

CONSTANTS
  Process,   \* the instances an operator may start, again and again
  Anonymous, \* those whose configuration lacks station.callsign or .gridsquare
  MaxInode,  \* bound: how many pidfiles are ever created
  NONE

ASSUME PidfileAssumption ==
  /\ Anonymous \subseteq Process
  /\ MaxInode \in Nat
  /\ NONE \notin Process /\ NONE \notin Nat

VARIABLES
  pc,       \* what each instance does next; "off" when it does not run
  fd,       \* the inode each instance has open as pidfd
  file,     \* the inode the path names, or NONE
  created,  \* how many inodes have been created
  lock,     \* the instance that holds the record lock of each inode
  content,  \* the instance whose pid is written in each inode
  crashes,  \* history: an instance died without running its exit handlers
  orderly   \* history: no two starts overlapped, and no instance that goes on
            \* has given up its pidfile

vars == <<pc, fd, file, created, lock, content, crashes, orderly>>

Inode == 1 .. MaxInode

Init ==
  /\ pc = [p \in Process |-> "off"]
  /\ fd = [p \in Process |-> NONE]
  /\ file = NONE /\ created = 0
  /\ lock = [i \in Inode |-> NONE] /\ content = [i \in Inode |-> NONE]
  /\ crashes = FALSE /\ orderly = TRUE

Goto(p, l) == pc' = [pc EXCEPT ![p] = l]

\* What the kernel does to the locks of a process that closes the file.
Unlocked(p) == [i \in Inode |-> IF lock[i] = p THEN NONE ELSE lock[i]]

Starting(p) == pc[p] \in {"stat", "open", "lock", "write"}

\* close(pidfd) by p, a no-op once pidfd is -1.
CloseFd(p) ==
  /\ lock' = Unlocked(p)
  /\ fd' = [fd EXCEPT ![p] = NONE]

-----------------------------------------------------------------------------
Start(p) ==
  /\ pc[p] = "off"
  /\ Goto(p, "stat")
  /\ orderly' = (orderly /\ \A q \in Process : ~Starting(q))
  /\ UNCHANGED <<fd, file, created, lock, content, crashes>>

\* Mutant of StatPidfile: a pidfile that is there already is taken for a
\* stale one.
IgnorePidfile(p) ==
  /\ pc[p] = "stat"
  /\ Goto(p, "open")
  /\ UNCHANGED <<fd, file, created, lock, content, crashes, orderly>>

\* stat(pidfile): bail out with _exit if there is a file already.
StatPidfile(p) ==
  /\ pc[p] = "stat"
  /\ Goto(p, IF file = NONE THEN "open" ELSE "off")
  /\ UNCHANGED <<fd, file, created, lock, content, crashes, orderly>>

\* open(pidfile, O_RDWR | O_CREAT): the file there is, or a new one.
OpenPidfile(p) ==
  /\ pc[p] = "open"
  /\ \/ file # NONE /\ UNCHANGED <<file, created>>
     \/ file = NONE /\ created < MaxInode /\ created' = created + 1 /\ file' = created + 1
  /\ fd' = [fd EXCEPT ![p] = file']
  /\ Goto(p, "lock")
  /\ UNCHANGED <<lock, content, crashes, orderly>>

\* lockf(pidfd, F_TLOCK) succeeds.
LockPidfile(p) ==
  /\ pc[p] = "lock" /\ lock[fd[p]] = NONE
  /\ lock' = [lock EXCEPT ![fd[p]] = p]
  /\ Goto(p, "write")
  /\ UNCHANGED <<fd, file, created, content, crashes, orderly>>

\* lockf fails: unlink(pidfile) and exit, the exit handler not yet installed.
FailToLock(p) ==
  /\ pc[p] = "lock" /\ lock[fd[p]] # NONE
  /\ file' = NONE
  /\ fd' = [fd EXCEPT ![p] = NONE]
  /\ Goto(p, "off")
  /\ UNCHANGED <<created, lock, content, crashes, orderly>>

\* Mutant of WritePid: the pid is not written.
WriteNothing(p) ==
  /\ pc[p] = "write"
  /\ Goto(p, "modem")
  /\ UNCHANGED <<fd, file, created, lock, content, crashes, orderly>>

\* write(pidfd, getpid()); back in main, the exit handler is installed.
WritePid(p) ==
  /\ pc[p] = "write"
  /\ content' = [content EXCEPT ![fd[p]] = p]
  /\ Goto(p, "modem")
  /\ UNCHANGED <<fd, file, created, lock, crashes, orderly>>

\* Modem_ARDOP::Init, called while main brings the program up.
InitModem(p) ==
  /\ pc[p] = "modem"
  /\ IF p \in Anonymous THEN CloseFd(p) /\ Goto(p, "drop") /\ orderly' = FALSE
     ELSE Goto(p, "up") /\ UNCHANGED <<fd, lock, orderly>>
  /\ UNCHANGED <<file, created, content, crashes>>

\* The unlink of the shutdown() that Init calls.
DropPidfile(p) ==
  /\ pc[p] = "drop"
  /\ file' = NONE
  /\ Goto(p, "up")
  /\ UNCHANGED <<fd, created, lock, content, crashes, orderly>>

\* SIGINT or SIGTERM: shutdown(signum) calls exit, which runs shutdown().
Terminate(p) ==
  /\ pc[p] \in {"modem", "drop", "up"}
  /\ Goto(p, "close")
  /\ UNCHANGED <<fd, file, created, lock, content, crashes, orderly>>

\* shutdown(): close(pidfd), which drops the lock ...
ClosePidfile(p) ==
  /\ pc[p] = "close"
  /\ CloseFd(p)
  /\ Goto(p, "unlink")
  /\ UNCHANGED <<file, created, content, crashes, orderly>>

\* Mutant of UnlinkPidfile: the pidfile is left behind.
LeavePidfile(p) ==
  /\ pc[p] = "unlink"
  /\ Goto(p, "off")
  /\ UNCHANGED <<fd, file, created, lock, content, crashes, orderly>>

\* ... and only then unlink(pidfile), whatever file is there by now.
UnlinkPidfile(p) ==
  /\ pc[p] = "unlink"
  /\ file' = NONE
  /\ Goto(p, "off")
  /\ UNCHANGED <<fd, created, lock, content, crashes, orderly>>

\* SIGKILL, or a signal before the logger exists: no exit handler runs.
Crash(p) ==
  /\ pc[p] # "off"
  /\ CloseFd(p)
  /\ Goto(p, "off")
  /\ crashes' = TRUE
  /\ UNCHANGED <<file, created, content, orderly>>

Run(p) ==
  \/ StatPidfile(p) \/ OpenPidfile(p) \/ LockPidfile(p) \/ FailToLock(p) \/ WritePid(p)
  \/ InitModem(p) \/ DropPidfile(p)
  \/ Terminate(p) \/ ClosePidfile(p) \/ UnlinkPidfile(p) \/ Crash(p)

Next == \E p \in Process : Start(p) \/ Run(p)

Spec == Init /\ [][Next]_vars

-----------------------------------------------------------------------------
(* Properties.                                                             *)

\* The variables keep their types.
TypeOK ==
  /\ pc \in [Process -> {"off", "stat", "open", "lock", "write", "modem", "drop", "up",
                        "close", "unlink"}]
  /\ fd \in [Process -> Inode \cup {NONE}]
  /\ file \in Inode \cup {NONE} /\ created \in 0 .. MaxInode
  /\ lock \in [Inode -> Process \cup {NONE}] /\ content \in [Inode -> Process \cup {NONE}]
  /\ crashes \in BOOLEAN /\ orderly \in BOOLEAN

Serving(p) == pc[p] \in {"modem", "drop", "up", "close"}

\* daemon.cpp: "try to lock the pid file, so we can ensure only one instance
\* runs".
OneInstance == \A p, q \in Process : Serving(p) /\ Serving(q) => p = q

\* It does ensure it as long as starts do not overlap and no instance gives up
\* its pidfile, whatever stops and crashes there are.
OneWhenOrderly == orderly => OneInstance

\* And then the pidfile an operator reads leads to the instance that serves: it is
\* the file that instance holds locked, and it holds its pid.
FileGuards ==
  orderly => \A p \in Process :
    Serving(p) => fd[p] = file /\ lock[file] = p /\ content[file] = p

\* A pidfile that turns every later start away and that no instance has open
\* is only left by a crash, or one is on its way to unlinking it.
OrphanMeansCrash ==
  file # NONE /\ ~crashes =>
    \E p \in Process : fd[p] = file \/ pc[p] \in {"drop", "close", "unlink"}

\* An instance past its stat, and not yet gone.
Active(p) == pc[p] \notin {"off", "stat"}

\* What each instance holds while starts and stops are orderly: the inductive
\* invariant behind OneWhenOrderly and FileGuards.
Orderly ==
  /\ \A p, q \in Process : Starting(p) /\ Starting(q) => p = q
  /\ \A p, q \in Process : Active(p) /\ Active(q) => p = q
  /\ \A p \in Process : pc[p] \in {"lock", "write", "modem", "up", "close"} => fd[p] = file /\ file # NONE
  /\ \A p \in Process : pc[p] = "unlink" => file # NONE
  /\ \A p \in Process : pc[p] \in {"write", "modem", "up", "close"} => lock[file] = p
  /\ \A p \in Process : pc[p] \in {"modem", "up", "close"} => content[file] = p
  /\ \A p \in Process : pc[p] # "drop"
  /\ \A i \in Inode, p \in Process : lock[i] = p => pc[p] \in {"write", "modem", "up", "close"}

OrderlyInv == TypeOK /\ (orderly => Orderly)
=============================================================================

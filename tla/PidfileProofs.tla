---------------------------- MODULE PidfileProofs ----------------------------
(***************************************************************************)
(* As long as starts do not overlap and no instance that goes on gives up  *)
(* its pidfile, one instance serves, however many there are and however    *)
(* they stop or crash.                                                     *)
(***************************************************************************)
EXTENDS Pidfile, TLAPS

\* Nothing runs at first.
LEMMA InitOrderly == Init => OrderlyInv
<1> SUFFICES ASSUME Init PROVE OrderlyInv
  OBVIOUS
<1>1. \A p \in Process : pc[p] = "off"
  BY DEF Init
<1>2. \A i \in Inode, p \in Process : lock[i] # p
  BY PidfileAssumption DEF Init
<1>3. TypeOK
  <2>1. created \in 0 .. MaxInode
    BY PidfileAssumption, SMT DEF Init
  <2>2. /\ pc \in [Process -> {"off", "stat", "open", "lock", "write", "modem", "drop", "up",
                            "close", "unlink"}]
        /\ fd \in [Process -> Inode \cup {NONE}]
        /\ lock \in [Inode -> Process \cup {NONE}]
        /\ content \in [Inode -> Process \cup {NONE}]
    BY DEF Init
  <2> QED BY <2>1, <2>2 DEF Init, TypeOK
<1> QED BY <1>1, <1>2, <1>3 DEF OrderlyInv, Orderly, Starting, Active

\* Closing the file frees the locks of p and no others.
LEMMA CloseTypes ==
  ASSUME TypeOK, NEW p \in Process, CloseFd(p)
  PROVE  /\ fd' \in [Process -> Inode \cup {NONE}]
         /\ lock' \in [Inode -> Process \cup {NONE}]
         /\ \A i \in Inode, q \in Process : lock'[i] = q <=> lock[i] = q /\ q # p
         /\ \A q \in Process : q # p => fd'[q] = fd[q]
BY PidfileAssumption DEF TypeOK, CloseFd, Unlocked

\* Every step keeps the variables in their types, overlapping starts and
\* crashes included.
LEMMA StepKeepsTypes ==
  ASSUME TypeOK, [Next]_vars
  PROVE  TypeOK'
<1> USE PidfileAssumption DEF TypeOK, Goto, Inode
<1>1. ASSUME NEW p \in Process, Start(p) PROVE TypeOK'
  BY <1>1 DEF Start
<1>2. ASSUME NEW p \in Process, StatPidfile(p) PROVE TypeOK'
  BY <1>2 DEF StatPidfile
<1>3. ASSUME NEW p \in Process, OpenPidfile(p) PROVE TypeOK'
  BY <1>3 DEF OpenPidfile
<1>4. ASSUME NEW p \in Process, LockPidfile(p) PROVE TypeOK'
  BY <1>4 DEF LockPidfile
<1>5. ASSUME NEW p \in Process, FailToLock(p) PROVE TypeOK'
  BY <1>5 DEF FailToLock
<1>6. ASSUME NEW p \in Process, WritePid(p) PROVE TypeOK'
  BY <1>6 DEF WritePid
<1>7. ASSUME NEW p \in Process, InitModem(p) PROVE TypeOK'
  <2>1. CASE p \in Anonymous
    <3>1. CloseFd(p) /\ Goto(p, "drop") /\ orderly' = FALSE
          /\ UNCHANGED <<file, created, content, crashes>>
      BY <1>7, <2>1 DEF InitModem
    <3>2. /\ fd' \in [Process -> Inode \cup {NONE}]
          /\ lock' \in [Inode -> Process \cup {NONE}]
      BY <3>1, CloseTypes
    <3> QED BY <3>1, <3>2
  <2>2. CASE p \notin Anonymous
    BY <1>7, <2>2 DEF InitModem
  <2> QED BY <2>1, <2>2
<1>8. ASSUME NEW p \in Process, DropPidfile(p) PROVE TypeOK'
  BY <1>8 DEF DropPidfile
<1>9. ASSUME NEW p \in Process, Terminate(p) PROVE TypeOK'
  BY <1>9 DEF Terminate
<1>10. ASSUME NEW p \in Process, ClosePidfile(p) PROVE TypeOK'
  BY <1>10, CloseTypes DEF ClosePidfile
<1>11. ASSUME NEW p \in Process, UnlinkPidfile(p) PROVE TypeOK'
  BY <1>11 DEF UnlinkPidfile
<1>12. ASSUME NEW p \in Process, Crash(p) PROVE TypeOK'
  BY <1>12, CloseTypes DEF Crash
<1>13. CASE UNCHANGED vars
  BY <1>13 DEF vars
<1> QED
  BY <1>1, <1>2, <1>3, <1>4, <1>5, <1>6, <1>7, <1>8, <1>9, <1>10, <1>11, <1>12, <1>13
  DEF Next, Run

\* Every step of a start, of a stop or of a crash keeps what the instances
\* hold, unless it ends the order.
LEMMA StepKeepsOrderly ==
  ASSUME OrderlyInv, [Next]_vars, orderly'
  PROVE  Orderly'
<1> USE PidfileAssumption DEF OrderlyInv, Orderly, TypeOK, Goto, Starting, Active, Inode
<1>1. ASSUME NEW p \in Process, Start(p) PROVE Orderly'
  <2>1. orderly /\ \A q \in Process : ~Starting(q)
    BY <1>1, Zenon DEF Start
  <2>2. Orderly /\ pc[p] = "off" /\ Goto(p, "stat")
        /\ UNCHANGED <<fd, file, created, lock, content, crashes>>
    BY <1>1, <2>1 DEF Start
  <2> QED BY <2>1, <2>2
<1>2. ASSUME NEW p \in Process, StatPidfile(p) PROVE Orderly'
  BY <1>2 DEF StatPidfile
<1>3. ASSUME NEW p \in Process, OpenPidfile(p) PROVE Orderly'
  BY <1>3 DEF OpenPidfile
<1>4. ASSUME NEW p \in Process, LockPidfile(p) PROVE Orderly'
  BY <1>4 DEF LockPidfile
<1>5. ASSUME NEW p \in Process, FailToLock(p) PROVE Orderly'
  BY <1>5 DEF FailToLock
<1>6. ASSUME NEW p \in Process, WritePid(p) PROVE Orderly'
  BY <1>6 DEF WritePid
<1>7. ASSUME NEW p \in Process, InitModem(p) PROVE Orderly'
  <2>1. p \notin Anonymous
    BY <1>7 DEF InitModem
  <2>2. orderly /\ pc[p] = "modem" /\ Goto(p, "up")
        /\ UNCHANGED <<fd, file, created, lock, content, crashes>>
    BY <1>7, <2>1 DEF InitModem
  <2> QED BY <2>2
<1>8. ASSUME NEW p \in Process, DropPidfile(p) PROVE Orderly'
  BY <1>8 DEF DropPidfile
<1>9. ASSUME NEW p \in Process, Terminate(p) PROVE Orderly'
  BY <1>9 DEF Terminate
<1>10. ASSUME NEW p \in Process, ClosePidfile(p) PROVE Orderly'
  BY <1>10, CloseTypes DEF ClosePidfile
<1>11. ASSUME NEW p \in Process, UnlinkPidfile(p) PROVE Orderly'
  BY <1>11 DEF UnlinkPidfile
<1>12. ASSUME NEW p \in Process, Crash(p) PROVE Orderly'
  BY <1>12, CloseTypes DEF Crash
<1>13. CASE UNCHANGED vars
  BY <1>13 DEF vars
<1> QED
  BY <1>1, <1>2, <1>3, <1>4, <1>5, <1>6, <1>7, <1>8, <1>9, <1>10, <1>11, <1>12, <1>13
  DEF Next, Run

\* For any number of instances, types hold always and the rest while starts
\* and stops are orderly.
THEOREM OrderlySound == Spec => []OrderlyInv
<1>1. OrderlyInv /\ [Next]_vars => OrderlyInv'
  BY StepKeepsTypes, StepKeepsOrderly DEF OrderlyInv
<1> QED BY InitOrderly, <1>1, PTL DEF Spec

\* For any number of instances, orderly starts never bring up two at once:
\* what daemon.cpp means its lock to ensure.
THEOREM OrderlyOneInstance == Spec => []OneWhenOrderly
<1>1. OrderlyInv => OneWhenOrderly
  BY DEF OrderlyInv, Orderly, OneWhenOrderly, OneInstance, Serving, Active
<1> QED BY <1>1, OrderlySound, PTL

\* And the pidfile leads to the instance that serves.
THEOREM OrderlyFileGuards == Spec => []FileGuards
<1>1. OrderlyInv => FileGuards
  BY DEF OrderlyInv, Orderly, FileGuards, Serving
<1> QED BY <1>1, OrderlySound, PTL
\* A step that leaves the path alone leaves the file to somebody: the instance that had it
\* open, or that goes on to unlink it; the others unlink it or are a crash.
LEMMA StepKeepsOrphan ==
  ASSUME TypeOK, OrphanMeansCrash, [Next]_vars
  PROVE  OrphanMeansCrash'
<1> DEFINE Leaving(q) == pc[q] \in {"drop", "close", "unlink"}
<1> USE DEF TypeOK, OrphanMeansCrash, Goto
<1>1. ASSUME NEW p \in Process, file' = NONE PROVE OrphanMeansCrash'
  BY <1>1
<1>2. ASSUME NEW p \in Process, Leaving(p)' PROVE OrphanMeansCrash'
  BY <1>2
<1>3. ASSUME UNCHANGED <<fd, file, crashes>>, \A q \in Process : Leaving(q) => Leaving(q)'
      PROVE  OrphanMeansCrash'
  BY <1>3
<1>4. ASSUME NEW p \in Process, Start(p) PROVE OrphanMeansCrash'
  BY <1>4, <1>3 DEF Start
<1>5. ASSUME NEW p \in Process, StatPidfile(p) PROVE OrphanMeansCrash'
  BY <1>5, <1>3 DEF StatPidfile
<1>6. ASSUME NEW p \in Process, OpenPidfile(p) PROVE OrphanMeansCrash'
  <2>1. fd'[p] = file'
    BY <1>6 DEF OpenPidfile
  <2> QED BY <2>1
<1>7. ASSUME NEW p \in Process, LockPidfile(p) PROVE OrphanMeansCrash'
  BY <1>7, <1>3 DEF LockPidfile
<1>8. ASSUME NEW p \in Process, WritePid(p) PROVE OrphanMeansCrash'
  BY <1>8, <1>3 DEF WritePid
<1>9. ASSUME NEW p \in Process, InitModem(p) PROVE OrphanMeansCrash'
  <2>1. CASE p \in Anonymous
    <3>1. Leaving(p)'
      BY <1>9, <2>1 DEF InitModem
    <3> QED BY <3>1, <1>2
  <2>2. CASE p \notin Anonymous
    BY <1>9, <2>2, <1>3 DEF InitModem
  <2> QED BY <2>1, <2>2
<1>10. ASSUME NEW p \in Process, Terminate(p) PROVE OrphanMeansCrash'
  <2>1. Leaving(p)'
    BY <1>10 DEF Terminate
  <2> QED BY <2>1, <1>2
<1>11. ASSUME NEW p \in Process, ClosePidfile(p) PROVE OrphanMeansCrash'
  <2>1. Leaving(p)'
    BY <1>11 DEF ClosePidfile
  <2> QED BY <2>1, <1>2
<1>12. ASSUME NEW p \in Process, FailToLock(p) \/ DropPidfile(p) \/ UnlinkPidfile(p)
       PROVE  OrphanMeansCrash'
  BY <1>12, <1>1 DEF FailToLock, DropPidfile, UnlinkPidfile
<1>13. ASSUME NEW p \in Process, Crash(p) PROVE OrphanMeansCrash'
  BY <1>13 DEF Crash
<1>14. CASE UNCHANGED vars
  BY <1>14, <1>3 DEF vars
<1> QED
  BY <1>4, <1>5, <1>6, <1>7, <1>8, <1>9, <1>10, <1>11, <1>12, <1>13, <1>14 DEF Next, Run

\* For any number of instances and however starts, stops and refusals overlap, only a crash
\* leaves a pidfile behind that turns later starts away.
THEOREM OnlyCrashesLeaveOrphans == Spec => []OrphanMeansCrash
<1>1. Init => OrphanMeansCrash
  BY DEF Init, OrphanMeansCrash
<1>2. OrderlyInv /\ OrphanMeansCrash /\ [Next]_vars => OrphanMeansCrash'
  BY StepKeepsOrphan DEF OrderlyInv
<1> QED BY <1>1, <1>2, OrderlySound, PTL DEF Spec
=============================================================================

--------------------------- MODULE VmManagerProofs ---------------------------
(***************************************************************************)
(* What holds of the VM host for any number of users, processes, images    *)
(* and commands: only connections without a command can leave nobody to    *)
(* accept, no base image becomes two images, and a launch that no other    *)
(* launch of its user runs into has its own port.                          *)
(***************************************************************************)
EXTENDS VmManager, FiniteSetTheorems, NaturalsInduction, WellFoundedInduction, TLAPS

\* A leaf is tried with Zenon first, then with the SMT solver.
USE ZenonT(20), SMTT(30)

-----------------------------------------------------------------------------
\* A nonempty set of natural numbers has a least element.
LEMMA LeastElement ==
  ASSUME NEW T, T \subseteq Nat, T # {}
  PROVE  \E x \in T : \A y \in T : x <= y
<1> DEFINE R == OpToRel(<, Nat)
<1>1. IsWellFoundedOn(R, Nat)
  BY NatLessThanWellFounded
<1>2. \E x \in T : \A y \in T : ~ (<<y, x>> \in R)
  <2> HIDE DEF R
  <2> QED BY <1>1, WFMin
<1>3. \A x, y \in Nat : y < x => <<y, x>> \in R
  BY DEF OpToRel
<1>4. PICK x \in T : \A y \in T : ~ (<<y, x>> \in R)
  BY <1>2
<1>5. ASSUME NEW y \in T PROVE x <= y
  <2>1. x \in Nat /\ y \in Nat
    BY <1>4
  <2>2. ~ (<<y, x>> \in R)
    BY <1>4
  <2>3. ~ (y < x)
    <3> HIDE DEF R
    <3> QED BY <1>3, <2>1, <2>2
  <2> QED BY <2>1, <2>3
<1> QED BY <1>5
LEMMA ModType == \A a \in Nat, m \in Nat \ {0} : a % m \in 0..(m - 1)
OBVIOUS

\* The loops over android[] end at one of its indices.
LEMMA FirstSlot ==
  ASSUME NEW S \in SUBSET Slot
  PROVE  First(S) \in Slot
<1>1. CASE S = {}
  BY SMTT(30), <1>1, VmAssumption DEF First, Slot
<1>2. CASE S # {}
  <2>1. S \subseteq Nat
    BY SMTT(30), VmAssumption DEF Slot
  <2>3. \E m \in S : \A n \in S : m <= n
    BY <1>2, <2>1, LeastElement
  <2>4. First(S) \in S
    BY <1>2, <2>3 DEF First
  <2> QED BY <2>4
<1> QED BY <1>1, <1>2

LEMMA ChosenType ==
  ASSUME TypeOK, NEW p \in Proc, NEW c \in Cmd
  PROVE  Chosen(p, c) \in Slot /\ Table(p, c) \in SUBSET Slot
<1>1. First(android[p]) \in Slot /\ First(Slot \ android[p]) \in Slot
  BY FirstSlot DEF TypeOK
<1>2. 0 \in Slot
  BY SMTT(30), VmAssumption DEF Slot
<1>3. Chosen(p, c) \in Slot
  BY <1>1, <1>2 DEF Chosen
<1>4. android[p] \in SUBSET Slot
  BY DEF TypeOK
<1> QED BY <1>3, <1>4 DEF Table

LEMMA ImageType == \A c \in Cmd : ImageOf(c) \in Image
<1> SUFFICES ASSUME NEW c \in Cmd PROVE ImageOf(c) \in Image
  OBVIOUS
<1>1. c.index \in Nat /\ c.id \in User /\ c.os \in Os
  BY VmAssumption DEF Cmd
<1>2. c.index % IndexMod \in 0..(IndexMod - 1)
  BY <1>1, VmAssumption, ModType
<1> QED BY <1>1, <1>2 DEF ImageOf, Image

LEMMA DirType ==
  ASSUME TypeOK, NEW p \in Proc, NEW c \in Cmd
  PROVE  Entered(p, c) \in Dir /\ Parent(Entered(p, c)) \in Dir
BY DEF TypeOK, Entered, Parent, Dir, Cmd

\* A message of the inbox carries a command.
LEMMA InboxCmd ==
  ASSUME TypeOK, NEW m \in inbox
  PROVE  m[2] \in Cmd /\ inbox \ {m} \subseteq (1..MaxCmds) \X Cmd
BY DEF TypeOK

-----------------------------------------------------------------------------
\* The kinds of step, with the process and the message they are about.
LEMMA NextCases ==
  ASSUME [Next]_vars
  PROVE  \/ \E c \in Workload : Send(c)
         \/ \E m \in inbox : Lose(m)
         \/ \E p \in Proc : \E m \in inbox :
              \/ AcceptImageCommand(p, m) \/ AcceptLaunch(p, m)
              \/ OpenFails(p, m) \/ CloseFails(p, m)
         \/ \E p \in Proc : AcceptBare(p) \/ ReadNothing(p)
         \/ \E p \in Proc : \/ NoScript(p) \/ ScriptCreate(p) \/ ScriptDelete(p)
                             \/ ScriptTizen(p) \/ ScriptLaunch(p)
         \/ \E p \in Proc : \/ ReadClientData(p) \/ ReadBlank(p)
                             \/ RemoveClientData(p) \/ Exit(p)
         \/ UNCHANGED vars
BY DEF Next, Accept, Script, Qemu

\* Only a connection over which no command comes can leave the host without a
\* process in accept(): the child of each fork is there, and so is a process whose
\* fork, fopen or fclose fails.
THEOREM HostAccepts == Spec => []SomeoneAccepts
<1> DEFINE Inv == st \in [Proc -> Doing]
                  /\ \E a \in Proc : st[a] \in {"accept", "read", "dead"}
<1>1. Init => Inv
  BY SMTT(30), VmAssumption DEF Init, Doing
<1>2. Inv /\ [Next]_vars => Inv'
  <2> SUFFICES ASSUME Inv, [Next]_vars PROVE Inv'
    OBVIOUS
  <2>1. PICK a \in Proc : st[a] \in {"accept", "read", "dead"}
    OBVIOUS
  <2>2. ASSUME NEW p \in Proc, NEW q \in Proc, NEW c, Fork(p, q, c) PROVE Inv'
    BY <2>2 DEF Fork, Doing
  <2>3. ASSUME UNCHANGED st PROVE Inv'
    BY <2>1, <2>3
  <2>4. ASSUME NEW p \in Proc, NEW x \in Doing, st' = [st EXCEPT ![p] = x],
               st[p] \notin {"accept", "read", "dead"} \/ x \in {"accept", "read", "dead"}
        PROVE  Inv'
    BY <2>1, <2>4
  <2>5. CASE \/ \E c \in Workload : Send(c)
             \/ \E m \in inbox : Lose(m)
             \/ UNCHANGED vars
    BY <2>3, <2>5 DEF Send, Lose, vars, hostVars
  <2>6. ASSUME NEW p \in Proc, NEW m \in inbox,
               \/ AcceptImageCommand(p, m) \/ AcceptLaunch(p, m)
               \/ OpenFails(p, m) \/ CloseFails(p, m)
        PROVE  Inv'
    BY <2>2, <2>3, <2>6
    DEF AcceptImageCommand, AcceptLaunch, OpenFails, CloseFails, ForkFails
  <2>7. ASSUME NEW p \in Proc, AcceptBare(p) \/ ReadNothing(p) PROVE Inv'
    BY <2>4, <2>7 DEF AcceptBare, ReadNothing, Doing
  <2>8. ASSUME NEW p \in Proc, \/ NoScript(p) \/ ScriptCreate(p) \/ ScriptDelete(p)
                               \/ ScriptTizen(p) \/ ScriptLaunch(p)
        PROVE  Inv'
    BY <2>4, <2>8
    DEF NoScript, ScriptCreate, ScriptDelete, ScriptTizen, ScriptLaunch, Doing
  <2>9. ASSUME NEW p \in Proc, \/ ReadClientData(p) \/ ReadBlank(p)
                               \/ RemoveClientData(p) \/ Exit(p)
        PROVE  Inv'
    BY <2>4, <2>9 DEF ReadClientData, ReadBlank, RemoveClientData, Exit, Doing
  <2> HIDE DEF Inv
  <2> QED BY <2>5, <2>6, <2>7, <2>8, <2>9, NextCases
<1>3. Inv => SomeoneAccepts
  BY DEF SomeoneAccepts
<1> QED BY <1>1, <1>2, <1>3, PTL DEF Spec

\* Whichever processes choose it by their copies of android[], a base image becomes
\* one android image at most (mv in command.sh), and no delete brings it back.
THEOREM BaseImageOnce == Spec => []BaseImageUsedOnce
<1> DEFINE A == {i \in images : i.os = "android"}
           Inv == files \subseteq BaseFiles /\ IsFiniteSet(A) /\ BaseImageUsedOnce
<1>1. Init => Inv
  <2>1. Cardinality(BaseFiles) \in Nat
    BY VmAssumption, FS_CardinalityType
  <2> SUFFICES ASSUME Init PROVE Inv
    OBVIOUS
  <2>2. A = {} /\ files = BaseFiles
    BY DEF Init
  <2>3. IsFiniteSet(A) /\ Cardinality(A) = 0
    BY <2>2, FS_EmptySet
  <2> QED BY SMTT(30), <2>1, <2>2, <2>3 DEF BaseImageUsedOnce
<1>2. Inv /\ [Next]_vars => Inv'
  <2> SUFFICES ASSUME Inv, [Next]_vars PROVE Inv'
    OBVIOUS
  <2>1. /\ IsFiniteSet(files) /\ Cardinality(files) \in Nat
        /\ Cardinality(A) \in Nat /\ Cardinality(BaseFiles) \in Nat
    BY VmAssumption, FS_Subset, FS_CardinalityType
  <2>2. ASSUME UNCHANGED files, A' \subseteq A PROVE Inv'
    <3>1. IsFiniteSet(A') /\ Cardinality(A') <= Cardinality(A) /\ Cardinality(A') \in Nat
      BY <2>2, FS_Subset, FS_CardinalityType
    <3> QED BY SMTT(30), <2>1, <2>2, <3>1 DEF BaseImageUsedOnce
  <2>3. ASSUME UNCHANGED <<files, images>> PROVE Inv'
    BY <2>2, <2>3
  <2>4. ASSUME NEW p \in Proc, ScriptCreate(p) PROVE Inv'
    <3> DEFINE x == ImageOf(cur[p])
    <3>1. x.os = cur[p].os
      BY DEF ImageOf
    <3>2. CASE UNCHANGED <<files, images>>
      BY <2>3, <3>2
    <3>3. CASE UNCHANGED files /\ images' = images \cup {x} /\ cur[p].os = "disk"
      <4> HIDE DEF x
      <4> QED BY <2>2, <3>1, <3>3
    <3>4. CASE /\ files' = Moved(base[p]) /\ base[p] \in files
               /\ images' = images \cup {x} /\ cur[p].os = "android"
      <4>1. A' = A \cup {x}
        <5> HIDE DEF x
        <5> QED BY <3>1, <3>4
      <4>2. /\ IsFiniteSet(A') /\ Cardinality(A') \in Nat
            /\ Cardinality(A') = Cardinality(A) \/ Cardinality(A') = Cardinality(A) + 1
        <5>1. IsFiniteSet(A)
          OBVIOUS
        <5> HIDE DEF A, x
        <5>2. IsFiniteSet(A \cup {x}) /\ Cardinality(A \cup {x}) \in Nat
          BY <5>1, FS_AddElement, FS_CardinalityType
        <5>3. Cardinality(A \cup {x}) = Cardinality(A)
              \/ Cardinality(A \cup {x}) = Cardinality(A) + 1
          BY <5>1, FS_AddElement
        <5> QED BY <4>1, <5>2, <5>3
      <4>3. Cardinality(files') = Cardinality(files) - 1 /\ files' \subseteq files
        BY <2>1, <3>4, FS_RemoveElement DEF Moved
      <4> QED BY SMTT(30), <2>1, <4>2, <4>3 DEF BaseImageUsedOnce
    <3> QED BY <2>4, <3>2, <3>3, <3>4 DEF ScriptCreate
  <2>5. ASSUME NEW p \in Proc, ScriptDelete(p) PROVE Inv'
    BY <2>2, <2>5 DEF ScriptDelete
  <2>6. ASSUME NEW p \in Proc, NEW m \in inbox,
               \/ AcceptImageCommand(p, m) \/ AcceptLaunch(p, m)
               \/ OpenFails(p, m) \/ CloseFails(p, m)
        PROVE  Inv'
    BY <2>3, <2>6
    DEF AcceptImageCommand, AcceptLaunch, OpenFails, CloseFails, diskVars
  <2>7. ASSUME NEW p \in Proc, \/ AcceptBare(p) \/ ReadNothing(p) \/ NoScript(p)
                               \/ ScriptTizen(p) \/ ScriptLaunch(p)
        PROVE  Inv'
    BY <2>3, <2>7
    DEF AcceptBare, ReadNothing, NoScript, ScriptTizen, ScriptLaunch, diskVars
  <2>8. ASSUME NEW p \in Proc, \/ ReadClientData(p) \/ ReadBlank(p)
                               \/ RemoveClientData(p) \/ Exit(p)
        PROVE  Inv'
    BY <2>3, <2>8 DEF ReadClientData, ReadBlank, RemoveClientData, Exit, diskVars
  <2>9. CASE \/ \E c \in Workload : Send(c)
             \/ \E m \in inbox : Lose(m)
             \/ UNCHANGED vars
    BY <2>3, <2>9 DEF Send, Lose, vars, diskVars
  <2> HIDE DEF Inv
  <2> QED BY <2>4, <2>5, <2>6, <2>7, <2>8, <2>9, NextCases
<1>3. Inv => BaseImageUsedOnce
  OBVIOUS
<1> QED BY <1>1, <1>2, <1>3, PTL DEF Spec

-----------------------------------------------------------------------------
LEMMA ForkType ==
  ASSUME TypeOK, NEW p \in Proc, NEW q \in Proc, NEW c \in Cmd,
         Fork(p, q, c) \/ (ForkFails(p, c) /\ q = p)
  PROVE  /\ st' \in [Proc -> Doing]
         /\ cur' \in [Proc -> Cmd \cup {None}]
         /\ base' \in [Proc -> Slot]
         /\ android' \in [Proc -> SUBSET Slot]
<1>1. Chosen(p, c) \in Slot /\ Table(p, c) \in SUBSET Slot
  BY ChosenType
<1>2. CASE Fork(p, q, c)
  BY <1>1, <1>2 DEF Fork, TypeOK, Doing
<1>3. CASE ForkFails(p, c)
  BY <1>1, <1>3 DEF ForkFails, TypeOK
<1> QED BY <1>2, <1>3

\* What the processes, the disk and the QEMUs hold keeps its type.
LEMMA InitType == Init => TypeOK /\ Working
<1> SUFFICES ASSUME Init PROVE TypeOK /\ Working
  OBVIOUS
<1>1. 0 \in Slot /\ "home" \in Dir /\ 0 \in 0..MaxCmds
  BY VmAssumption DEF Slot, Dir
<1>2. Working
  BY DEF Init, Working
<1> QED BY <1>1, <1>2 DEF Init, TypeOK, Doing

LEMMA StepType ==
  ASSUME TypeOK, Working, [Next]_vars
  PROVE  TypeOK' /\ Working'
<1>1. ASSUME NEW c \in Workload, Send(c) PROVE TypeOK' /\ Working'
  <2>1. sent' \in 0..MaxCmds /\ inbox' \subseteq (1..MaxCmds) \X Cmd
    BY SMTT(30), <1>1, VmAssumption, WorkloadAssumption DEF Send, TypeOK
  <2> QED BY <1>1, <2>1 DEF Send, TypeOK, Working, hostVars, diskVars, qemuVars
<1>2. ASSUME NEW m \in inbox, Lose(m) PROVE TypeOK' /\ Working'
  <2>1. bare' \in Nat
    BY SMTT(30), <1>2 DEF Lose, TypeOK
  <2> QED BY <1>2, <2>1, InboxCmd DEF Lose, TypeOK, Working, hostVars, diskVars, qemuVars
<1>3. ASSUME NEW p \in Proc, NEW m \in inbox, AcceptImageCommand(p, m)
      PROVE  TypeOK' /\ Working'
  <2>1. m[2] \in Cmd /\ inbox' \subseteq (1..MaxCmds) \X Cmd
    BY <1>3, InboxCmd DEF AcceptImageCommand
  <2>2. PICK q \in Proc :
          \/ Fork(p, q, m[2]) /\ cwd' = [cwd EXCEPT ![q] = cwd[p]]
          \/ ForkFails(p, m[2]) /\ UNCHANGED cwd /\ q = p
    BY <1>3 DEF AcceptImageCommand
  <2>3. /\ st' \in [Proc -> Doing]
        /\ cur' \in [Proc -> Cmd \cup {None}]
        /\ base' \in [Proc -> Slot]
        /\ android' \in [Proc -> SUBSET Slot]
    BY <2>1, <2>2, ForkType
  <2>4. cwd' \in [Proc -> Dir]
    BY <2>2 DEF TypeOK
  <2>5. Working'
    BY SMTT(30), <2>1, <2>2 DEF Working, Fork, ForkFails, TypeOK
  <2> QED BY <1>3, <2>1, <2>3, <2>4, <2>5
      DEF AcceptImageCommand, TypeOK, diskVars, qemuVars
<1>4. ASSUME NEW p \in Proc, NEW m \in inbox, AcceptLaunch(p, m)
      PROVE  TypeOK' /\ Working'
  <2> DEFINE d == Entered(p, m[2])
  <2>1. m[2] \in Cmd /\ inbox' \subseteq (1..MaxCmds) \X Cmd
    BY <1>4, InboxCmd DEF AcceptLaunch
  <2>2. d \in Dir /\ Parent(d) \in Dir
    BY <2>1, DirType
  <2>3. PICK q \in Proc :
          \/ Fork(p, q, m[2]) /\ cwd' = [cwd EXCEPT ![p] = Parent(d), ![q] = Parent(d)]
          \/ ForkFails(p, m[2]) /\ cwd' = [cwd EXCEPT ![p] = Parent(d)] /\ q = p
    BY <1>4 DEF AcceptLaunch
  <2>4. dat' = [dat EXCEPT ![d] = m[2].port] /\ alone' \subseteq alone \cup {p}
    BY <1>4 DEF AcceptLaunch, Written
  <2> HIDE DEF d
  <2>5. /\ st' \in [Proc -> Doing]
        /\ cur' \in [Proc -> Cmd \cup {None}]
        /\ base' \in [Proc -> Slot]
        /\ android' \in [Proc -> SUBSET Slot]
    BY <2>1, <2>3, ForkType
  <2>6. cwd' \in [Proc -> Dir]
    BY <2>2, <2>3 DEF TypeOK
  <2>7. dat' \in [Dir -> Port \cup {None, Blank}]
    BY <2>1, <2>4 DEF TypeOK, Cmd
  <2>8. alone' \subseteq Proc
    BY <2>4 DEF TypeOK
  <2>9. Working'
    BY SMTT(30), <2>1, <2>3 DEF Working, Fork, ForkFails, TypeOK
  <2> QED BY <1>4, <2>1, <2>5, <2>6, <2>7, <2>8, <2>9
      DEF AcceptLaunch, TypeOK, qemuVars
<1>5. ASSUME NEW p \in Proc, NEW m \in inbox, OpenFails(p, m)
      PROVE  TypeOK' /\ Working'
  <2>1. m[2] \in Cmd /\ inbox' \subseteq (1..MaxCmds) \X Cmd
    BY <1>5, InboxCmd DEF OpenFails
  <2>2. cwd' \in [Proc -> Dir]
    BY <1>5, <2>1, DirType DEF OpenFails, TypeOK
  <2> QED BY <1>5, <2>1, <2>2 DEF OpenFails, TypeOK, Working, diskVars, qemuVars
<1>6. ASSUME NEW p \in Proc, NoScript(p) PROVE TypeOK' /\ Working'
  BY <1>6 DEF NoScript, TypeOK, Doing, Working, diskVars, qemuVars
<1>7. ASSUME NEW p \in Proc, ScriptCreate(p) PROVE TypeOK' /\ Working'
  <2>1. cur[p] \in Cmd
    BY <1>7 DEF ScriptCreate, Working
  <2>2. cur[p].id \in User /\ ImageOf(cur[p]) \in Image
    BY <2>1, ImageType DEF Cmd
  <2>3. dirs' \subseteq User /\ images' \subseteq Image
    BY <1>7, <2>2 DEF ScriptCreate, TypeOK
  <2>4. files' \subseteq BaseFiles
    BY SMTT(30), <1>7 DEF ScriptCreate, TypeOK, Moved
  <2>5. /\ st' \in [Proc -> Doing]
        /\ Working'
    <3>1. st' \in [Proc -> Doing]
      BY <1>7 DEF ScriptCreate, TypeOK, Doing
    <3> QED BY <1>7, <3>1 DEF ScriptCreate, TypeOK, Working
  <2> QED BY <1>7, <2>3, <2>4, <2>5 DEF ScriptCreate, TypeOK, qemuVars
<1>8. ASSUME NEW p \in Proc, ScriptDelete(p) PROVE TypeOK' /\ Working'
  BY <1>8 DEF ScriptDelete, TypeOK, Doing, Working, qemuVars
<1>9. ASSUME NEW p \in Proc, ScriptTizen(p) PROVE TypeOK' /\ Working'
  BY <1>9 DEF ScriptTizen, TypeOK, Doing, Working, diskVars, qemuVars
<1>10. ASSUME NEW p \in Proc, ScriptLaunch(p) PROVE TypeOK' /\ Working'
  <2>1. VmDir(cur[p]) \in Dir
    BY DEF VmDir, Dir, TypeOK
  <2> QED BY <1>10, <2>1 DEF ScriptLaunch, TypeOK, Doing, Working, diskVars
<1>11. ASSUME NEW p \in Proc, ReadClientData(p) PROVE TypeOK' /\ Working'
  BY <1>11 DEF ReadClientData, TypeOK, Doing, Working, diskVars
<1>12. ASSUME NEW p \in Proc, RemoveClientData(p) PROVE TypeOK' /\ Working'
  BY <1>12 DEF RemoveClientData, TypeOK, Doing, Working, qemuVars
<1>13. ASSUME NEW p \in Proc, Exit(p) PROVE TypeOK' /\ Working'
  BY <1>13 DEF Exit, TypeOK, Doing, Working, diskVars, qemuVars
<1>14. ASSUME NEW p \in Proc, NEW m \in inbox, CloseFails(p, m)
       PROVE  TypeOK' /\ Working'
  <2>1. m[2] \in Cmd /\ inbox' \subseteq (1..MaxCmds) \X Cmd
    BY <1>14, InboxCmd DEF CloseFails
  <2>2. cwd' \in [Proc -> Dir] /\ dat' \in [Dir -> Port \cup {None, Blank}]
    BY <1>14, <2>1, DirType DEF CloseFails, TypeOK
  <2> QED BY <1>14, <2>1, <2>2 DEF CloseFails, TypeOK, Working, qemuVars
<1>15. ASSUME NEW p \in Proc, AcceptBare(p) PROVE TypeOK' /\ Working'
  <2>1. bare' \in Nat
    BY SMTT(30), <1>15 DEF AcceptBare, TypeOK
  <2> QED BY <1>15, <2>1 DEF AcceptBare, TypeOK, Doing, Working, diskVars, qemuVars
<1>16. ASSUME NEW p \in Proc, ReadNothing(p) PROVE TypeOK' /\ Working'
  BY <1>16 DEF ReadNothing, TypeOK, Doing, Working, diskVars, qemuVars
<1>17. ASSUME NEW p \in Proc, ReadBlank(p) PROVE TypeOK' /\ Working'
  <2>1. st' \in [Proc -> Doing] /\ vmport' \in [Proc -> Port \cup {None}]
    BY SMTT(30), <1>17 DEF ReadBlank, TypeOK, Doing
  <2>2. Working'
    BY <1>17 DEF ReadBlank, TypeOK, Working
  <2> QED BY <1>17, <2>1, <2>2 DEF ReadBlank, TypeOK, diskVars
<1>18. CASE UNCHANGED vars
  BY <1>18 DEF vars, TypeOK, Working, hostVars, diskVars, qemuVars
<1> QED
  BY <1>1, <1>2, <1>3, <1>4, <1>5, <1>6, <1>7, <1>8, <1>9, <1>10, <1>11, <1>12,
     <1>13, <1>14, <1>15, <1>16, <1>17, <1>18, NextCases

\* The state of the VM host keeps its types, and a process past accept() has a
\* command of its own.
THEOREM TypeCorrect == Spec => [](TypeOK /\ Working)
<1>1. TypeOK /\ Working /\ [Next]_vars => (TypeOK /\ Working)'
  BY StepType
<1> QED BY InitType, <1>1, PTL DEF Spec

-----------------------------------------------------------------------------
\* A step of p that ends its script, or takes it from accept() to read() and to its
\* end, disturbs no launch.
LEMMA EndOfScript ==
  ASSUME TypeOK, AloneInv, NEW p \in Proc, NEW x \in {"accept", "emulator", "read", "dead"},
         st' = [st EXCEPT ![p] = x], UNCHANGED <<cur, cwd, vmdir, vmport, dat>>,
         dirs \subseteq dirs', alone' \subseteq alone
  PROVE  Places' /\ (\A r \in alone : Undisturbed(r))' /\ AloneOnOwnPort'
<1>1. Places'
  BY DEF AloneInv, Places, TypeOK
<1>2. ASSUME NEW r \in alone' PROVE Undisturbed(r)'
  <2>1. r \in Proc /\ Undisturbed(r)
    BY <1>2 DEF AloneInv, TypeOK
  <2> QED BY <2>1 DEF Undisturbed, Launching, TypeOK
<1>3. AloneOnOwnPort'
  BY DEF AloneInv, AloneOnOwnPort, TypeOK
<1> QED BY <1>1, <1>2, <1>3

\* Nor does one that changes no process and no file.
LEMMA NoProcess ==
  ASSUME AloneInv, UNCHANGED <<st, cur, cwd, dirs, dat, vmdir, vmport, alone>>
  PROVE  Places' /\ (\A r \in alone : Undisturbed(r))' /\ AloneOnOwnPort'
BY DEF AloneInv, Places, Undisturbed, Launching, AloneOnOwnPort

\* Where chdir leads, a directory exists.
LEMMA EnteredExists ==
  ASSUME TypeOK, Places, NEW p \in Proc, NEW c \in Cmd
  PROVE  /\ Entered(p, c) \in User => Entered(p, c) \in dirs
         /\ Parent(Entered(p, c)) \notin User
BY VmAssumption DEF Entered, Parent, Places, TypeOK

\* A command that is not a launch takes over p and starts q as an acceptor.
LEMMA ForkImageCommand ==
  ASSUME TypeOK, AloneInv, NEW p \in Proc, NEW q \in Proc, NEW c \in Cmd,
         c.kind \notin Launch, st[p] = "accept", Fork(p, q, c),
         cwd' = [cwd EXCEPT ![q] = cwd[p]],
         UNCHANGED <<dirs, dat, vmdir, vmport, alone>>
  PROVE  Places' /\ (\A r \in alone : Undisturbed(r))' /\ AloneOnOwnPort'
<1>1. Places'
  BY DEF AloneInv, Places, TypeOK, Fork
<1>2. ASSUME NEW r \in alone' PROVE Undisturbed(r)'
  <2>1. r \in Proc /\ Undisturbed(r)
    BY <1>2 DEF AloneInv, TypeOK
  <2>2. ASSUME NEW d PROVE Launching(d)' \subseteq Launching(d)
    BY DEF Launching, Fork, TypeOK
  <2>3. CASE r = p
    BY <2>3 DEF Undisturbed, Fork, TypeOK
  <2>4. CASE r # p /\ r = q
    BY <2>4 DEF Undisturbed, Fork, TypeOK
  <2>5. CASE r # p /\ r # q
    <3>1. st'[r] = st[r] /\ cur'[r] = cur[r]
      BY <2>1, <2>5 DEF Fork, TypeOK
    <3> QED BY <2>1, <2>2, <3>1 DEF Undisturbed
  <2> QED BY <2>3, <2>4, <2>5
<1>3. AloneOnOwnPort'
  BY DEF AloneInv, AloneOnOwnPort, TypeOK, Fork
<1> QED BY <1>1, <1>2, <1>3

\* A launch: others of the user, and whoever had a file where it writes, are
\* no longer alone; it is alone itself if there was none and it wrote into its
\* user's directory.
LEMMA ForkLaunch ==
  ASSUME TypeOK, AloneInv, NEW p \in Proc, NEW q \in Proc, NEW c \in Cmd, NEW d \in Dir,
         d \in User => d \in dirs, Parent(d) \notin User,
         st[p] = "accept", Fork(p, q, c), c.kind \in Launch,
         cwd' = [cwd EXCEPT ![p] = Parent(d), ![q] = Parent(d)],
         dat' = [dat EXCEPT ![d] = c.port],
         alone' = IF Launching(d) \cup Launching(c.id) = {} /\ d = c.id
                  THEN alone \cup {p}
                  ELSE alone \ (Launching(d) \cup Launching(c.id) \cup {p}),
         UNCHANGED <<dirs, vmdir, vmport>>
  PROVE  Places' /\ (\A r \in alone : Undisturbed(r))' /\ AloneOnOwnPort'
<1>1. Places'
  BY DEF AloneInv, Places, TypeOK, Fork
<1>2. ASSUME NEW r \in alone' PROVE Undisturbed(r)'
  <2>1. r \in Proc
    BY <1>2 DEF TypeOK
  <2>2. \A e : Launching(e)' \subseteq Launching(e) \cup {p}
    BY DEF Launching, Fork, TypeOK
  <2>3. \A e : e # c.id => Launching(e)' \subseteq Launching(e)
    BY DEF Launching, Fork, TypeOK
  <2>4. CASE r = p
    <3>1. Launching(c.id) = {} /\ d = c.id
      BY <1>2, <2>4
    <3>2. st'[p] = "script" /\ cur'[p] = c /\ dat'[c.id] = c.port /\ c.id \in dirs
      BY <3>1 DEF Fork, TypeOK, Cmd
    <3> QED BY <2>2, <2>4, <3>1, <3>2 DEF Undisturbed
  <2>5. CASE r # p /\ r = q
    BY <2>5 DEF Undisturbed, Fork, TypeOK
  <2>6. CASE r # p /\ r # q
    <3>1. st'[r] = st[r] /\ cur'[r] = cur[r]
      BY <2>1, <2>6 DEF Fork, TypeOK
    <3>2. r \in alone /\ Undisturbed(r)
      BY <1>2, <2>6 DEF AloneInv
    <3> SUFFICES ASSUME st[r] \in {"script", "boot", "rm"}, cur[r].kind \in Launch
                 PROVE  Undisturbed(r)'
      BY <3>1 DEF Undisturbed
    <3>3. r \in Launching(cur[r].id)
      BY <2>1 DEF Launching
    <3>4. cur[r].id # c.id /\ cur[r].id # d
      BY <1>2, <2>6, <3>3
    <3>5. dat'[cur[r].id] = dat[cur[r].id]
      BY <3>2, <3>4 DEF TypeOK, Undisturbed, Dir
    <3>6. Launching(cur[r].id)' \subseteq Launching(cur[r].id)
      BY <2>3, <3>1, <3>4
    <3> QED BY <3>1, <3>2, <3>5, <3>6 DEF Undisturbed
  <2> QED BY <2>4, <2>5, <2>6
<1>3. AloneOnOwnPort'
  BY SMTT(30) DEF AloneInv, AloneOnOwnPort, TypeOK, Fork
<1> QED BY <1>1, <1>2, <1>3

\* A launch whose fork, or whose fclose, fails has overwritten the file all the same.
LEMMA LaunchWithoutFork ==
  ASSUME TypeOK, AloneInv, NEW p \in Proc, NEW d \in Dir, NEW e, NEW x,
         e \in User => e \in dirs, cwd' = [cwd EXCEPT ![p] = e],
         dat' = [dat EXCEPT ![d] = x], alone' = alone \ Launching(d),
         UNCHANGED <<st, cur, dirs, vmdir, vmport>>
  PROVE  Places' /\ (\A r \in alone : Undisturbed(r))' /\ AloneOnOwnPort'
<1>1. Places'
  BY DEF AloneInv, Places, TypeOK
<1>2. ASSUME NEW r \in alone' PROVE Undisturbed(r)'
  <2>1. r \in Proc /\ Undisturbed(r) /\ r \notin Launching(d)
    BY <1>2 DEF AloneInv, TypeOK
  <2>2. \A f : Launching(f)' = Launching(f)
    BY DEF Launching
  <2> SUFFICES ASSUME st[r] \in {"script", "boot", "rm"}, cur[r].kind \in Launch
               PROVE  Undisturbed(r)'
    BY DEF Undisturbed
  <2>3. cur[r].id # d /\ cur[r].id \in Dir
    BY <2>1 DEF Launching, Undisturbed, TypeOK, Dir
  <2>4. dat'[cur[r].id] = dat[cur[r].id]
    BY <2>3 DEF TypeOK
  <2>5. Launching(cur[r].id)' = Launching(cur[r].id)
    BY <2>2
  <2> QED BY <2>1, <2>4, <2>5 DEF Undisturbed
<1>3. AloneOnOwnPort'
  BY DEF AloneInv, AloneOnOwnPort
<1> QED BY <1>1, <1>2, <1>3

\* cd, then the read of the file and its removal, by the QEMU of p.
LEMMA QemuStep ==
  ASSUME TypeOK, AloneInv, NEW p \in Proc,
         ScriptLaunch(p) \/ ReadClientData(p) \/ ReadBlank(p) \/ RemoveClientData(p)
  PROVE  Places' /\ (\A r \in alone : Undisturbed(r))' /\ AloneOnOwnPort'
<1>1. Places'
  <2>1. Places
    BY DEF AloneInv
  <2>2. CASE ScriptLaunch(p)
    BY <2>1, <2>2 DEF Places, TypeOK, ScriptLaunch, VmDir, diskVars
  <2>3. CASE ReadClientData(p)
    BY <2>1, <2>3 DEF Places, TypeOK, ReadClientData, diskVars
  <2>4. CASE RemoveClientData(p)
    BY <2>1, <2>4 DEF Places, TypeOK, RemoveClientData, qemuVars
  <2>5. CASE ReadBlank(p)
    BY <2>1, <2>5 DEF Places, TypeOK, ReadBlank, diskVars
  <2> QED BY <2>2, <2>3, <2>4, <2>5
<1>2. \A e : Launching(e)' \subseteq Launching(e)
  BY DEF Launching, TypeOK, ScriptLaunch, ReadClientData, ReadBlank, RemoveClientData
<1>3. UNCHANGED <<cur, dirs, alone>>
  BY DEF ScriptLaunch, ReadClientData, ReadBlank, RemoveClientData, diskVars
<1>4. ASSUME NEW r \in alone' PROVE Undisturbed(r)'
  <2>1. r \in Proc /\ Undisturbed(r) /\ r \in alone
    BY <1>3, <1>4 DEF AloneInv, TypeOK
  <2>2. Launching(cur[r].id)' \subseteq Launching(cur[r].id)
    BY <1>2, <1>3
  <2>3. CASE r = p
    <3>1. CASE ScriptLaunch(p)
      BY <1>3, <2>1, <2>2, <2>3, <3>1
      DEF Undisturbed, ScriptLaunch, TypeOK, VmDir, diskVars
    <3>2. CASE ReadClientData(p)
      BY <1>3, <2>1, <2>2, <2>3, <3>2 DEF Undisturbed, ReadClientData, TypeOK, diskVars
    <3>3. CASE RemoveClientData(p)
      BY <2>3, <3>3 DEF Undisturbed, RemoveClientData, TypeOK
    <3>4. CASE ReadBlank(p)
      BY <1>3, <2>1, <2>2, <2>3, <3>4 DEF Undisturbed, ReadBlank, TypeOK, diskVars
    <3> QED BY <3>1, <3>2, <3>3, <3>4
  <2>4. CASE r # p
    <3>1. st'[r] = st[r] /\ vmdir'[r] = vmdir[r]
      BY <2>1, <2>4
      DEF TypeOK, ScriptLaunch, ReadClientData, ReadBlank, RemoveClientData, qemuVars
    <3> SUFFICES ASSUME st[r] \in {"script", "boot", "rm"}, cur[r].kind \in Launch
                 PROVE  Undisturbed(r)'
      BY <1>3, <3>1 DEF Undisturbed
    <3>2. dat'[cur[r].id] = dat[cur[r].id]
      <4>1. CASE RemoveClientData(p)
        <5>1. vmdir[p] \in {cur[p].id, "home"} /\ cur[p].kind \in Launch /\ st[p] = "rm"
          BY <4>1 DEF AloneInv, Places, RemoveClientData
        <5>2. cur[r].id \in User
          BY <2>1 DEF Undisturbed, TypeOK
        <5>3. cur[p].id # cur[r].id
          BY <2>1, <2>4, <5>1 DEF Undisturbed, Launching
        <5>4. vmdir[p] # cur[r].id
          BY <5>1, <5>2, <5>3, VmAssumption
        <5> QED BY <4>1, <5>2, <5>4 DEF RemoveClientData, TypeOK, Dir
      <4>2. CASE ScriptLaunch(p) \/ ReadClientData(p) \/ ReadBlank(p)
        BY <4>2 DEF ScriptLaunch, ReadClientData, ReadBlank, diskVars
      <4> QED BY <4>1, <4>2
    <3> QED BY <1>3, <2>1, <2>2, <3>1, <3>2 DEF Undisturbed
  <2> QED BY <2>3, <2>4
<1>5. AloneOnOwnPort'
  <2>1. CASE ScriptLaunch(p)
    BY <2>1, <1>3 DEF AloneInv, AloneOnOwnPort, TypeOK, ScriptLaunch
  <2>2. CASE ReadClientData(p)
    <3>1. p \in alone => dat[vmdir[p]] = cur[p].port
      BY <2>2 DEF AloneInv, Places, Undisturbed, ReadClientData
    <3> QED BY <2>2, <1>3, <3>1 DEF AloneInv, AloneOnOwnPort, TypeOK, ReadClientData
  <2>3. CASE RemoveClientData(p)
    BY <2>3, <1>3 DEF AloneInv, AloneOnOwnPort, TypeOK, RemoveClientData, qemuVars
  <2>4. CASE ReadBlank(p)
    <3>1. p \notin alone
      <4> SUFFICES ASSUME p \in alone PROVE FALSE
        OBVIOUS
      <4>1. dat[vmdir[p]] = cur[p].port /\ cur[p] \in Cmd
        BY <2>4 DEF AloneInv, Places, Working, Undisturbed, ReadBlank
      <4>2. cur[p].port \in Port
        BY <4>1 DEF Cmd
      <4> QED BY <2>4, <4>1, <4>2, VmAssumption DEF ReadBlank
    <3> QED BY <2>4, <1>3, <3>1 DEF AloneInv, AloneOnOwnPort, TypeOK, ReadBlank
  <2> QED BY <2>1, <2>2, <2>3, <2>4
<1> QED BY <1>1, <1>4, <1>5

LEMMA StepAlone ==
  ASSUME TypeOK, AloneInv, [Next]_vars
  PROVE  AloneInv'
<1> DEFINE Goal == Places' /\ (\A r \in alone : Undisturbed(r))' /\ AloneOnOwnPort'
<1>1. Working /\ Places
  BY DEF AloneInv
<1>2. ASSUME \/ \E c \in Workload : Send(c)
             \/ \E m \in inbox : Lose(m)
             \/ UNCHANGED vars
      PROVE  Goal
  BY <1>2, NoProcess DEF Send, Lose, vars, hostVars, diskVars, qemuVars
<1>3. ASSUME NEW p \in Proc, NEW m \in inbox, AcceptImageCommand(p, m) PROVE Goal
  <2>1. m[2] \in Cmd
    BY InboxCmd
  <2>2. CASE \E q \in Proc : Fork(p, q, m[2]) /\ cwd' = [cwd EXCEPT ![q] = cwd[p]]
    BY <1>3, <2>1, <2>2, ForkImageCommand DEF AcceptImageCommand, diskVars, qemuVars
  <2>3. CASE ForkFails(p, m[2]) /\ UNCHANGED cwd
    BY <1>3, <2>3, NoProcess DEF AcceptImageCommand, ForkFails, diskVars, qemuVars
  <2> QED BY <1>3, <2>2, <2>3 DEF AcceptImageCommand
<1>4. ASSUME NEW p \in Proc, NEW m \in inbox, AcceptLaunch(p, m) PROVE Goal
  <2>1. m[2] \in Cmd
    BY InboxCmd
  <2>2. PICK d \in Dir : d = Entered(p, m[2])
    BY <2>1, DirType
  <2>3. (d \in User => d \in dirs) /\ Parent(d) \notin User
    BY <1>1, <2>1, <2>2, EnteredExists
  <2>4. /\ st[p] = "accept" /\ m[2].kind \in Launch
        /\ dat' = [dat EXCEPT ![d] = m[2].port] /\ UNCHANGED <<dirs, vmdir, vmport>>
    BY <1>4, <2>2 DEF AcceptLaunch, Written, qemuVars
  <2>5. ASSUME NEW q \in Proc, Fork(p, q, m[2]),
               cwd' = [cwd EXCEPT ![p] = Parent(d), ![q] = Parent(d)],
               alone' = IF Launching(d) \cup Launching(m[2].id) = {} /\ d = m[2].id
                        THEN alone \cup {p}
                        ELSE alone \ (Launching(d) \cup Launching(m[2].id) \cup {p})
        PROVE  Goal
    BY <2>1, <2>3, <2>4, <2>5, ForkLaunch
  <2>6. ASSUME ForkFails(p, m[2]), cwd' = [cwd EXCEPT ![p] = Parent(d)],
               alone' = alone \ Launching(d)
        PROVE  Goal
    BY <2>1, <2>3, <2>4, <2>6, LaunchWithoutFork DEF ForkFails
  <2> HIDE DEF Goal
  <2> QED BY <1>4, <2>2, <2>5, <2>6 DEF AcceptLaunch
<1>5. ASSUME NEW p \in Proc, NEW m \in inbox, OpenFails(p, m) PROVE Goal
  <2>1. Entered(p, m[2]) \in User => Entered(p, m[2]) \in dirs
    BY <1>1, InboxCmd, EnteredExists
  <2>2. Places'
    BY <1>1, <1>5, <2>1 DEF Places, OpenFails, TypeOK, diskVars, qemuVars
  <2> QED BY <1>5, <2>2
      DEF AloneInv, OpenFails, Undisturbed, Launching, AloneOnOwnPort, diskVars, qemuVars
<1>6. ASSUME NEW p \in Proc, NEW m \in inbox, CloseFails(p, m) PROVE Goal
  <2>1. PICK d \in Dir : d = Entered(p, m[2])
    BY InboxCmd, DirType
  <2>2. d \in User => d \in dirs
    BY <1>1, <2>1, InboxCmd, EnteredExists
  <2> QED BY <1>6, <2>1, <2>2, LaunchWithoutFork DEF CloseFails, qemuVars
<1>7. ASSUME NEW p \in Proc, AcceptBare(p) \/ ReadNothing(p) PROVE Goal
  BY <1>7, EndOfScript DEF AcceptBare, ReadNothing, diskVars, qemuVars
<1>8. ASSUME NEW p \in Proc, NoScript(p) \/ ScriptCreate(p) \/ ScriptDelete(p)
      PROVE  Goal
  BY <1>8, EndOfScript DEF NoScript, ScriptCreate, ScriptDelete, diskVars, qemuVars
<1>9. ASSUME NEW p \in Proc, ScriptTizen(p) \/ Exit(p) PROVE Goal
  BY <1>9, EndOfScript DEF ScriptTizen, Exit, diskVars, qemuVars
<1>10. ASSUME NEW p \in Proc, \/ ScriptLaunch(p) \/ ReadClientData(p)
                              \/ ReadBlank(p) \/ RemoveClientData(p)
       PROVE  Goal
  BY <1>10, QemuStep
<1>11. Goal
  <2> HIDE DEF Goal
  <2> QED BY <1>2, <1>3, <1>4, <1>5, <1>6, <1>7, <1>8, <1>9, <1>10, NextCases
<1>12. Working'
  BY <1>1, StepType
<1> QED BY <1>11, <1>12 DEF AloneInv

\* Launches that nobody has run into stay undisturbed: the user's directory is
\* there, client_data.dat holds their ports, and no other launch is under way.
THEOREM AloneInvariant == Spec => []AloneInv
<1>1. Init => AloneInv
  BY VmAssumption DEF Init, AloneInv, Working, Places, AloneOnOwnPort
<1>2. TypeOK /\ AloneInv /\ [Next]_vars => AloneInv'
  BY StepAlone
<1> QED BY <1>1, <1>2, TypeCorrect, PTL DEF Spec

\* A QEMU whose launch no other launch of its user has run into streams to the
\* ports of its own command: client_data.dat still holds what vm_manager wrote
\* for it when IPC_getClientData reads it.
THEOREM OwnPort == Spec => []AloneOnOwnPort
<1>1. AloneInv => AloneOnOwnPort
  BY DEF AloneInv
<1> QED BY <1>1, AloneInvariant, PTL

-----------------------------------------------------------------------------
\* Once every process has left home, all of them and all their children stay
\* away, and no create or delete is carried out any more.
THEOREM StraysNeverReturn == Spec => StrayForGood
<1> DEFINE Kept == AllStray' /\ UNCHANGED <<dirs, files, images>>
<1>1. TypeOK /\ [Next]_vars => [AllStray => Kept]_vars
  <2> SUFFICES ASSUME TypeOK, AllStray, [Next]_vars PROVE Kept
    OBVIOUS
  <2>1. ASSUME \/ \E c \in Workload : Send(c)
               \/ \E m \in inbox : Lose(m)
               \/ UNCHANGED vars
        PROVE  Kept
    BY <2>1 DEF AllStray, Send, Lose, vars, hostVars, diskVars
  <2>2. ASSUME NEW p \in Proc, NEW m \in inbox, AcceptImageCommand(p, m) PROVE Kept
    BY SMTT(30), <2>2 DEF AllStray, AcceptImageCommand, Fork, ForkFails, diskVars, TypeOK
  <2>3. ASSUME NEW p \in Proc, NEW c, st[p] = "accept"
        PROVE  Entered(p, c) = "above" /\ Parent("above") = "above"
    BY <2>3, VmAssumption DEF AllStray, Entered, Parent
  <2>4. ASSUME NEW p \in Proc, NEW m \in inbox, AcceptLaunch(p, m) PROVE Kept
    <3>1. Entered(p, m[2]) = "above" /\ Parent("above") = "above" /\ st[p] = "accept"
      BY <2>3, <2>4 DEF AcceptLaunch
    <3>2. UNCHANGED <<dirs, files, images>>
      BY <2>4 DEF AcceptLaunch
    <3>3. \/ \E q \in Proc : /\ Fork(p, q, m[2])
                            /\ cwd' = [cwd EXCEPT ![p] = "above", ![q] = "above"]
          \/ ForkFails(p, m[2]) /\ cwd' = [cwd EXCEPT ![p] = "above"]
      BY <2>4, <3>1 DEF AcceptLaunch
    <3>4. AllStray'
      BY SMTT(30), <3>1, <3>3 DEF AllStray, Fork, ForkFails, TypeOK
    <3> QED BY <3>2, <3>4
  <2>5. ASSUME NEW p \in Proc, NEW m \in inbox, OpenFails(p, m) PROVE Kept
    BY <2>3, <2>5 DEF AllStray, OpenFails, TypeOK, diskVars
  <2>9. ASSUME NEW p \in Proc, NEW m \in inbox, CloseFails(p, m) PROVE Kept
    BY <2>3, <2>9 DEF AllStray, CloseFails, TypeOK
  <2>6. ASSUME NEW p \in Proc, \/ NoScript(p) \/ ReadClientData(p) \/ ReadBlank(p)
                               \/ Exit(p) \/ AcceptBare(p) \/ ReadNothing(p)
        PROVE  Kept
    BY <2>6 DEF AllStray, NoScript, ReadClientData, ReadBlank, Exit, AcceptBare,
      ReadNothing, TypeOK, diskVars
  <2>7. ASSUME NEW p \in Proc, RemoveClientData(p) PROVE Kept
    BY <2>7 DEF AllStray, RemoveClientData, TypeOK
  <2>8. ASSUME NEW p \in Proc, \/ ScriptCreate(p) \/ ScriptDelete(p)
                               \/ ScriptTizen(p) \/ ScriptLaunch(p)
        PROVE  FALSE
    BY <2>8 DEF AllStray, ScriptCreate, ScriptDelete, ScriptTizen, ScriptLaunch
  <2> HIDE DEF Kept
  <2> QED BY <2>1, <2>2, <2>4, <2>5, <2>6, <2>7, <2>8, <2>9, NextCases
<1> QED BY <1>1, TypeCorrect, PTL DEF Spec, StrayForGood
-----------------------------------------------------------------------------
\* A fork for an image command hands it to the parent, which is then the only one
\* to carry it out.
LEMMA ForkTakes ==
  ASSUME TypeOK, NEW p \in Proc, NEW q \in Proc, NEW m \in inbox,
         st[p] = "accept", m[2].kind \notin Launch,
         inbox' = inbox \ {m}, Fork(p, q, m[2]), UNCHANGED images
  PROVE  Host!Take(m, p)
<1>1. p # q
  BY DEF Fork
<1>2. ImageInbox' = ImageInbox \ {m}
  BY DEF ImageInbox
<1>3. ImageWork[p] = None
  BY DEF ImageWork
<1>4. ImageWork' = [ImageWork EXCEPT ![p] = m[2]]
  BY <1>1 DEF ImageWork, Fork, TypeOK
<1> QED BY <1>2, <1>3, <1>4 DEF Host!Take

\* At the end of a create or delete script the command is gone.
LEMMA ScriptFinishes ==
  ASSUME TypeOK, Working, NEW p \in Proc, st[p] = "script",
         cur[p].kind \notin Launch, NEW ok \in BOOLEAN,
         st' = [st EXCEPT ![p] = "accept"], UNCHANGED <<cur, inbox>>,
         images' = IF ok THEN Host!After(cur[p]) ELSE images
  PROVE  Host!Finish(p, ok)
<1>1. ImageWork[p] = cur[p] /\ cur[p] # None
  BY WorkloadAssumption DEF ImageWork, Working
<1>2. ImageWork' = [ImageWork EXCEPT ![p] = None]
  BY DEF ImageWork, TypeOK
<1>3. UNCHANGED ImageInbox
  BY DEF ImageInbox
<1> QED BY <1>1, <1>2, <1>3 DEF Host!Finish

\* Any other change of st and cur is none of the promise's business.
LEMMA OtherWork ==
  ASSUME TypeOK, NEW p \in Proc, NEW x,
         st[p] = "script" => cur[p].kind \in Launch, x # "script",
         st' = [st EXCEPT ![p] = x], UNCHANGED cur
  PROVE  UNCHANGED ImageWork
BY DEF ImageWork, TypeOK

LEMMA StepPromise ==
  ASSUME TypeOK, Working, \A m \in inbox : m[1] <= sent, [Next]_vars
  PROVE  [Host!Next]_(Host!vars)
<1> DEFINE Same == UNCHANGED <<ImageInbox, ImageWork, images>>
           Ok == Host!Next \/ Same
<1>1. ASSUME NEW c \in Workload, Send(c) PROVE Ok
  <2>1. <<sent + 1, c>> \notin inbox /\ sent + 1 \in 1..MaxCmds
    <3>1. sent \in Nat /\ MaxCmds \in Nat /\ sent < MaxCmds
      BY SMTT(30), <1>1, VmAssumption DEF Send, TypeOK
    <3>2. <<sent + 1, c>>[1] = sent + 1
      OBVIOUS
    <3> QED BY <3>1, <3>2
  <2>2. UNCHANGED <<ImageWork, images>>
    BY <1>1 DEF Send, ImageWork, hostVars, diskVars
  <2>3. CASE c.kind \in Launch
    <3>1. UNCHANGED ImageInbox
      BY SMTT(30), <1>1, <2>3 DEF Send, ImageInbox
    <3> QED BY <2>2, <3>1
  <2>4. CASE c.kind \notin Launch
    <3>1. <<sent + 1, c>> \notin ImageInbox
          /\ ImageInbox' = ImageInbox \cup {<<sent + 1, c>>}
      BY <1>1, <2>1, <2>4 DEF Send, ImageInbox
    <3>2. Host!Send(sent + 1, c)
      BY <2>2, <3>1 DEF Host!Send
    <3> QED BY <2>1, <2>4, <3>2 DEF Host!Next
  <2> QED BY <2>3, <2>4
<1>2. ASSUME NEW m \in inbox, inbox' = inbox \ {m}, UNCHANGED <<st, cur, images>>
      PROVE  Ok
  <2>1. UNCHANGED ImageWork
    BY <1>2 DEF ImageWork
  <2>2. m \in ImageInbox => Host!Drop(m)
    BY <1>2, <2>1 DEF ImageInbox, Host!Drop
  <2>3. m \notin ImageInbox => UNCHANGED ImageInbox
    BY <1>2 DEF ImageInbox
  <2> QED BY <1>2, <2>1, <2>2, <2>3 DEF Host!Next, Host!Own
<1>3. ASSUME NEW m \in inbox, Lose(m) PROVE Ok
  BY <1>2, <1>3 DEF Lose, hostVars, diskVars
<1>4. ASSUME NEW p \in Proc, NEW m \in inbox, AcceptImageCommand(p, m) PROVE Ok
  <2>1. ASSUME NEW q \in Proc, Fork(p, q, m[2]) PROVE Ok
    <3>1. Host!Take(m, p)
      BY <1>4, <2>1, ForkTakes DEF AcceptImageCommand, diskVars
    <3> QED BY <1>4, <3>1 DEF Host!Next, Host!Own, ImageInbox, AcceptImageCommand
  <2>2. CASE ForkFails(p, m[2])
    BY <1>2, <1>4, <2>2 DEF AcceptImageCommand, ForkFails, diskVars
  <2> QED BY <1>4, <2>1, <2>2 DEF AcceptImageCommand
<1>5. ASSUME NEW p \in Proc, NEW m \in inbox, AcceptLaunch(p, m) PROVE Ok
  <2>1. UNCHANGED <<ImageInbox, images>>
    BY <1>5 DEF AcceptLaunch, ImageInbox
  <2>2. ASSUME NEW q \in Proc, Fork(p, q, m[2]) PROVE UNCHANGED ImageWork
    BY <1>5, <2>2 DEF AcceptLaunch, Fork, ImageWork, TypeOK
  <2>3. CASE ForkFails(p, m[2])
    BY <1>5, <2>1, <2>3 DEF AcceptLaunch, ForkFails, ImageWork
  <2> QED BY <1>5, <2>1, <2>2, <2>3 DEF AcceptLaunch
<1>6. ASSUME NEW p \in Proc, NEW m \in inbox, OpenFails(p, m) PROVE Ok
  BY <1>2, <1>6 DEF OpenFails, diskVars
<1>7. ASSUME NEW p \in Proc, NEW ok \in BOOLEAN, Host!Finish(p, ok) PROVE Ok
  BY <1>7 DEF Host!Next, Host!Own
<1>8. ASSUME NEW p \in Proc, NoScript(p) PROVE Ok
  <2>1. CASE cur[p].kind \in Launch
    BY <1>8, <2>1, OtherWork DEF NoScript, ImageInbox, diskVars
  <2>2. CASE cur[p].kind \notin Launch
    BY <1>7, <1>8, <2>2, ScriptFinishes DEF NoScript, diskVars
  <2> QED BY <2>1, <2>2
<1>9. ASSUME NEW p \in Proc, ScriptCreate(p) PROVE Ok
  <2> DEFINE ok == cur[p].os = "disk" \/ (cur[p].os = "android" /\ base[p] \in files)
  <2>1. cur[p].kind \notin Launch /\ st[p] = "script"
    BY <1>9 DEF ScriptCreate, Launch
  <2>2. images' = IF ok THEN Host!After(cur[p]) ELSE images
    BY <1>9 DEF ScriptCreate, Host!After, ImageOf, Host!ImageOf
  <2>3. ok \in BOOLEAN
    OBVIOUS
  <2> HIDE DEF ok
  <2> QED BY <1>7, <1>9, <2>1, <2>2, <2>3, ScriptFinishes DEF ScriptCreate
<1>10. ASSUME NEW p \in Proc, ScriptDelete(p) PROVE Ok
  <2>1. cur[p].kind \notin Launch
    BY <1>10 DEF ScriptDelete, Launch
  <2>2. images' = Host!After(cur[p])
    BY <1>10 DEF ScriptDelete, Host!After, ImageOf, Host!ImageOf
  <2> QED BY <1>7, <1>10, <2>1, <2>2, ScriptFinishes DEF ScriptDelete
<1>11. ASSUME NEW p \in Proc, ScriptTizen(p) \/ ScriptLaunch(p) PROVE Ok
  BY <1>11, OtherWork DEF ScriptTizen, ScriptLaunch, Tizen, Launch, ImageInbox, diskVars
<1>12. ASSUME NEW p \in Proc, \/ ReadClientData(p) \/ ReadBlank(p)
                              \/ RemoveClientData(p) \/ Exit(p)
       PROVE  Ok
  BY <1>12, OtherWork
  DEF ReadClientData, ReadBlank, RemoveClientData, Exit, ImageInbox, diskVars
<1>13. ASSUME UNCHANGED vars PROVE Ok
  BY <1>13 DEF vars, hostVars, diskVars, ImageInbox, ImageWork
<1>14. ASSUME NEW p \in Proc, NEW m \in inbox, CloseFails(p, m) PROVE Ok
  BY <1>2, <1>14 DEF CloseFails
<1>15. ASSUME NEW p \in Proc, AcceptBare(p) \/ ReadNothing(p) PROVE Ok
  BY <1>15, OtherWork DEF AcceptBare, ReadNothing, ImageInbox, diskVars
<1> HIDE DEF Ok
<1>16. Ok
  BY <1>1, <1>3, <1>4, <1>5, <1>6, <1>8, <1>9, <1>10, <1>11, <1>12, <1>13, <1>14,
     <1>15, NextCases
<1> QED BY <1>16 DEF Ok, Host!vars

\* Whatever processes fork, fail and stray, the host keeps its promise to the load
\* balancer: vm_manager.c with command.sh implements ImageHost.
THEOREM HostKeepsPromise == Spec => ImagesAsPromised
<1> DEFINE Fresh == \A m \in inbox : m[1] <= sent
<1>1. Init => Fresh /\ Host!Init
  BY DEF Init, Host!Init, ImageInbox, ImageWork
<1>2. TypeOK /\ Fresh /\ [Next]_vars => Fresh'
  <2> SUFFICES ASSUME TypeOK, Fresh, [Next]_vars PROVE Fresh'
    OBVIOUS
  <2>1. ASSUME NEW c \in Workload, Send(c) PROVE Fresh'
    <3>1. sent \in Nat /\ sent' = sent + 1 /\ inbox' = inbox \cup {<<sent + 1, c>>}
      BY SMTT(30), <2>1 DEF Send, TypeOK
    <3>2. \A m \in inbox : m[1] <= sent /\ m[1] \in Nat
      BY SMTT(30) DEF TypeOK
    <3> QED BY <3>1, <3>2
  <2>2. ASSUME inbox' \subseteq inbox, UNCHANGED sent PROVE Fresh'
    BY <2>2
  <2> HIDE DEF Fresh
  <2> QED BY SMTT(30), <2>1, <2>2, NextCases
          DEF Lose, AcceptImageCommand, AcceptLaunch, OpenFails, CloseFails,
              AcceptBare, ReadNothing, NoScript, ScriptCreate, ScriptDelete,
              ScriptTizen, ScriptLaunch, ReadClientData, ReadBlank,
              RemoveClientData, Exit, vars
<1>3. TypeOK /\ Working /\ Fresh /\ [Next]_vars => [Host!Next]_(Host!vars)
  BY StepPromise
<1> QED BY <1>1, <1>2, <1>3, TypeCorrect, PTL DEF Spec, ImagesAsPromised, Host!Spec

=============================================================================

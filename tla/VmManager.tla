------------------------------ MODULE VmManager ------------------------------
(***************************************************************************)
(* The VM host: vm_manager.c accepts one-shot commands of the load         *)
(* balancer, command.sh runs them, and a started QEMU takes its streaming  *)
(* ports from the file client_data.dat in the user's directory.            *)
(*                                                                         *)
(* Every command forks.  The parent sits in system() until the script (a   *)
(* whole VM session for a start) has ended and then accepts again; the     *)
(* child accepts at once, with its own copy of the android[] table and of  *)
(* the working directory.                                                  *)
(***************************************************************************)
EXTENDS Integers, FiniteSets

CONSTANTS
  User,       \* client ids, the names of the users' directories
  Proc,       \* process ids; fork fails when all are taken
  Main,       \* the process that runs start_server first
  NumBase,    \* length of android[]: 100 in the code
  BaseFiles,  \* the android base images that exist: 0 and 1 in the repository
  Port,       \* streaming ports the load balancer grants
  Index,      \* image indices the load balancer sends
  Workload,   \* the commands it sends
  IndexMod,   \* 2^8: client_info.index is a uint8_t
  MaxCmds,    \* bound on the commands sent
  None,
  Blank,      \* a client_data.dat that is empty
  Faults      \* whether fopen, fclose, fork and connections may fail

Slot == 0..(NumBase - 1)

ASSUME VmAssumption ==
  /\ Main \in Proc
  /\ NumBase \in Nat \ {0} /\ BaseFiles \subseteq Slot /\ IsFiniteSet(BaseFiles)
  /\ Index \subseteq Nat /\ IndexMod \in Nat \ {0} /\ MaxCmds \in Nat
  /\ Faults \in BOOLEAN
  /\ None \notin Port /\ Blank \notin Port \cup {None} /\ User \cap {"home", "above"} = {}

Kind   == {"start", "install", "create", "delete"}
Launch == {"start", "install"}
Os     == {"android", "disk", "tizen"}    \* disk: ubuntu and windows7
Dir    == User \cup {"home", "above"}     \* above: any ancestor of home
Cmd    == [kind: Kind, os: Os, index: Index, id: User, port: Port]
Image  == [id: User, os: Os, index: 0..(IndexMod - 1)]

ASSUME WorkloadAssumption == Workload \subseteq Cmd /\ None \notin Cmd

\* What a process can be doing; a process that died stays in the table, as nobody
\* waits for it.
Doing == {"none", "accept", "read", "dead", "script", "boot", "rm", "vm", "emulator"}

VARIABLES
  inbox,    \* commands not yet accepted, by number
  bare,     \* connections not yet accepted over which no command will come
  sent,     \* number of commands sent
  st,       \* what each process does
  cur,      \* the command a process works on
  base,     \* the base image index passed to command.sh
  android,  \* each process's copy of android[]: the slots marked 1
  cwd,      \* each process's working directory
  dirs,     \* users' directories that exist
  files,    \* android base images that exist
  images,   \* disk images that exist
  dat,      \* client_data.dat of each directory: a port, Blank or None
  vmdir,    \* the directory a QEMU runs in
  vmport,   \* the port a QEMU streams to
  \* History.
  alone     \* launches that no other launch of the user, or write into the
            \* user's directory, has run into

hostVars == <<st, cur, base, android, cwd>>
diskVars == <<dirs, files, images, dat>>
qemuVars == <<vmdir, vmport>>
vars == <<inbox, bare, sent, hostVars, diskVars, qemuVars, alone>>

TypeOK ==
  /\ inbox \subseteq (1..MaxCmds) \X Cmd
  /\ bare \in Nat /\ sent \in 0..MaxCmds
  /\ st \in [Proc -> Doing]
  /\ cur \in [Proc -> Cmd \cup {None}]
  /\ base \in [Proc -> Slot]
  /\ android \in [Proc -> SUBSET Slot]
  /\ cwd \in [Proc -> Dir]
  /\ dirs \subseteq User /\ files \subseteq BaseFiles /\ images \subseteq Image
  /\ dat \in [Dir -> Port \cup {None, Blank}]
  /\ vmdir \in [Proc -> Dir]
  /\ vmport \in [Proc -> Port \cup {None}]
  /\ alone \subseteq Proc

Init ==
  /\ inbox = {} /\ bare = 0 /\ sent = 0
  /\ st = [p \in Proc |-> IF p = Main THEN "accept" ELSE "none"]
  /\ cur = [p \in Proc |-> None]
  /\ base = [p \in Proc |-> 0]
  /\ android = [p \in Proc |-> Slot]
  /\ cwd = [p \in Proc |-> "home"]
  /\ dirs = {} /\ files = BaseFiles /\ images = {}
  /\ dat = [d \in Dir |-> None]
  /\ vmdir = [p \in Proc |-> "home"]
  /\ vmport = [p \in Proc |-> None]
  /\ alone = {}

-----------------------------------------------------------------------------
\* The load balancer opens a connection per command; they reach accept() in any
\* order, or not at all: one that is refused or lost, or that the load balancer
\* leaves before it has written, is nothing to the host or is accepted all the same.
Send(c) ==
  /\ sent < MaxCmds
  /\ sent' = sent + 1
  /\ inbox' = inbox \cup {<<sent + 1, c>>}
  /\ UNCHANGED <<bare, hostVars, diskVars, qemuVars, alone>>

Lose(m) ==
  /\ Faults
  /\ inbox' = inbox \ {m}
  /\ bare' \in {bare, bare + 1}
  /\ UNCHANGED <<sent, hostVars, diskVars, qemuVars, alone>>

-----------------------------------------------------------------------------
\* The android[] scans of command(): the first slot of S, or index 0 when the
\* loop finds none.
First(S) == IF S = {} THEN 0 ELSE CHOOSE i \in S : \A j \in S : i <= j

Chosen(p, c) ==
  CASE c.os = "android" /\ c.kind = "create" -> First(android[p])
    [] c.os = "android" /\ c.kind = "delete" -> First(Slot \ android[p])
    [] OTHER -> 0

Table(p, c) ==
  CASE c.os = "android" /\ c.kind = "create" -> android[p] \ {Chosen(p, c)}
    [] c.os = "android" /\ c.kind = "delete" /\ android[p] # Slot
         -> android[p] \cup {Chosen(p, c)}
    [] OTHER -> android[p]

\* (mutant) the directory named by an absolute path
EnteredAbsolute(p, c) == IF c.id \in dirs THEN c.id ELSE cwd[p]

\* chdir(id) fails outside home or when the user has no directory; its result
\* is not tested.
Entered(p, c) == IF cwd[p] = "home" /\ c.id \in dirs THEN c.id ELSE cwd[p]
Parent(d) == IF d \in User THEN "home" ELSE "above"

\* (mutant) an existing file is kept
WrittenIfAbsent(d, c) == IF dat[d] = None THEN [dat EXCEPT ![d] = c.port] ELSE dat

\* fopen(..., "w") truncates what an earlier launch left.
Written(d, c) == [dat EXCEPT ![d] = c.port]

\* Processes on their way from the write of client_data.dat to its removal.
Launching(d) ==
  {q \in Proc : /\ st[q] \in {"script", "boot", "rm"}
                /\ cur[q].kind \in Launch /\ cur[q].id = d}

\* (mutant) a child that exits instead of going back to accept().
ForkChildExits(p, q, c) ==
  /\ st[q] = "none"
  /\ st' = [st EXCEPT ![p] = "script"]
  /\ cur' = [cur EXCEPT ![p] = c]
  /\ base' = [base EXCEPT ![p] = Chosen(p, c)]
  /\ android' = [android EXCEPT ![p] = Table(p, c)]

\* (mutant) the child runs the script too
ForkBothRun(p, q, c) ==
  /\ st[q] = "none"
  /\ st' = [st EXCEPT ![p] = "script", ![q] = "script"]
  /\ cur' = [cur EXCEPT ![p] = c, ![q] = c]
  /\ base' = [base EXCEPT ![p] = Chosen(p, c), ![q] = Chosen(p, c)]
  /\ android' = [android EXCEPT ![p] = Table(p, c), ![q] = Table(p, c)]

\* accept, parse and command() up to fork, which makes q the next acceptor.
Fork(p, q, c) ==
  /\ st[q] = "none"
  /\ st' = [st EXCEPT ![p] = "script", ![q] = "accept"]
  /\ cur' = [cur EXCEPT ![p] = c]
  /\ base' = [base EXCEPT ![p] = Chosen(p, c)]
  /\ android' = [android EXCEPT ![p] = Table(p, c), ![q] = Table(p, c)]

\* (mutant) the result of fork tested the wrong way: the parent skips system()
ForkFailsAnyway(p, c) ==
  /\ android' = [android EXCEPT ![p] = Table(p, c)]
  /\ UNCHANGED <<st, cur, base>>

\* fork fails: the command is dropped and the process accepts again.
ForkFails(p, c) ==
  /\ Faults \/ \A q \in Proc : st[q] # "none"
  /\ android' = [android EXCEPT ![p] = Table(p, c)]
  /\ UNCHANGED <<st, cur, base>>

AcceptImageCommand(p, m) ==
  /\ st[p] = "accept" /\ m \in inbox /\ m[2].kind \notin Launch
  /\ inbox' = inbox \ {m}
  /\ \/ \E q \in Proc : /\ Fork(p, q, m[2])
                        /\ cwd' = [cwd EXCEPT ![q] = cwd[p]]
     \/ ForkFails(p, m[2]) /\ UNCHANGED cwd
  /\ UNCHANGED <<bare, sent, diskVars, qemuVars, alone>>

\* For a start or an install the ports are first written to client_data.dat.
AcceptLaunch(p, m) ==
  LET c == m[2]
      d == Entered(p, c)
      others == Launching(d) \cup Launching(c.id)
  IN  /\ st[p] = "accept" /\ m \in inbox /\ c.kind \in Launch
      /\ inbox' = inbox \ {m}
      /\ dat' = Written(d, c)
      /\ \/ \E q \in Proc :
              /\ Fork(p, q, c)
              /\ cwd' = [cwd EXCEPT ![p] = Parent(d), ![q] = Parent(d)]
              /\ alone' = IF others = {} /\ d = c.id
                          THEN alone \cup {p} ELSE alone \ (others \cup {p})
         \/ /\ ForkFails(p, c)
            /\ cwd' = [cwd EXCEPT ![p] = Parent(d)]
            /\ alone' = alone \ Launching(d)
      /\ UNCHANGED <<bare, sent, dirs, files, images, qemuVars>>

\* fopen fails: command() returns -1 from the directory it has entered.
OpenFails(p, m) ==
  /\ Faults \/ Entered(p, m[2]) = "above"
  /\ st[p] = "accept" /\ m \in inbox /\ m[2].kind \in Launch
  /\ inbox' = inbox \ {m}
  /\ cwd' = [cwd EXCEPT ![p] = Entered(p, m[2])]
  /\ UNCHANGED <<bare, sent, st, cur, base, android, diskVars, qemuVars, alone>>

\* fclose fails: command() returns -1 likewise, but fopen has emptied the file.
CloseFails(p, m) ==
  LET d == Entered(p, m[2])
  IN  /\ Faults
      /\ st[p] = "accept" /\ m \in inbox /\ m[2].kind \in Launch
      /\ inbox' = inbox \ {m}
      /\ dat' = [dat EXCEPT ![d] = Blank]
      /\ cwd' = [cwd EXCEPT ![p] = d]
      /\ alone' = alone \ Launching(d)
      /\ UNCHANGED <<bare, sent, st, cur, base, android, dirs, files, images, qemuVars>>

\* A connection over which nothing comes: read() waits, and a silent connection
\* that stays open keeps the process there for ever.
AcceptBare(p) ==
  /\ st[p] = "accept" /\ bare > 0
  /\ bare' = bare - 1
  /\ st' = [st EXCEPT ![p] = "read"]
  /\ UNCHANGED <<inbox, sent, cur, base, android, cwd, diskVars, qemuVars, alone>>

\* When it is closed, read() leaves the buffer empty, or as strtok has cut it behind
\* the first word of an earlier command: atoi of the missing word is the end.
ReadNothing(p) ==
  /\ st[p] = "read"
  /\ st' = [st EXCEPT ![p] = "dead"]
  /\ UNCHANGED <<inbox, bare, sent, cur, base, android, cwd, diskVars, qemuVars, alone>>

-----------------------------------------------------------------------------
\* system("./command.sh ..."): the script is only found from home.
NoScript(p) ==
  /\ st[p] = "script" /\ cwd[p] # "home"
  /\ st' = [st EXCEPT ![p] = "accept"]
  /\ alone' = alone \ {p}
  /\ UNCHANGED <<inbox, bare, sent, cur, base, android, cwd, diskVars, qemuVars>>

ImageOf(c) == [id |-> c.id, os |-> c.os, index |-> c.index % IndexMod]

\* (mutant) cp of a base image
Copied(b) == files
\* mv of a base image.
Moved(b) == files \ {b}

\* command 1: mkdir, then qemu-img for the disks and mv of the base image for
\* android (nothing for tizen).
ScriptCreate(p) ==
  LET c == cur[p]
      ok == c.os = "disk" \/ (c.os = "android" /\ base[p] \in files)
  IN  /\ st[p] = "script" /\ cwd[p] = "home" /\ c.kind = "create"
      /\ dirs' = dirs \cup {c.id}
      /\ images' = IF ok THEN images \cup {ImageOf(c)} ELSE images
      /\ files' = IF ok /\ c.os = "android" THEN Moved(base[p]) ELSE files
      /\ st' = [st EXCEPT ![p] = "accept"]
      /\ UNCHANGED <<inbox, bare, sent, cur, base, android, cwd, dat, qemuVars, alone>>

\* command 2: rm -rf of the image.
ScriptDelete(p) ==
  /\ st[p] = "script" /\ cwd[p] = "home" /\ cur[p].kind = "delete"
  /\ images' = images \ {ImageOf(cur[p])}
  /\ st' = [st EXCEPT ![p] = "accept"]
  /\ UNCHANGED <<inbox, bare, sent, cur, base, android, cwd, dirs, files, dat, qemuVars,
                 alone>>

\* command 0 for tizen: its own emulator, which the repository does not hold,
\* found only from the user's directory.  client_data.dat stays where it is.
Tizen(c) == c.kind = "start" /\ c.os = "tizen"

ScriptTizen(p) ==
  /\ st[p] = "script" /\ cwd[p] = "home" /\ Tizen(cur[p])
  /\ st' = [st EXCEPT ![p] = IF cur[p].id \in dirs THEN "emulator" ELSE "accept"]
  /\ alone' = alone \ {p}
  /\ UNCHANGED <<inbox, bare, sent, cur, base, android, cwd, diskVars, qemuVars>>

\* (mutant) the script does not change directory
VmDirHome(c) == "home"

\* A failing cd does not stop the script.
VmDir(c) == IF c.id \in dirs THEN c.id ELSE "home"

\* commands 0 and 3 otherwise: cd to the user's directory and start QEMU.
ScriptLaunch(p) ==
  /\ st[p] = "script" /\ cwd[p] = "home" /\ cur[p].kind \in Launch
  /\ ~Tizen(cur[p])
  /\ st' = [st EXCEPT ![p] = "boot"]
  /\ vmdir' = [vmdir EXCEPT ![p] = VmDir(cur[p])]
  /\ UNCHANGED <<inbox, bare, sent, cur, base, android, cwd, diskVars, vmport, alone>>

-----------------------------------------------------------------------------
\* IPC_getClientData: QEMU opens the file again and again until it exists,
\* reads its ports and then removes it.
ReadClientData(p) ==
  /\ st[p] = "boot" /\ dat[vmdir[p]] \in Port
  /\ vmport' = [vmport EXCEPT ![p] = dat[vmdir[p]]]
  /\ st' = [st EXCEPT ![p] = "rm"]
  /\ UNCHANGED <<inbox, bare, sent, cur, base, android, cwd, diskVars, vmdir, alone>>

\* Of an empty file it takes what is on its stack: any ports, or none, which ends it
\* before it has removed the file.
ReadBlank(p) ==
  /\ st[p] = "boot" /\ dat[vmdir[p]] = Blank
  /\ \/ \E x \in Port \cup {None} :
          /\ vmport' = [vmport EXCEPT ![p] = x]
          /\ st' = [st EXCEPT ![p] = "rm"]
     \/ st' = [st EXCEPT ![p] = "accept"] /\ UNCHANGED vmport
  /\ UNCHANGED <<inbox, bare, sent, cur, base, android, cwd, diskVars, vmdir, alone>>

\* It then runs on its image, or exits when there is none.
RemoveClientData(p) ==
  /\ st[p] = "rm"
  /\ dat' = [dat EXCEPT ![vmdir[p]] = None]
  /\ st' = [st EXCEPT ![p] = IF vmdir[p] = cur[p].id /\ ImageOf(cur[p]) \in images
                             THEN "vm" ELSE "accept"]
  /\ UNCHANGED <<inbox, bare, sent, cur, base, android, cwd, dirs, files, images, qemuVars,
                 alone>>

Exit(p) ==
  /\ st[p] \in {"vm", "emulator"}
  /\ st' = [st EXCEPT ![p] = "accept"]
  /\ UNCHANGED <<inbox, bare, sent, cur, base, android, cwd, diskVars, qemuVars, alone>>

-----------------------------------------------------------------------------
Accept(p) == \E m \in inbox :
  AcceptImageCommand(p, m) \/ AcceptLaunch(p, m) \/ OpenFails(p, m) \/ CloseFails(p, m)

Script(p) ==
  \/ NoScript(p) \/ ScriptCreate(p) \/ ScriptDelete(p)
  \/ ScriptTizen(p) \/ ScriptLaunch(p)

Qemu(p) == ReadClientData(p) \/ ReadBlank(p) \/ RemoveClientData(p)

Next ==
  \/ \E c \in Workload : Send(c)
  \/ \E m \in inbox : Lose(m)
  \/ \E p \in Proc : Accept(p) \/ AcceptBare(p) \/ ReadNothing(p)
  \/ \E p \in Proc : Script(p) \/ Qemu(p) \/ Exit(p)

Spec == Init /\ [][Next]_vars

\* Blocked acceptors are woken for a waiting connection, and the kernel runs
\* the scripts and QEMU; how long a VM runs is up to its user.
Fairness ==
  /\ WF_vars(\E p \in Proc : Accept(p))
  /\ \A p \in Proc : WF_vars(Script(p)) /\ WF_vars(Qemu(p))

FairSpec == Spec /\ Fairness

-----------------------------------------------------------------------------
\* However many VMs are running, and whatever forks, files and directories fail,
\* the host stops accepting only through connections without a command: unless
\* one of these has an acceptor waiting in read(), or dead, some process waits in
\* accept().  The child of every fork does, and a process whose fork, fopen or
\* fclose fails does itself.
SomeoneAccepts ==
  (\A p \in Proc : st[p] \notin {"read", "dead"}) => \E p \in Proc : st[p] = "accept"

\* Each process chooses base images by its own copy of android[], which knows
\* nothing of the choices of the others and takes a deleted image's slot to be free
\* again: two can choose the same base image.  Still no two android images are of
\* one base image: those that exist and the base images left are never more than
\* the base images of the first day.
BaseImageUsedOnce ==
  Cardinality({i \in images : i.os = "android"}) + Cardinality(files)
    <= Cardinality(BaseFiles)

\* A QEMU that no other launch of its user has run into streams to the ports of
\* its own command, whatever files other launches have left and wherever other
\* processes have strayed.
AloneOnOwnPort ==
  \A p \in alone : st[p] \in {"rm", "vm"} => vmport[p] = cur[p].port

\* A process past accept() has a command.
Working ==
  \A p \in Proc : st[p] \in {"script", "boot", "rm", "vm"} => cur[p] \in Cmd

\* QEMU runs in the directory of its user or, when cd failed, in home; and a
\* process stands in a user's directory only if there is one.
Places ==
  \A p \in Proc :
    /\ st[p] \in {"boot", "rm", "vm"} =>
         cur[p].kind \in Launch /\ vmdir[p] \in {cur[p].id, "home"}
    /\ cwd[p] \in User => cwd[p] \in dirs

\* The launch of p is the only one of its user, and from the write of
\* client_data.dat to QEMU's read the file holds its ports.
Undisturbed(p) ==
  st[p] \in {"script", "boot", "rm"} /\ cur[p].kind \in Launch =>
    /\ cur[p].id \in dirs
    /\ Launching(cur[p].id) \subseteq {p}
    /\ st[p] # "rm" => dat[cur[p].id] = cur[p].port
    /\ st[p] # "script" => vmdir[p] = cur[p].id

\* The inductive form of AloneOnOwnPort.
AloneInv ==
  /\ Working /\ Places
  /\ \A p \in alone : Undisturbed(p)
  /\ AloneOnOwnPort

\* Once every living process has left the home directory (a launch for a user
\* without a directory does chdir("..") from home, and its child inherits that),
\* no command is ever carried out again: command.sh is not found any more.
AllStray == \A p \in Proc : st[p] \notin {"none", "dead"} => cwd[p] = "above"

StrayForGood ==
  [][AllStray => AllStray' /\ UNCHANGED <<dirs, files, images>>]_vars

\* The create and delete commands that wait and that are carried out.
ImageInbox == {m \in inbox : m[2].kind \notin Launch}
ImageWork  == [p \in Proc |-> IF st[p] = "script" /\ cur[p].kind \notin Launch
                              THEN cur[p] ELSE None]

Host == INSTANCE ImageHost WITH
  Command <- {c \in Workload : c.kind \notin Launch}, Number <- 1..MaxCmds,
  Worker <- Proc, waiting <- ImageInbox, working <- ImageWork

\* To the load balancer the host is an ImageHost: each create or delete command
\* is carried out by one process, once or not at all, and only these commands
\* change the images, whatever the launches, forks and strayed processes do.
ImagesAsPromised == Host!Spec

\* Every command that reaches the host is accepted, however many VMs run, as long
\* as every connection brings its command (with Faults, one that brings none can
\* take the only acceptor away, see SomeoneAccepts).
EveryCommandAccepted ==
  \A n \in 1..MaxCmds : (\E c \in Workload : <<n, c>> \in inbox)
    ~> ~(\E c \in Workload : <<n, c>> \in inbox)

\* A QEMU that waits for client_data.dat gets it, unless another launch of its
\* user has run into it.
AloneBoots ==
  \A p \in Proc : (p \in alone /\ st[p] = "boot") ~> (p \notin alone \/ st[p] # "boot")

\* While no process has left home, a create command for a disk gets its image.
CreateMakesImage ==
  \A n \in 1..MaxCmds, c \in Workload :
    (<<n, c>> \in inbox /\ c.kind = "create" /\ c.os = "disk")
      ~> (ImageOf(c) \in images \/ \E p \in Proc : cwd[p] # "home")
=============================================================================

--------------------------- MODULE FdTable_proofs ---------------------------
(***************************************************************************)
(* FdTable for every size of the pool, every set of names and every choice  *)
(* of the standard devices: the inductive invariant, and from it the        *)
(* invariants and the action property that the runs check.                  *)
(***************************************************************************)
EXTENDS FdTable, TLAPS

(* Where start-up is, nothing is held yet and nothing is locked. *)
BootInv ==
    /\ phase # "running" => /\ Held = {}
                            /\ \A f \in Fds : "EXCL" \notin fd_list[f].flags
    /\ phase # "sys_init" => dev_list = {"null", "uart"}

(* The standard descriptors never enter the pool. *)
StdInv == \A f \in StdFds : fd_list[f].dev # "none"

(* Only a descriptor that open has marked is ever locked, and open marks     *)
(* none above the mark: HighWater for the standard descriptors too.          *)
MarkInv ==
    \A f \in Fds : /\ "EXCL" \in fd_list[f].flags => "DEV" \in fd_list[f].flags
                   /\ "DEV" \in fd_list[f].flags => f <= max_fd

(* How far the redirection of each standard descriptor has come. *)
Attached(f, name, acc) ==
    /\ fd_list[f].dev = IF name \in dev_list THEN name ELSE "null"
    /\ fd_list[f].acc = IF name \in dev_list THEN acc ELSE "RDONLY"
Unattached(f) == fd_list[f].dev = "null" /\ fd_list[f].acc = "RDONLY"
AttachInv ==
    /\ IF phase \in {"sys_init", "stdout"} THEN Unattached(1)
       ELSE Attached(1, Stdout, "WRONLY")
    /\ IF phase \in {"sys_init", "stdout", "stdin"} THEN Unattached(0)
       ELSE Attached(0, Stdin, "RDONLY")
    /\ IF phase # "running" THEN Unattached(2)
       ELSE Attached(2, Stderr, "WRONLY")

IInv == /\ TypeOK /\ HighWater /\ NoLeak /\ HeldMeansTheSame
        /\ BootInv /\ StdInv /\ MarkInv /\ AttachInv

-----------------------------------------------------------------------------
(* The start-up state satisfies the invariant. *)
LEMMA InitInv == Init => IInv
  BY PoolAssumption, NamesAssumption
  DEF Init, IInv, TypeOK, HighWater, NoLeak, HeldMeansTheSame, BootInv, StdInv,
      MarkInv, AttachInv, Unattached, Entry, Free, Null, Fds, StdFds, Access,
      Flags, FdFlagsMask, Held, IsFree

(* What open finds: a descriptor above 2, and no lock on the device up to the *)
(* mark, hence none at all.                                                  *)
LEMMA FoundAbove == ASSUME IInv, NEW f, FirstFree(f)
                    PROVE  /\ f \in Fds /\ f > 2 /\ IsFree(f) /\ f \notin Held
                           /\ Raised(f) \in 0 .. ALT_MAX_FD - 1
                           /\ Raised(f) >= f /\ Raised(f) >= max_fd
  BY PoolAssumption
  DEF FirstFree, IsFree, IInv, StdInv, StdFds, Fds, NoLeak, Raised, TypeOK

LEMMA NoLockSeen == ASSUME IInv, NEW f, NEW name, FirstFree(f), ~Locked(f, name)
                    PROVE  \A g \in Fds \ {f} : fd_list[g].dev = name =>
                             "EXCL" \notin fd_list[g].flags
  <1>1. \A g \in Fds : "EXCL" \in fd_list[g].flags => g <= Raised(f)
    BY FoundAbove, PoolAssumption DEF IInv, MarkInv, TypeOK, Fds
  <1>2. QED
    BY <1>1, FoundAbove, PoolAssumption DEF Locked, Fds

(* During start-up an open of a registered name always succeeds. *)
LEMMA BootOpens == ASSUME IInv, phase # "running", NEW name, name \in dev_list
                   PROVE  /\ ~PoolFull
                          /\ \A f \in Fds : ~OpenRefused(f, name)
  <1>1. IsFree(3)
    BY PoolAssumption DEF IInv, NoLeak, BootInv, Fds, StdFds
  <1>2. ~PoolFull
    BY <1>1 DEF PoolFull, IsFree
  <1>3. ASSUME NEW f \in Fds, OpenRefused(f, name)
        PROVE  FALSE
    <2>1. FirstFree(f) /\ Locked(f, name)
      BY <1>3 DEF OpenRefused
    <2>2. \A g \in 0 .. Raised(f) : g \in Fds
      BY <2>1, FoundAbove, PoolAssumption DEF Fds
    <2>3. QED
      BY <2>1, <2>2 DEF Locked, IInv, BootInv
  <1>4. QED
    BY <1>2, <1>3

-----------------------------------------------------------------------------
(* Registration of the UART. *)
LEMMA SysInitInv == IInv /\ alt_sys_init => IInv'
  BY PoolAssumption, NamesAssumption
  DEF alt_sys_init, IInv, TypeOK, HighWater, NoLeak, HeldMeansTheSame, BootInv,
      StdInv, MarkInv, AttachInv, Unattached, Held, IsFree

(* One redirection, whichever of the three: the pool is as it was, and the   *)
(* standard descriptor is attached if its name is registered.                *)
LEMMA RedirectPool ==
  ASSUME IInv, phase # "running", phase # "sys_init", NEW fd \in StdFds,
         NEW name \in Names, NEW acc \in Access, alt_open_fd(fd, name, acc)
  PROVE  /\ max_fd' \in max_fd .. ALT_MAX_FD - 1
         /\ fd_list' = IF name \in dev_list
                       THEN [fd_list EXCEPT ![fd] = Opened(name, acc, {})]
                       ELSE fd_list
         /\ name \in dev_list => max_fd' > 2
  <1>1. CASE \E old \in Fds : /\ OpenSucceeds(old, name)
                              /\ fd_list' = [fd_list EXCEPT
                                               ![fd] = Opened(name, acc, {})]
                              /\ max_fd' = Raised(old)
    BY <1>1, FoundAbove, PoolAssumption DEF OpenSucceeds, Fds, IInv, TypeOK
  <1>2. CASE \E old \in Fds : OpenRefused(old, name)
    BY <1>2, BootOpens DEF OpenRefused
  <1>3. CASE OpenHopeless(name)
    BY <1>3, BootOpens, PoolAssumption DEF OpenHopeless, IInv, TypeOK
  <1>4. QED
    BY <1>1, <1>2, <1>3 DEF alt_open_fd

LEMMA RedirectKept ==
  ASSUME IInv, phase # "running", phase # "sys_init", NEW fd \in StdFds,
         NEW name \in Names, NEW acc \in Access, alt_open_fd(fd, name, acc),
         UNCHANGED dev_list,
         held' = held \/ held' = [f \in StdFds |-> [dev |-> fd_list'[f].dev,
                                       acc |-> fd_list'[f].acc, excl |-> FALSE]]
  PROVE  /\ fd_list' \in [Fds -> Entry] /\ max_fd' \in -1 .. ALT_MAX_FD - 1
         /\ Held' \subseteq StdFds
         /\ \A f \in Held' : held'[f] \in [dev : Names, acc : Access, excl : BOOLEAN]
         /\ HighWater' /\ NoLeak' /\ HeldMeansTheSame' /\ StdInv' /\ MarkInv'
         /\ \A f \in Fds : "EXCL" \notin fd_list'[f].flags
  <1> DEFINE new == Opened(name, acc, {})
  <1>a. StdFds \subseteq Fds
    BY PoolAssumption DEF StdFds, Fds
  <1>b. new \in Entry /\ new.dev = name /\ new.acc = acc /\ name # "none"
        /\ new.flags = {"DEV"}
    BY NamesAssumption DEF Opened, Entry, Flags, FdFlagsMask
  <1>c. /\ max_fd' \in max_fd .. ALT_MAX_FD - 1
        /\ fd_list' = IF name \in dev_list THEN [fd_list EXCEPT ![fd] = new]
                      ELSE fd_list
        /\ name \in dev_list => max_fd' > 2
    BY RedirectPool
  <1>d. fd_list \in [Fds -> Entry] /\ max_fd \in -1 .. ALT_MAX_FD - 1 /\ Held = {}
        /\ \A f \in Fds : "EXCL" \notin fd_list[f].flags
    BY DEF IInv, TypeOK, BootInv
  <1>1. fd_list' \in [Fds -> Entry] /\ max_fd' \in -1 .. ALT_MAX_FD - 1
        /\ max_fd' >= max_fd
    BY <1>a, <1>b, <1>c, <1>d
  <1>2. \A f \in Fds : fd_list'[f] = IF f = fd /\ name \in dev_list THEN new
                                    ELSE fd_list[f]
    BY <1>a, <1>c, <1>d
  <1>3. \A f \in Fds : "EXCL" \notin fd_list'[f].flags
    BY <1>2, <1>b, <1>d
  <1>4. StdInv'
    BY <1>2, <1>a, <1>b DEF StdInv, IInv
  <1>5. MarkInv'
    <2>1. \A f \in Fds : "DEV" \in fd_list'[f].flags => f <= max_fd'
      BY <1>1, <1>2, <1>c, <1>d DEF MarkInv, IInv, StdFds, Fds
    <2>2. QED
      BY <2>1, <1>3 DEF MarkInv
  <1>6. HighWater'
    BY <1>1, <1>2, <1>c, <1>d, <1>a DEF HighWater, IInv, IsFree, Fds, StdFds
  <1>7. Held' \subseteq StdFds
    BY <1>d DEF Held
  <1>8. NoLeak'
    BY <1>2, <1>7, <1>d DEF NoLeak, IsFree, IInv
  <1>9. \A f \in Held' : held'[f] \in [dev : Names, acc : Access, excl : BOOLEAN]
    <2>1. CASE held' = held
      BY <2>1, <1>d DEF Held
    <2>2. CASE held' = [f \in StdFds |-> [dev |-> fd_list'[f].dev,
                                       acc |-> fd_list'[f].acc, excl |-> FALSE]]
      <3>1. \A f \in StdFds : fd_list'[f] \in Entry /\ fd_list'[f].dev # "none"
        BY <1>1, <1>4, <1>a DEF StdInv
      <3>2. \A f \in StdFds : fd_list'[f].dev \in Names /\ fd_list'[f].acc \in Access
        BY <3>1 DEF Entry
      <3>3. QED
        BY <2>2, <3>2 DEF Held
    <2>3. QED
      BY <2>1, <2>2
  <1>10. HeldMeansTheSame'
    <2>1. CASE held' = held
      BY <2>1, <1>d DEF HeldMeansTheSame, Held
    <2>2. CASE held' = [f \in StdFds |-> [dev |-> fd_list'[f].dev,
                                       acc |-> fd_list'[f].acc, excl |-> FALSE]]
      BY <2>2, <1>3, <1>a DEF HeldMeansTheSame, Held
    <2>3. QED
      BY <2>1, <2>2
  <1>11. QED
    BY <1>1, <1>3, <1>4, <1>5, <1>6, <1>7, <1>8, <1>9, <1>10

(* Each redirection attaches its descriptor and leaves the others. *)
LEMMA RedirectInv ==
  IInv /\ (RedirectStdout \/ RedirectStdin \/ RedirectStderr) => IInv'
  <1> SUFFICES ASSUME IInv, RedirectStdout \/ RedirectStdin \/ RedirectStderr
               PROVE  IInv'
    OBVIOUS
  <1> DEFINE Now(from, to, fd, name, acc) ==
               /\ Redirect(from, to, fd, name, acc)
               /\ from \in {"stdout", "stdin", "stderr"}
               /\ fd \in StdFds /\ name \in Names /\ acc \in Access
  <1>1. ASSUME NEW from, NEW to, NEW fd, NEW name, NEW acc,
               Now(from, to, fd, name, acc)
        PROVE  /\ fd_list' \in [Fds -> Entry] /\ max_fd' \in -1 .. ALT_MAX_FD - 1
               /\ Held' \subseteq StdFds
               /\ \A f \in Held' : held'[f] \in [dev : Names, acc : Access, excl : BOOLEAN]
               /\ HighWater' /\ NoLeak' /\ HeldMeansTheSame' /\ StdInv' /\ MarkInv'
               /\ \A f \in Fds : "EXCL" \notin fd_list'[f].flags
               /\ dev_list = {"null", "uart"} /\ dev_list' = dev_list
               /\ to # "running" => Held' = {}
               /\ Attached(fd, name, acc)' \/ (name \notin dev_list /\ fd_list' = fd_list)
               /\ \A f \in Fds \ {fd} : fd_list'[f] = fd_list[f]
    <2>0. phase # "running" /\ phase # "sys_init" /\ alt_open_fd(fd, name, acc)
          /\ dev_list = {"null", "uart"} /\ dev_list' = dev_list
          /\ fd \in StdFds /\ name \in Names /\ acc \in Access
          /\ Held = {} /\ fd_list \in [Fds -> Entry] /\ fd \in Fds
      BY <1>1, PoolAssumption DEF Redirect, IInv, BootInv, TypeOK, StdFds, Fds
    <2>2. to # "running" => Held' = {}
      BY <2>0, <1>1 DEF Redirect, Held
    <2>3. fd_list' = IF name \in dev_list
                     THEN [fd_list EXCEPT ![fd] = Opened(name, acc, {})]
                     ELSE fd_list
      BY <2>0, RedirectPool
    <2>4. Attached(fd, name, acc)' \/ (name \notin dev_list /\ fd_list' = fd_list)
      BY <2>0, <2>3 DEF Attached, Opened
    <2>5. \A f \in Fds \ {fd} : fd_list'[f] = fd_list[f]
      BY <2>0, <2>3
    <2>6. held' = held \/ held' = [f \in StdFds |-> [dev |-> fd_list'[f].dev,
                                       acc |-> fd_list'[f].acc, excl |-> FALSE]]
      BY <1>1 DEF Redirect
    <2>7. QED
      BY <2>0, <2>2, <2>4, <2>5, <2>6, RedirectKept
  <1>s. /\ StdFds = {0, 1, 2} /\ StdFds \subseteq Fds
        /\ Stdin \in Names /\ Stdout \in Names /\ Stderr \in Names
        /\ "WRONLY" \in Access /\ "RDONLY" \in Access
    BY PoolAssumption, NamesAssumption DEF StdFds, Fds, Access
  <1>2. CASE RedirectStdout
    <2>1. Now("stdout", "stdin", 1, Stdout, "WRONLY")
      BY <1>2, <1>s DEF RedirectStdout
    <2>2. phase = "stdout" /\ phase' = "stdin"
      BY <1>2 DEF RedirectStdout, Redirect
    <2>3. AttachInv'
      BY <1>1, <2>1, <2>2, <1>s DEF AttachInv, IInv, Attached, Unattached
    <2>4. TypeOK' /\ BootInv'
      BY <1>1, <2>1, <2>2, <1>s DEF TypeOK, BootInv
    <2>5. QED
      BY <1>1, <2>1, <2>3, <2>4 DEF IInv
  <1>3. CASE RedirectStdin
    <2>1. Now("stdin", "stderr", 0, Stdin, "RDONLY")
      BY <1>3, <1>s DEF RedirectStdin
    <2>2. phase = "stdin" /\ phase' = "stderr"
      BY <1>3 DEF RedirectStdin, Redirect
    <2>3. AttachInv'
      BY <1>1, <2>1, <2>2, <1>s DEF AttachInv, IInv, Attached, Unattached
    <2>4. TypeOK' /\ BootInv'
      BY <1>1, <2>1, <2>2, <1>s DEF TypeOK, BootInv
    <2>5. QED
      BY <1>1, <2>1, <2>3, <2>4 DEF IInv
  <1>4. CASE RedirectStderr
    <2>1. Now("stderr", "running", 2, Stderr, "WRONLY")
      BY <1>4, <1>s DEF RedirectStderr
    <2>2. phase = "stderr" /\ phase' = "running"
      BY <1>4 DEF RedirectStderr, Redirect
    <2>3. AttachInv'
      BY <1>1, <2>1, <2>2, <1>s DEF AttachInv, IInv, Attached, Unattached
    <2>4. TypeOK' /\ BootInv'
      BY <1>1, <2>1, <2>2, <1>s DEF TypeOK, BootInv
    <2>5. QED
      BY <1>1, <2>1, <2>3, <2>4 DEF IInv
  <1>5. QED
    BY <1>2, <1>3, <1>4

-----------------------------------------------------------------------------
(* In the running program nothing is left to attach or to register: a step   *)
(* keeps BootInv, and AttachInv as long as it keeps the device and direction *)
(* of the standard descriptors.                                              *)
LEMMA RunningKept ==
  ASSUME IInv, Running,
         \A f \in StdFds : /\ fd_list'[f].dev = fd_list[f].dev
                           /\ fd_list'[f].acc = fd_list[f].acc
  PROVE  BootInv' /\ AttachInv' /\ StdInv'
  <1>1. 0 \in StdFds /\ 1 \in StdFds /\ 2 \in StdFds
    BY DEF StdFds
  <1>2. phase = "running" /\ phase' = phase /\ dev_list' = dev_list
    BY DEF Running
  <1>3. BootInv'
    BY <1>2 DEF BootInv, IInv
  <1>4. AttachInv'
    BY <1>1, <1>2 DEF AttachInv, IInv, Attached
  <1>5. StdInv'
    BY DEF StdInv, IInv
  <1>6. QED
    BY <1>3, <1>4, <1>5

LEMMA OpenInv ==
  ASSUME IInv, NEW name \in Names, NEW acc \in Access,
         NEW flags \in SUBSET {"EXCL", "NONBLOCK"}, Open(name, acc, flags)
  PROVE  IInv'
  <1>t. /\ fd_list \in [Fds -> Entry] /\ max_fd \in -1 .. ALT_MAX_FD - 1
        /\ StdFds \subseteq Fds /\ Running
    BY PoolAssumption DEF IInv, TypeOK, StdFds, Fds, Open
  <1>1. ASSUME NEW f \in Fds, OpenSucceeds(f, name),
               fd_list' = [fd_list EXCEPT ![f] = Opened(name, acc, flags)],
               max_fd' = Raised(f),
               held' = With(f, [dev |-> name, acc |-> acc, excl |-> FALSE])
        PROVE  IInv'
    <2> DEFINE new == Opened(name, acc, flags)
    <2>1. /\ f > 2 /\ IsFree(f) /\ f \notin Held
          /\ max_fd' \in 0 .. ALT_MAX_FD - 1 /\ max_fd' >= f /\ max_fd' >= max_fd
      BY <1>1, FoundAbove DEF OpenSucceeds
    <2>2. new \in Entry /\ new.dev = name /\ new.acc = acc /\ name # "none"
          /\ "DEV" \in new.flags /\ "EXCL" \notin new.flags
      BY NamesAssumption DEF Opened, Entry, Flags, FdFlagsMask
    <2>3. \A g \in Fds : fd_list'[g] = IF g = f THEN new ELSE fd_list[g]
      BY <1>1, <1>t
    <2>4. Held' = Held \cup {f}
          /\ held'[f] = [dev |-> name, acc |-> acc, excl |-> FALSE]
          /\ \A g \in Held : held'[g] = held[g]
      BY <1>1, <2>1 DEF With, Held
    <2>5. BootInv' /\ AttachInv' /\ StdInv'
      BY <2>1, <2>3, <1>t, RunningKept DEF StdFds
    <2>6. TypeOK'
      <3>1. fd_list' \in [Fds -> Entry]
        BY <1>1, <1>t, <2>2
      <3>2. \A g \in Held' : held'[g] \in [dev : Names, acc : Access, excl : BOOLEAN]
        <4>1. [dev |-> name, acc |-> acc, excl |-> FALSE]
                \in [dev : Names, acc : Access, excl : BOOLEAN]
          OBVIOUS
        <4>2. QED
          BY <4>1, <2>4 DEF IInv, TypeOK
      <3>3. Held' \subseteq Fds /\ max_fd' \in -1 .. ALT_MAX_FD - 1
        BY <2>1, <2>4 DEF TypeOK, IInv
      <3>4. QED
        BY <3>1, <3>2, <3>3, <1>t DEF TypeOK, IInv, Running
    <2>7. HighWater' /\ MarkInv'
      <3>1. HighWater'
        BY <2>1, <2>3, <1>t DEF HighWater, IInv, IsFree, Fds
      <3>2. MarkInv'
        BY <2>1, <2>2, <2>3, <1>t DEF MarkInv, IInv, Fds
      <3>3. QED
        BY <3>1, <3>2
    <2>8. NoLeak'
      BY <2>2, <2>3, <2>4 DEF NoLeak, IInv, IsFree
    <2>9. HeldMeansTheSame'
      BY <2>1, <2>2, <2>3, <2>4 DEF HeldMeansTheSame, IInv, TypeOK
    <2>10. QED
      BY <2>5, <2>6, <2>7, <2>8, <2>9 DEF IInv
  <1>2. ASSUME NEW f \in Fds, OpenRefused(f, name), UNCHANGED held
        PROVE  IInv'
    <2>1. /\ f > 2 /\ IsFree(f) /\ f \notin Held
          /\ max_fd' \in 0 .. ALT_MAX_FD - 1 /\ max_fd' >= f /\ max_fd' >= max_fd
      BY <1>2, FoundAbove DEF OpenRefused
    <2>2. fd_list' = [fd_list EXCEPT ![f] = Free]
      BY <1>2, <2>1 DEF OpenRefused, Release
    <2>3. \A g \in Fds : fd_list'[g] = IF g = f THEN Free ELSE fd_list[g]
      BY <2>2, <1>t
    <2>4. BootInv' /\ AttachInv' /\ StdInv'
      BY <2>1, <2>3, <1>t, RunningKept DEF StdFds
    <2>5. TypeOK'
      BY <2>1, <2>2, <1>t, <1>2, NamesAssumption
      DEF TypeOK, IInv, Running, Free, Entry, Access, Held
    <2>6. HighWater'
      BY <2>1, <2>3, <1>t DEF HighWater, IInv, IsFree, Fds, Free
    <2>7. MarkInv'
      BY <2>1, <2>3, <1>t DEF MarkInv, IInv, Fds, Free
    <2>8. NoLeak'
      BY <2>1, <2>3, <1>2 DEF NoLeak, IInv, IsFree, Held, Free
    <2>9. HeldMeansTheSame'
      BY <2>1, <2>3, <1>2 DEF HeldMeansTheSame, IInv, TypeOK, Held
    <2>10. QED
      BY <2>4, <2>5, <2>6, <2>7, <2>8, <2>9 DEF IInv
  <1>3. ASSUME OpenHopeless(name), UNCHANGED held
        PROVE  IInv'
    <2>1. UNCHANGED vars
      BY <1>3, <1>t DEF OpenHopeless, Running, vars
    <2>2. QED
      BY <2>1
      DEF vars, IInv, TypeOK, HighWater, NoLeak, HeldMeansTheSame, BootInv, StdInv,
          MarkInv, AttachInv, Unattached, Attached, Held, IsFree
  <1>4. QED
    BY <1>1, <1>2, <1>3 DEF Open

LEMMA CloseInv == ASSUME IInv, NEW f \in Fds, Close(f)
                  PROVE  IInv'
  <1>1. /\ fd_list \in [Fds -> Entry] /\ max_fd' = max_fd /\ Running /\ f \in Held
        /\ fd_list' = IF f > 2 THEN [fd_list EXCEPT ![f] = Free] ELSE fd_list
        /\ Held' = Held \ {f} /\ \A g \in Held' : held'[g] = held[g]
    BY DEF Close, IInv, TypeOK, Release, Without, Held
  <1>2. /\ \A g \in Fds \ {f} : fd_list'[g] = fd_list[g]
        /\ f > 2 => fd_list'[f] = Free
        /\ f \in StdFds => fd_list'[f] = fd_list[f]
        /\ f > 2 <=> f \notin StdFds
    BY <1>1, PoolAssumption DEF StdFds, Fds
  <1>3. BootInv' /\ AttachInv' /\ StdInv'
    <2>1. \A g \in StdFds : fd_list'[g] = fd_list[g]
      BY <1>1, <1>2, PoolAssumption DEF StdFds, Fds
    <2>2. QED
      BY <1>1, <2>1, RunningKept
  <1>4. TypeOK'
    <2>1. fd_list' \in [Fds -> Entry]
      BY <1>1, NamesAssumption DEF Free, Entry, Access
    <2>2. QED
      BY <1>1, <2>1 DEF TypeOK, IInv, Running
  <1>5. HighWater' /\ MarkInv'
    <2>1. HighWater'
      BY <1>1, <1>2 DEF HighWater, IInv, IsFree, Free
    <2>2. MarkInv'
      BY <1>1, <1>2 DEF MarkInv, IInv, Free
    <2>3. QED
      BY <2>1, <2>2
  <1>6. NoLeak'
    BY <1>1, <1>2 DEF NoLeak, IInv, IsFree, Free
  <1>7. HeldMeansTheSame'
    BY <1>1, <1>2 DEF HeldMeansTheSame, IInv, TypeOK
  <1>8. QED
    BY <1>3, <1>4, <1>5, <1>6, <1>7 DEF IInv

(* ioctl and fcntl: only the flags of one held descriptor change, not DEV,   *)
(* and its EXCL goes with what the caller was told.                          *)
LEMMA FlagsInv ==
  ASSUME IInv, Running, NEW f \in Held, NEW fl \in SUBSET Flags, NEW ex \in BOOLEAN,
         fd_list' = [fd_list EXCEPT ![f].flags = fl],
         Held' = Held,
         \A g \in Held : held'[g] = IF g = f THEN [held[f] EXCEPT !.excl = ex]
                                   ELSE held[g],
         max_fd' = max_fd,
         "DEV" \in fl <=> "DEV" \in fd_list[f].flags,
         "EXCL" \in fl <=> ex,
         "EXCL" \in fl => "DEV" \in fl
  PROVE  IInv'
  <1>1. /\ fd_list \in [Fds -> Entry] /\ f \in Fds /\ Held \subseteq Fds
        /\ held[f] \in [dev : Names, acc : Access, excl : BOOLEAN]
    BY DEF IInv, TypeOK
  <1>2. /\ \A g \in Fds : /\ fd_list'[g].dev = fd_list[g].dev
                          /\ fd_list'[g].acc = fd_list[g].acc
                          /\ g # f => fd_list'[g] = fd_list[g]
        /\ fd_list'[f].flags = fl
    BY <1>1 DEF Entry
  <1>3. /\ Held' = Held
        /\ \A g \in Held : /\ held'[g].dev = held[g].dev
                           /\ held'[g].acc = held[g].acc
                           /\ g # f => held'[g] = held[g]
        /\ held'[f].excl = ex
        /\ held'[f] \in [dev : Names, acc : Access, excl : BOOLEAN]
    BY <1>1 DEF Held
  <1>4. BootInv' /\ AttachInv' /\ StdInv'
    <2>1. StdFds \subseteq Fds
      BY PoolAssumption DEF StdFds, Fds
    <2>2. QED
      BY <1>2, <2>1, RunningKept
  <1>5. TypeOK'
    <2>1. fd_list' \in [Fds -> Entry]
      BY <1>1 DEF Entry
    <2>2. \A g \in Held' : held'[g] \in [dev : Names, acc : Access, excl : BOOLEAN]
      BY <1>3 DEF IInv, TypeOK
    <2>3. QED
      BY <1>3, <2>1, <2>2 DEF TypeOK, IInv, Running
  <1>6. HighWater' /\ NoLeak'
    BY <1>2, <1>3 DEF HighWater, NoLeak, IInv, IsFree
  <1>7. MarkInv'
    BY <1>2 DEF MarkInv, IInv
  <1>8. HeldMeansTheSame'
    BY <1>1, <1>2, <1>3 DEF HeldMeansTheSame, IInv
  <1>9. QED
    BY <1>4, <1>5, <1>6, <1>7, <1>8 DEF IInv

LEMMA LockInv == ASSUME IInv, NEW f \in Fds, Exclusive(f) \/ NonExclusive(f)
                 PROVE  IInv'
  <1>1. /\ fd_list \in [Fds -> Entry] /\ f \in Held /\ Running /\ max_fd' = max_fd
        /\ fd_list[f].flags \in SUBSET Flags /\ "DEV" \in fd_list[f].flags
    BY DEF IInv, TypeOK, Entry, Exclusive, NonExclusive
  <1>2. CASE Exclusive(f)
    <2> DEFINE fl == fd_list[f].flags \cup {"EXCL"}
    <2>1. /\ fl \in SUBSET Flags /\ "DEV" \in fl /\ "EXCL" \in fl
      BY <1>1 DEF Flags, FdFlagsMask
    <2>2. fd_list' = [fd_list EXCEPT ![f].flags = fl]
          /\ Held' = Held
          /\ \A g \in Held : held'[g] = IF g = f
                                        THEN [held[f] EXCEPT !.excl = TRUE]
                                        ELSE held[g]
      BY <1>2 DEF Exclusive, Held
    <2>3. QED
      BY <1>1, <2>1, <2>2, FlagsInv
  <1>3. CASE NonExclusive(f)
    <2> DEFINE fl == fd_list[f].flags \ {"EXCL"}
    <2>1. /\ fl \in SUBSET Flags /\ "DEV" \in fl /\ "EXCL" \notin fl
      BY <1>1
    <2>2. fd_list' = [fd_list EXCEPT ![f].flags = fl]
          /\ Held' = Held
          /\ \A g \in Held : held'[g] = IF g = f
                                        THEN [held[f] EXCEPT !.excl = FALSE]
                                        ELSE held[g]
      BY <1>3 DEF NonExclusive, Held
    <2>3. QED
      BY <1>1, <2>1, <2>2, FlagsInv
  <1>4. QED
    BY <1>2, <1>3

LEMMA FcntlInv == ASSUME IInv, NEW f \in Fds, NEW flags \in SUBSET Flags,
                         Fcntl(f, flags)
                  PROVE  IInv'
  <1> DEFINE fl == (fd_list[f].flags \ {"NONBLOCK"}) \cup (flags \cap {"NONBLOCK"})
  <1>1. /\ fd_list \in [Fds -> Entry] /\ f \in Held /\ Running /\ max_fd' = max_fd
        /\ fd_list[f].flags \in SUBSET Flags
        /\ held[f] \in [dev : Names, acc : Access, excl : BOOLEAN]
        /\ held[f].excl \in BOOLEAN
    BY DEF IInv, TypeOK, Entry, Fcntl
  <1>2. /\ fl \in SUBSET Flags /\ fd_list' = [fd_list EXCEPT ![f].flags = fl]
        /\ "DEV" \in fl <=> "DEV" \in fd_list[f].flags
        /\ "EXCL" \in fl <=> "EXCL" \in fd_list[f].flags
    BY <1>1 DEF Fcntl, Flags
  <1>3. /\ "EXCL" \in fl <=> held[f].excl
        /\ "EXCL" \in fl => "DEV" \in fl
    BY <1>1, <1>2 DEF IInv, HeldMeansTheSame, MarkInv
  <1>4. Held' = Held
        /\ \A g \in Held : held'[g] = IF g = f
                                      THEN [held[f] EXCEPT !.excl = held[f].excl]
                                      ELSE held[g]
    BY <1>1 DEF Fcntl, Held
  <1>5. QED
    BY <1>1, <1>2, <1>3, <1>4, FlagsInv

-----------------------------------------------------------------------------
LEMMA NextInv == IInv /\ [Next]_vars => IInv'
  <1> SUFFICES ASSUME IInv, [Next]_vars PROVE IInv'
    OBVIOUS
  <1>1. CASE alt_sys_init
    BY <1>1, SysInitInv
  <1>2. CASE RedirectStdout \/ RedirectStdin \/ RedirectStderr
    BY <1>2, RedirectInv
  <1>3. CASE \E name \in Names, acc \in Access,
               flags \in SUBSET {"EXCL", "NONBLOCK"} : Open(name, acc, flags)
    BY <1>3, OpenInv
  <1>4. CASE \E f \in Fds : Close(f) \/ Exclusive(f) \/ NonExclusive(f)
    BY <1>4, CloseInv, LockInv
  <1>5. CASE \E f \in Fds, flags \in SUBSET Flags : Fcntl(f, flags)
    BY <1>5, FcntlInv
  <1>6. CASE UNCHANGED vars
    BY <1>6
    DEF vars, IInv, TypeOK, HighWater, NoLeak, HeldMeansTheSame, BootInv, StdInv,
        MarkInv, AttachInv, Unattached, Attached, Held, IsFree
  <1>7. QED
    BY <1>1, <1>2, <1>3, <1>4, <1>5, <1>6 DEF Next

LEMMA Inductive == Spec => []IInv
  BY InitInv, NextInv, PTL DEF Spec

-----------------------------------------------------------------------------
(* The variables of the pool stay in their types. *)
THEOREM TypeCorrect == Spec => []TypeOK
  BY Inductive, PTL DEF IInv

(* No descriptor above alt_max_fd is ever in use, so no search misses one. *)
THEOREM SearchesSeeAll == Spec => []HighWater
  BY Inductive, PTL DEF IInv

(* Descriptors above 2 are out of the pool exactly while a caller holds them, *)
(* refused opens and start-up included.                                      *)
THEOREM NothingLeaks == Spec => []NoLeak
  BY Inductive, PTL DEF IInv

(* A descriptor keeps the device, direction and lock of its caller. *)
THEOREM HeldKeeps == Spec => []HeldMeansTheSame
  BY Inductive, PTL DEF IInv

(* From the end of start-up printf and scanf reach the devices of system.h,  *)
(* or nothing when they are not registered.                                  *)
THEOREM StdioReaches == Spec => []StdioAttached
  <1>1. IInv => StdioAttached
    <2> SUFFICES ASSUME IInv, phase = "running" PROVE StdioAttached
      BY DEF StdioAttached
    <2>1. dev_list = {"null", "uart"}
      BY DEF IInv, BootInv
    <2>2. /\ Attached(1, Stdout, "WRONLY") /\ Attached(0, Stdin, "RDONLY")
          /\ Attached(2, Stderr, "WRONLY")
      BY DEF IInv, AttachInv
    <2>3. QED
      BY <2>1, <2>2 DEF StdioAttached, Attached, Reads, Writes
  <1>2. QED
    BY <1>1, Inductive, PTL

(* As long as someone holds the lock of a device, no open of it succeeds. *)
THEOREM LockIsKept == Spec => LockKeepsOut
  <1>1. IInv /\ [Next]_vars =>
          [\A g \in Held : held[g].excl =>
             \A f \in (DOMAIN held') \ Held : held'[f].dev # held[g].dev]_vars
    <2> SUFFICES ASSUME IInv, Next, NEW g \in Held, held[g].excl,
                        NEW f \in (DOMAIN held') \ Held
                 PROVE  held'[f].dev # held[g].dev
      OBVIOUS
    <2>1. phase = "running" /\ g \in Fds /\ "EXCL" \in fd_list[g].flags
          /\ fd_list[g].dev = held[g].dev
      BY DEF IInv, BootInv, TypeOK, HeldMeansTheSame
    <2>2. PICK name \in Names, acc \in Access,
               flags \in SUBSET {"EXCL", "NONBLOCK"} : Open(name, acc, flags)
      BY <2>1
      DEF Next, alt_sys_init, RedirectStdout, RedirectStdin, RedirectStderr,
          Redirect, Close, Exclusive, NonExclusive, Fcntl, Held, Without
    <2>3. PICK h \in Fds :
            /\ OpenSucceeds(h, name)
            /\ held' = With(h, [dev |-> name, acc |-> acc, excl |-> FALSE])
      BY <2>2 DEF Open, Held
    <2>4. f = h /\ held'[f].dev = name /\ g # h
      BY <2>3 DEF With, Held
    <2>5. QED
      BY <2>1, <2>3, <2>4, NoLockSeen DEF OpenSucceeds
  <1>2. QED
    BY <1>1, Inductive, PTL DEF Spec, LockKeepsOut
=============================================================================

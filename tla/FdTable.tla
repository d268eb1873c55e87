------------------------------ MODULE FdTable -------------------------------
(***************************************************************************)
(* The file descriptor pool of the hardware abstraction layer (HAL/src):    *)
(* how the start-up code attaches stdin, stdout and stderr to the JTAG      *)
(* UART, and what open, close, ioctl and fcntl do to the pool afterwards.   *)
(* printf of the keyboard firmware passes through descriptor 1.             *)
(*                                                                         *)
(* No file system is registered in this build, so alt_find_file never finds *)
(* one and every descriptor belongs to a device.  There is one thread: the   *)
(* semaphore of the pool is compiled away.  O_APPEND goes the way of         *)
(* O_NONBLOCK and is left out.                                              *)
(***************************************************************************)
EXTENDS Integers

CONSTANTS
    ALT_MAX_FD,               \* size of the pool
    Names,                    \* what callers pass to open
    Stdin, Stdout, Stderr     \* ALT_STDIN, ALT_STDOUT, ALT_STDERR

ASSUME PoolAssumption == ALT_MAX_FD \in Nat /\ ALT_MAX_FD > 3
ASSUME NamesAssumption == /\ {"null", "uart", Stdin, Stdout, Stderr} \subseteq Names
                          /\ "none" \notin Names

Fds == 0 .. ALT_MAX_FD - 1
StdFds == 0 .. 2
Access == {"RDONLY", "WRONLY", "RDWR"}
(* ALT_FD_DEV and ALT_FD_EXCL are the bits that open does not let through.  *)
FdFlagsMask == {"DEV", "EXCL"}
Flags == FdFlagsMask \cup {"NONBLOCK"}

VARIABLES
    fd_list,      \* alt_fd_list
    max_fd,       \* alt_max_fd, the high-water mark; -1 before the first open
    dev_list,     \* the names on alt_dev_list
    phase,        \* how far the start-up code is
    held          \* what each caller of open believes of its descriptor

vars == <<fd_list, max_fd, dev_list, phase, held>>

Free == [dev |-> "none", acc |-> "RDONLY", flags |-> {}]
Null == [dev |-> "null", acc |-> "RDONLY", flags |-> {}]

(* alt_dev_null is the only device before alt_sys_init. *)
Init ==
    /\ fd_list = [f \in Fds |-> IF f \in StdFds THEN Null ELSE Free]
    /\ max_fd = -1
    /\ dev_list = {"null"}
    /\ phase = "sys_init"
    /\ held = [f \in {} |-> Free]

-----------------------------------------------------------------------------
(* alt_get_fd takes the first free descriptor. *)
IsFree(f) == f \in Fds /\ fd_list[f].dev = "none"
FirstFree(f) == IsFree(f) /\ \A g \in 0 .. f - 1 : ~IsFree(g)
PoolFull == \A f \in Fds : ~IsFree(f)

\* A slip (PROJECT.json "mutants"): the mark is where the last search ended.
Raised_Last(f) == f

Raised(f) == IF f > max_fd THEN f ELSE max_fd

\* A slip: one short of the mark.
Locked_Short(f, name) ==
    \E g \in 0 .. Raised(f) - 1 : /\ g # f /\ fd_list[g].dev = name
                                  /\ "EXCL" \in fd_list[g].flags

(* alt_file_locked: another descriptor up to the mark has the device locked. *)
Locked(f, name) ==
    \E g \in 0 .. Raised(f) : /\ g # f /\ fd_list[g].dev = name
                              /\ "EXCL" \in fd_list[g].flags

Opened(name, acc, flags) ==
    [dev |-> name, acc |-> acc, flags |-> (flags \ FdFlagsMask) \cup {"DEV"}]

\* A slip: stdin, stdout and stderr go back to the pool.
Release_All(f) == [fd_list EXCEPT ![f] = Free]

(* alt_release_fd never frees the first three. *)
Release(f) == IF f > 2 THEN [fd_list EXCEPT ![f] = Free] ELSE fd_list

(* Neither driver has an open() callback, so an open succeeds when the name  *)
(* is registered, a descriptor is free and nobody has locked the device.     *)
OpenSucceeds(f, name) == /\ name \in dev_list /\ FirstFree(f)
                         /\ ~Locked(f, name)

\* A slip: the descriptor of a refused open is never given back.
OpenRefused_Leak(f, name) ==
    /\ name \in dev_list /\ FirstFree(f) /\ Locked(f, name)
    /\ fd_list' = [fd_list EXCEPT ![f] = Opened(name, "RDONLY", {})]
    /\ max_fd' = Raised(f)

\* A slip: the mark counts descriptors instead of naming the highest.
OpenRefused_Count(f, name) ==
    /\ name \in dev_list /\ FirstFree(f) /\ Locked(f, name)
    /\ fd_list' = Release(f)
    /\ max_fd' = Raised(f) + 1

(* A locked device: the descriptor was taken, the mark raised, and the       *)
(* descriptor is released again.                                             *)
OpenRefused(f, name) ==
    /\ name \in dev_list /\ FirstFree(f) /\ Locked(f, name)
    /\ fd_list' = Release(f)
    /\ max_fd' = Raised(f)

(* ENODEV or EMFILE: alt_release_fd of a negative number does nothing. *)
OpenHopeless(name) == /\ name \notin dev_list \/ PoolFull
                      /\ UNCHANGED <<fd_list, max_fd>>

-----------------------------------------------------------------------------
(* Start-up: alt_sys_init registers the UART, then alt_io_redirect attaches  *)
(* stdout, stdin and stderr, in this order.                                  *)
alt_sys_init ==
    /\ phase = "sys_init"
    /\ dev_list' = dev_list \cup {"uart"}
    /\ phase' = "stdout"
    /\ UNCHANGED <<fd_list, max_fd, held>>

(* Open under a borrowed descriptor, copy it over fd, release the borrowed   *)
(* one; a failed open leaves fd as it is.                                    *)
alt_open_fd(fd, name, acc) ==
    \/ \E old \in Fds : /\ OpenSucceeds(old, name)
                        /\ fd_list' = [fd_list EXCEPT
                                         ![fd] = Opened(name, acc, {})]
                        /\ max_fd' = Raised(old)
    \/ \E old \in Fds : OpenRefused(old, name)
    \/ OpenHopeless(name)

Redirect(from, to, fd, name, acc) ==
    /\ phase = from /\ phase' = to
    /\ alt_open_fd(fd, name, acc)
    /\ held' = IF to = "running"
               THEN [f \in StdFds |-> [dev |-> fd_list'[f].dev,
                                       acc |-> fd_list'[f].acc, excl |-> FALSE]]
               ELSE held
    /\ UNCHANGED dev_list

RedirectStdout == Redirect("stdout", "stdin", 1, Stdout, "WRONLY")
RedirectStdin == Redirect("stdin", "stderr", 0, Stdin, "RDONLY")
RedirectStderr == Redirect("stderr", "running", 2, Stderr, "WRONLY")

-----------------------------------------------------------------------------
(* The running program. *)
Running == phase = "running" /\ UNCHANGED <<phase, dev_list>>

Held == DOMAIN held
With(f, r) == [g \in Held \cup {f} |-> IF g = f THEN r ELSE held[g]]
Without(f) == [g \in Held \ {f} |-> held[g]]

Open(name, acc, flags) ==
    /\ Running
    /\ \/ \E f \in Fds :
            /\ OpenSucceeds(f, name)
            /\ fd_list' = [fd_list EXCEPT ![f] = Opened(name, acc, flags)]
            /\ max_fd' = Raised(f)
            /\ held' = With(f, [dev |-> name, acc |-> acc, excl |-> FALSE])
       \/ /\ \/ \E f \in Fds : OpenRefused(f, name)
             \/ OpenHopeless(name)
          /\ UNCHANGED held

(* The driver's close may fail; the descriptor is released all the same. *)
Close(f) ==
    /\ Running /\ f \in Held
    /\ fd_list' = Release(f)
    /\ held' = Without(f)
    /\ UNCHANGED max_fd

Alone(f) == \A g \in 0 .. max_fd - 1 : g # f => fd_list[g].dev # fd_list[f].dev

(* ioctl TIOCEXCL: alt_fd_lock looks at the descriptors below the mark.  A   *)
(* descriptor that open never marked as a device's is left to the driver.    *)
Exclusive(f) ==
    /\ Running /\ f \in Held
    /\ "DEV" \in fd_list[f].flags /\ Alone(f)
    /\ fd_list' = [fd_list EXCEPT ![f].flags = @ \cup {"EXCL"}]
    /\ held' = [held EXCEPT ![f].excl = TRUE]
    /\ UNCHANGED max_fd

(* ioctl TIOCNXCL *)
NonExclusive(f) ==
    /\ Running /\ f \in Held
    /\ "DEV" \in fd_list[f].flags
    /\ fd_list' = [fd_list EXCEPT ![f].flags = @ \ {"EXCL"}]
    /\ held' = [held EXCEPT ![f].excl = FALSE]
    /\ UNCHANGED max_fd

\* A slip: F_SETFL replaces all flags.
Fcntl_All(f, flags) ==
    /\ Running /\ f \in Held
    /\ fd_list' = [fd_list EXCEPT ![f].flags = flags]
    /\ UNCHANGED <<held, max_fd>>

(* fcntl F_SETFL changes O_NONBLOCK and no other bit. *)
Fcntl(f, flags) ==
    /\ Running /\ f \in Held
    /\ fd_list' = [fd_list EXCEPT ![f].flags =
                     (@ \ {"NONBLOCK"}) \cup (flags \cap {"NONBLOCK"})]
    /\ UNCHANGED <<held, max_fd>>

Next ==
    \/ alt_sys_init \/ RedirectStdout \/ RedirectStdin \/ RedirectStderr
    \/ \E name \in Names, acc \in Access, flags \in SUBSET {"EXCL", "NONBLOCK"} :
         Open(name, acc, flags)
    \/ \E f \in Fds : Close(f) \/ Exclusive(f) \/ NonExclusive(f)
    \/ \E f \in Fds, flags \in SUBSET Flags : Fcntl(f, flags)

Spec == Init /\ [][Next]_vars

-----------------------------------------------------------------------------
(* read and write vector to the driver of the descriptor's device: null has  *)
(* only a write function, the UART has both.  "refused" is EACCES.           *)
Reads(f) == LET fd == fd_list[f]
            IN  IF fd.acc # "WRONLY" /\ fd.dev = "uart" THEN fd.dev ELSE "refused"
Writes(f) == LET fd == fd_list[f]
             IN  IF fd.acc # "RDONLY" THEN fd.dev ELSE "refused"

-----------------------------------------------------------------------------
(* Properties *)

(* The variables stay in their types. *)
Entry == [dev : Names \cup {"none"}, acc : Access, flags : SUBSET Flags]
TypeOK ==
    /\ fd_list \in [Fds -> Entry]
    /\ max_fd \in -1 .. ALT_MAX_FD - 1
    /\ dev_list \in {{"null"}, {"null", "uart"}}
    /\ phase \in {"sys_init", "stdout", "stdin", "stderr", "running"}
    /\ Held \subseteq Fds
    /\ \A f \in Held : held[f] \in [dev : Names, acc : Access, excl : BOOLEAN]

(* Every search of the pool stops at alt_max_fd, so no descriptor above it   *)
(* may be in use: a lock up there would not be seen by open.                 *)
HighWater == \A f \in Fds : f > max_fd => IsFree(f) \/ f \in StdFds

(* A descriptor above 2 is out of the pool exactly while a caller holds it:  *)
(* neither a refused open, nor start-up, nor a failed close may lose one.    *)
NoLeak == \A f \in Fds \ StdFds : IsFree(f) <=> f \notin Held

(* A descriptor goes on meaning what its caller asked open for, whatever is  *)
(* done to other descriptors: same device, same direction, same lock.        *)
HeldMeansTheSame ==
    \A f \in Held : /\ fd_list[f].dev = held[f].dev
                    /\ fd_list[f].acc = held[f].acc
                    /\ "EXCL" \in fd_list[f].flags <=> held[f].excl

(* Whoever has locked a device keeps every later open of it out: at most the *)
(* descriptors that were there already stay.                                 *)
LockKeepsOut ==
    [][\A g \in Held : held[g].excl =>
         \A f \in (DOMAIN held') \ Held : held'[f].dev # held[g].dev]_vars

(* From the end of start-up, whatever the program opens and closes, printf   *)
(* and scanf reach the devices named in system.h, or nothing when the name   *)
(* is not registered (alt_io_redirect.c:79).                                 *)
StdioAttached ==
    phase = "running" =>
      /\ Writes(1) = IF Stdout \in dev_list THEN Stdout ELSE "refused"
      /\ Writes(2) = IF Stderr \in dev_list THEN Stderr ELSE "refused"
      /\ Reads(0) = IF Stdin = "uart" THEN "uart" ELSE "refused"

(* The comment of alt_fd_lock: the lock is granted if there are no other     *)
(* open file descriptors which reference the same device.                    *)
GrantedAlone ==
    [][\A f \in Held : ("EXCL" \notin fd_list[f].flags /\ "EXCL" \in fd_list'[f].flags)
         => \A g \in Fds \ {f} : fd_list[g].dev # fd_list[f].dev]_vars
=============================================================================

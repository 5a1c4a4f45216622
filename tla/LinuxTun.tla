------------------------------ MODULE LinuxTun ------------------------------
(***************************************************************************)
(* LinuxTunVirtualInterface (src/linux_tun_virtual_interface.cpp), the     *)
(* server's interface: fd_ and the calls of the kernel, one by one.        *)
(*                                                                         *)
(* The main thread opens, reads and writes; close() is called by it and by *)
(* the signal handler's thread.  fd_ is a plain int that is tested and     *)
(* then passed to the kernel: with another thread in close() the kernel    *)
(* gets the value that was tested or the one that is there now, and other  *)
(* parts of the process may have been given the number since.              *)
(***************************************************************************)
EXTENDS Naturals

CONSTANTS Fds,           \* descriptors of the process that matter
          NoFd           \* -1

ASSUME FdAssumption == NoFd \notin Fds

Callers == {"main", "handler"}

VARIABLES fd,            \* fd_
          owner,         \* owner[f]: what the kernel has at descriptor f
          at,            \* at[t]: where caller t is inside the interface
          seen,          \* seen[t]: the value of fd_ that t has tested
          next,          \* next[t]: where close() of t returns to
          overlapped,    \* history: two callers were inside at the same time
          strayed        \* history: callers that used a descriptor of others

tunVars == <<fd, owner, at, seen, next, overlapped, strayed>>

Returned == {"done", "failed"}
Inside(t) == at[t] \notin Returned \cup {"out"}

TunInit ==
    /\ fd = NoFd
    /\ owner = [f \in Fds |-> "free"]
    /\ at = [t \in Callers |-> "out"]
    /\ seen = [t \in Callers |-> NoFd]
    /\ next = [t \in Callers |-> "done"]
    /\ overlapped = FALSE
    /\ strayed = {}

-----------------------------------------------------------------------------

\* A call begins; Leave is the caller's step for its result.
Enter(t, place) ==
    /\ at[t] = "out"
    /\ at' = [at EXCEPT ![t] = place]
    /\ overlapped' = (overlapped \/ \E u \in Callers \ {t} : Inside(u))

Leave(t) ==
    /\ at[t] \in Returned
    /\ at' = [at EXCEPT ![t] = "out"]
    /\ UNCHANGED <<fd, owner, seen, next, overlapped, strayed>>

\* The kernel is called with the value tested or with the present one.
Passed(t) == {seen[t], fd}
OwnerOf(f) == IF f = NoFd THEN "free" ELSE owner[f]
Stray(t, f) == strayed' = IF OwnerOf(f) = "other" THEN strayed \cup {t} ELSE strayed

-----------------------------------------------------------------------------
(* close() *)

TunClose(t) ==
    /\ Enter(t, "test")
    /\ next' = [next EXCEPT ![t] = "done"]
    /\ UNCHANGED <<fd, owner, seen, strayed>>

CloseTestResets(t) ==
    /\ at[t] = "test"
    /\ at' = [at EXCEPT ![t] = IF fd = NoFd THEN next[t] ELSE "sysClose"]
    /\ fd' = NoFd
    /\ UNCHANGED <<owner, seen, next, overlapped, strayed>>

CloseTest(t) ==
    /\ at[t] = "test"
    /\ at' = [at EXCEPT ![t] = IF fd = NoFd THEN next[t] ELSE "sysClose"]
    /\ seen' = [seen EXCEPT ![t] = fd]
    /\ UNCHANGED <<fd, owner, next, overlapped, strayed>>

SysClose(t) ==
    /\ at[t] = "sysClose"
    /\ \E f \in Passed(t) :
          /\ owner' = [g \in Fds |-> IF g = f THEN "free" ELSE owner[g]]
          /\ Stray(t, f)
    /\ at' = [at EXCEPT ![t] = "forget"]
    /\ UNCHANGED <<fd, seen, next, overlapped>>

CloseKeeps(t) ==
    /\ at[t] = "forget"
    /\ at' = [at EXCEPT ![t] = next[t]]
    /\ UNCHANGED <<fd, owner, seen, next, overlapped, strayed>>

CloseForget(t) ==
    /\ at[t] = "forget"
    /\ fd' = NoFd
    /\ at' = [at EXCEPT ![t] = next[t]]
    /\ UNCHANGED <<owner, seen, next, overlapped, strayed>>

-----------------------------------------------------------------------------
(* open() *)

\* It begins with close().
TunOpen(t) ==
    /\ Enter(t, "test")
    /\ next' = [next EXCEPT ![t] = "sysOpen"]
    /\ UNCHANGED <<fd, owner, seen, strayed>>

SysOpen(t) ==
    /\ at[t] = "sysOpen"
    /\ \/ \E f \in Fds :
             /\ owner[f] = "free"
             /\ owner' = [owner EXCEPT ![f] = "tun"]
             /\ fd' = f
             /\ seen' = [seen EXCEPT ![t] = f]
             /\ at' = [at EXCEPT ![t] = "ioctl"]
       \/ /\ fd' = NoFd
          /\ at' = [at EXCEPT ![t] = "failed"]
          /\ UNCHANGED <<owner, seen>>
    /\ UNCHANGED <<next, overlapped, strayed>>

\* TUNSETIFF; when it fails, or the name is too long, open() closes again.
Ioctl(t) ==
    /\ at[t] = "ioctl"
    /\ \E f \in Passed(t) :
          /\ Stray(t, f)
          /\ \/ OwnerOf(f) = "tun" /\ at' = [at EXCEPT ![t] = "done"] /\ UNCHANGED next
             \/ /\ at' = [at EXCEPT ![t] = "test"]
                /\ next' = [next EXCEPT ![t] = "failed"]
    /\ UNCHANGED <<fd, owner, seen, overlapped>>

-----------------------------------------------------------------------------
(* read_packet() and write_packet() *)

TunTransfer(t) ==
    /\ Enter(t, IF fd = NoFd THEN "failed" ELSE "transfer")
    /\ seen' = [seen EXCEPT ![t] = fd]
    /\ UNCHANGED <<fd, owner, next, strayed>>

\* A descriptor that is open may have nothing to read or take less than is written.
SysTransfer(t) ==
    /\ at[t] = "transfer"
    /\ \E f \in Passed(t) :
          /\ Stray(t, f)
          /\ \/ OwnerOf(f) # "free" /\ at' = [at EXCEPT ![t] = "done"]
             \/ at' = [at EXCEPT ![t] = "failed"]
    /\ UNCHANGED <<fd, owner, seen, next, overlapped>>

TunProceed(t) ==
    \/ CloseTest(t) \/ SysClose(t) \/ CloseForget(t)
    \/ SysOpen(t) \/ Ioctl(t) \/ SysTransfer(t)

\* The other parts of the process open and close descriptors of their own.
OthersOpen(f) ==
    /\ owner[f] \in {"free", "other"}
    /\ owner' = [owner EXCEPT ![f] = IF owner[f] = "free" THEN "other" ELSE "free"]
    /\ UNCHANGED <<fd, at, seen, next, overlapped, strayed>>

-----------------------------------------------------------------------------
(* Properties. *)

\* "::close(fd_); fd_ = -1;": after close() no call reaches the number again,
\* which may belong to a socket of MsQuic by then, unless the two threads were
\* inside the interface at the same time.
OnlyOwnDescriptor == strayed # {} => overlapped
=============================================================================

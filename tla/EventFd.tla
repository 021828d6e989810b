------------------------------ MODULE EventFd ------------------------------
(***************************************************************************)
(* td::detail::EventFdLinux (td/utils/port/detail/EventFdLinux.cpp): the   *)
(* counter of an eventfd.  The flags that a poller keeps for it are not    *)
(* part of this module: wait() asks the kernel.                            *)
(***************************************************************************)
EXTENDS Naturals

VARIABLE fd  (* the counter: release() calls since the last acquire()       *)

FdInit == fd = 0

(* release: write(1).                                                       *)
FdRelease == fd' = fd + 1

(* acquire: read(), which takes the whole counter, or EAGAIN if it is 0.    *)
FdAcquire == fd' = 0

(* What wait() and a poll loop wait for.                                    *)
FdReady == fd > 0
=============================================================================

-------------------------------- MODULE Poll --------------------------------
(***************************************************************************)
(* What impl::poll makes of poll(2) (src/impl/linux.cpp) and of WSAPoll    *)
(* (src/impl/windows.cpp) for a netsock::poll_list (PollList).             *)
(*                                                                         *)
(* What the kernel has to report of a kernel socket is external.  POLLERR  *)
(* is left out: like POLLHUP it is reported whether asked for or not.      *)
(***************************************************************************)
EXTENDS Socket

CONSTANT Askable \* the flags that can be asked for, of "in" and "out"

ASSUME PollAssumption == Askable \subseteq {"in", "out"}

VARIABLE backend \* "linux" or "windows", from the beginning

Readiness == SUBSET (Askable \cup {"hang"})

(* POLLHUP cannot be asked for.                                            *)
MapPollFlags(events) == events \cap Askable

(* Mutant: the inverse of map_poll_flags, so that POLLHUP maps to nothing. *)
MapPollEventsInverse(revents) == revents \cap Askable

(* POLLNVAL maps to nothing, and on Windows POLLHUP does neither.          *)
MapPollEvents(revents) ==
  revents \ (IF backend = "linux" THEN {"nval"} ELSE {"nval", "hang"})

(* The revents of the descriptor number h, when ready is what there is to  *)
(* report of each kernel socket.  -1 is skipped; a number that is not open *)
(* is reported at once.                                                    *)
Revents(h, events, ready) ==
  IF h = Invalid THEN {}
  ELSE IF table[h] = None THEN {"nval"}
  ELSE ready[table[h]] \cap (MapPollFlags(events) \cup {"hang"})

=============================================================================

---------------------------- MODULE SocketTable ----------------------------
(***************************************************************************)
(* The lwIP descriptor table, as the firmware uses it through socket(),    *)
(* accept() and close().  lwIP is not part of the repository: what is       *)
(* modelled is what the callers can tell apart.                            *)
(*                                                                         *)
(*   - socket() and accept() take the first free entry of the table;        *)
(*   - close() frees the entry with that number, whoever opened it, and     *)
(*     is a no-op (EBADF) on an entry that is free already.                 *)
(*                                                                         *)
(* A table maps every descriptor number to the party that opened the        *)
(* connection now behind it, or to Unused.                                  *)
(***************************************************************************)
EXTENDS Integers

CONSTANT NumFds           \* CONFIG_LWIP_MAX_SOCKETS

ASSUME NumFdsAssumption == NumFds \in Nat \ {0}

Fds == 0 .. NumFds - 1

NoFd == -1                \* the "no socket" value of every sock field

Unused == "unused"

EmptyTable == [f \in Fds |-> Unused]

\* f is the entry alloc_socket() would hand out.
IsNextFd(tab, f) ==
    /\ tab[f] = Unused
    /\ \A g \in Fds : tab[g] = Unused => f <= g

OpenAs(tab, f, party) == [tab EXCEPT ![f] = party]

Close(tab, f) == [g \in Fds |-> IF g = f THEN Unused ELSE tab[g]]

OpenedBy(tab, party) == {f \in Fds : tab[f] = party}

=============================================================================

--------------------------- MODULE MCCommunicator ---------------------------
(***************************************************************************)
(* A small instance of Communicator for TLC: days of four hours of seven   *)
(* minutes, and work from the second hour to the third.                    *)
(***************************************************************************)
EXTENDS Communicator

\* A Thursday morning, a Friday afternoon.
ThursdayOrFriday == {3 * DayLength + HourLength - 2, 4 * DayLength + 2 * HourLength + 1}

Give(m, p, q, r) ==
    [minutes |-> m, posts |-> p, proposals |-> q, restarts |-> r]

\* Many posts for a while; one proposal and the days that follow.
SomeBudgets == {Give(12, 6, 0, 1), Give(130, 0, 1, 1)}
=============================================================================

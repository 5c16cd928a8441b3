--------------------------- MODULE MC_DhcpSystem ---------------------------
(* Model-checking instances of DhcpSystem: one client, or two clients     *)
(* either on two links or sharing one.                                     *)
EXTENDS DhcpSystem

CONSTANTS c1, c2, l1, l2, m1, m2, noLink

MCLinks == {l1, l2}
MCMacs == {m1, m2}

TwoClients == {c1, c2}

\* One client per link.
SeparateLinks == [c \in TwoClients |-> IF c = c1 THEN l1 ELSE l2]
\* Both clients on link l1.
SharedLink == [c \in TwoClients |-> l1]
\* Every client has its own MAC.
OwnMacs == [c \in TwoClients |-> IF c = c1 THEN m1 ELSE m2]
\* The same device seen on two interfaces (the case lease.h describes).
SameMac == [c \in TwoClients |-> m1]
=============================================================================

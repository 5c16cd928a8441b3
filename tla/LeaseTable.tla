----------------------------- MODULE LeaseTable -----------------------------
(***************************************************************************)
(* What the server's lease table promises (the specification's            *)
(* getOfferAddress and ServerLeaseTable), with no cursor and no order of  *)
(* allocation: a key without an address may be given any address of the  *)
(* pool [PoolStart, PoolEnd] that does not look like a network or         *)
(* broadcast address and that no other key holds; a key never loses or    *)
(* changes its address.  A refusal (pool exhausted) or a repeated request *)
(* leaves the table as it is, so it is a stuttering step.                 *)
(***************************************************************************)
EXTENDS Naturals

CONSTANTS Keys, PoolStart, PoolEnd

VARIABLE table   \* key -> address, 0 when the key has none

\* An address whose low byte is 0x00 or 0xFF.
NetOrBroadcast(a) == a % 256 \in {0, 255}

Held == {table[k] : k \in Keys} \ {0}

\* The addresses that may still be handed out.
Free == {a \in PoolStart..PoolEnd : ~NetOrBroadcast(a)} \ Held

TableInit == table = [k \in Keys |-> 0]

Assign(k) ==
    /\ table[k] = 0
    /\ \E a \in Free : table' = [table EXCEPT ![k] = a]

TableNext == \E k \in Keys : Assign(k)

TableSpec == TableInit /\ [][TableNext]_table
=============================================================================

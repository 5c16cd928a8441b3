----------------------- MODULE DhcpAllocator_proofs -----------------------
(***************************************************************************)
(* Proofs about the allocator of DhcpAllocator: for every pool and every  *)
(* set of interfaces and MACs, no two keys ever share an address, and a   *)
(* key's address never changes.                                            *)
(***************************************************************************)
EXTENDS DhcpAllocator, TLAPS

USE PoolAssumption

(***************************************************************************)
(* AllocInv holds initially: the table starts empty.                      *)
(***************************************************************************)
LEMMA AllocInitInv == AllocInit => AllocInv
<1> SUFFICES ASSUME AllocInit PROVE AllocInv
  OBVIOUS
<1>1. AllocTypeOK
  BY DEF AllocInit, AllocTypeOK
<1>2. \A k \in Keys : leases[k] = 0
  BY DEF AllocInit
<1>3. QED
  BY <1>1, <1>2 DEF AllocInv, LeaseBelowCursor, LeaseUnique

(***************************************************************************)
(* A returning call of getOfferAddress preserves AllocInv: a fresh        *)
(* address is the candidate, above every address already handed out, and *)
(* the cursor moves past it.                                               *)
(***************************************************************************)
LEMMA AllocStepInv ==
    ASSUME AllocInv, NEW k \in Keys, ~AllocHangs(k),
           leases' = LeasesAfter(k), cursor' = CursorAfter(k),
           UNCHANGED hung
    PROVE  AllocInv'
<1> USE DEF AllocInv, AllocTypeOK
<1>1. CASE AllocFresh(k)
  <2>1. leases' = [leases EXCEPT ![k] = Candidate] /\ cursor' = cursor + 1
    BY <1>1 DEF LeasesAfter, CursorAfter
  <2>2. AllocTypeOK'
    BY <2>1 DEF Candidate
  <2>3. LeaseBelowCursor'
    BY <1>1, <2>1 DEF LeaseBelowCursor, AllocFresh, Candidate
  <2>4. LeaseUnique'
    BY <1>1, <2>1 DEF LeaseUnique, LeaseBelowCursor, AllocFresh, Candidate
  <2>5. QED BY <2>2, <2>3, <2>4
<1>2. CASE ~AllocFresh(k)
  <2>1. leases' = leases /\ cursor' = cursor
    BY <1>2 DEF LeasesAfter, CursorAfter
  <2>2. QED
    BY <2>1 DEF LeaseBelowCursor, LeaseUnique, Candidate
<1>3. QED BY <1>1, <1>2

(***************************************************************************)
(* AllocInv is inductive for the allocator's next-state relation.         *)
(***************************************************************************)
LEMMA AllocNextInv == AllocInv /\ [AllocNext]_allocVars => AllocInv'
<1> SUFFICES ASSUME AllocInv, [AllocNext]_allocVars PROVE AllocInv'
  OBVIOUS
<1>1. CASE \E k \in Keys : GetOfferAddress(k)
  <2>1. PICK k \in Keys : GetOfferAddress(k)
    BY <1>1
  <2>2. CASE AllocHangs(k)
    BY <2>1, <2>2 DEF GetOfferAddress, AllocInv, AllocTypeOK,
                      LeaseBelowCursor, LeaseUnique, Candidate
  <2>3. CASE ~AllocHangs(k)
    BY <2>1, <2>3, AllocStepInv DEF GetOfferAddress
  <2>4. QED BY <2>2, <2>3
<1>2. CASE UNCHANGED allocVars
  BY <1>2 DEF allocVars, AllocInv, AllocTypeOK, LeaseBelowCursor,
              LeaseUnique, Candidate
<1>3. QED BY <1>1, <1>2 DEF AllocNext

(***************************************************************************)
(* Whatever the pool, interfaces and MACs: the table maps every key to a *)
(* natural address and the cursor mNextAddressOffset stays a natural    *)
(* number (getOfferAddress only increments it).                         *)
(***************************************************************************)
THEOREM AllocTypeCorrect == AllocSpec => []AllocTypeOK
<1>1. AllocInv => AllocTypeOK
  BY DEF AllocInv
<1>2. QED BY <1>1, AllocInitInv, AllocNextInv, PTL DEF AllocSpec

(***************************************************************************)
(* Whatever the pool, interfaces and MACs: two different (interface, MAC) *)
(* keys are never given the same address by getOfferAddress.              *)
(***************************************************************************)
THEOREM LeaseUniqueness == AllocSpec => []LeaseUnique
<1>1. AllocInit => AllocInv
  BY AllocInitInv
<1>2. AllocInv /\ [AllocNext]_allocVars => AllocInv'
  BY AllocNextInv
<1>3. AllocInv => LeaseUnique
  BY DEF AllocInv
<1>4. QED BY <1>1, <1>2, <1>3, PTL DEF AllocSpec

(***************************************************************************)
(* A key that has an address keeps it in every step.                      *)
(***************************************************************************)
THEOREM LeaseStability == AllocSpec => LeaseStable
<1>1. AllocInv /\ [AllocNext]_allocVars
        => [\A k \in Keys : leases[k] # 0 => leases'[k] = leases[k]]_allocVars
  <2> SUFFICES ASSUME AllocInv, [AllocNext]_allocVars,
                      NEW j \in Keys, leases[j] # 0
               PROVE  leases'[j] = leases[j]
    BY DEF allocVars
  <2>1. CASE \E k \in Keys : GetOfferAddress(k)
    <3>1. PICK k \in Keys : GetOfferAddress(k)
      BY <2>1
    <3>2. QED
      BY <3>1 DEF GetOfferAddress, LeasesAfter, AllocFresh, AllocInv,
                  AllocTypeOK
  <2>2. CASE UNCHANGED allocVars
    BY <2>2 DEF allocVars
  <2>3. QED BY <2>1, <2>2 DEF AllocNext
<1>2. QED BY <1>1, AllocInitInv, AllocNextInv, PTL DEF AllocSpec, LeaseStable

(***************************************************************************)
(* The address a fresh allocation hands out is free in the sense of the   *)
(* lease table: in the pool, not reserved, and held by no key.            *)
(***************************************************************************)
LEMMA CandidateFree ==
    ASSUME AllocInv, NEW k \in Keys, AllocFresh(k)
    PROVE  Candidate \in LT!Free
<1>1. Candidate \in PoolStart..PoolEnd
  BY DEF AllocInv, AllocTypeOK, AllocFresh, Candidate
<1>2. ~LT!NetOrBroadcast(Candidate)
  BY DEF AllocFresh, Reserved, LT!NetOrBroadcast
<1>3. Candidate \notin LT!Held
  <2> SUFFICES ASSUME NEW j \in Keys, leases[j] # 0 PROVE leases[j] # Candidate
    BY DEF LT!Held
  <2> QED BY DEF AllocInv, AllocTypeOK, LeaseBelowCursor, Candidate
<1>4. QED BY <1>1, <1>2, <1>3 DEF LT!Free

(***************************************************************************)
(* One call of getOfferAddress(k), under the mapping that keeps only      *)
(* mLeases, is an assignment of a free address to a key without one, or  *)
(* leaves the table as it was (a repeated request, exhaustion, the hang). *)
(***************************************************************************)
LEMMA GetOfferAddressRefines ==
    ASSUME AllocInv, NEW k \in Keys, GetOfferAddress(k)
    PROVE  [LT!TableNext]_leases
<1>1. CASE AllocHangs(k)
  BY <1>1 DEF GetOfferAddress
<1>2. CASE ~AllocHangs(k) /\ AllocFresh(k)
  <2>1. leases' = [leases EXCEPT ![k] = Candidate]
    BY <1>2 DEF GetOfferAddress, LeasesAfter
  <2>2. Candidate \in LT!Free
    BY <1>2, CandidateFree
  <2>3. leases[k] = 0
    BY <1>2 DEF AllocFresh
  <2>4. LT!Assign(k)
    BY <2>1, <2>2, <2>3 DEF LT!Assign
  <2>5. QED BY <2>4 DEF LT!TableNext
<1>3. CASE ~AllocHangs(k) /\ ~AllocFresh(k)
  BY <1>3 DEF GetOfferAddress, LeasesAfter
<1>4. QED BY <1>1, <1>2, <1>3

(***************************************************************************)
(* The allocator implements the specification's lease table: each step   *)
(* of the server's allocator is a LeaseTable step or a stutter of table.  *)
(***************************************************************************)
THEOREM AllocRefinesLeaseTable == AllocSpec => ImplementsLeaseTable
<1>1. AllocInit => LT!TableInit
  BY DEF AllocInit, LT!TableInit
<1>2. AllocInv /\ [AllocNext]_allocVars => [LT!TableNext]_leases
  <2> SUFFICES ASSUME AllocInv, [AllocNext]_allocVars
               PROVE  [LT!TableNext]_leases
    OBVIOUS
  <2>1. CASE UNCHANGED allocVars
    BY <2>1 DEF allocVars
  <2>2. CASE AllocNext
    <3>1. PICK k \in Keys : GetOfferAddress(k)
      BY <2>2 DEF AllocNext
    <3>2. QED BY <3>1, GetOfferAddressRefines
  <2>3. QED BY <2>1, <2>2
<1>3. QED
  BY <1>1, <1>2, AllocInitInv, AllocNextInv, PTL
  DEF AllocSpec, ImplementsLeaseTable, LT!TableSpec
=============================================================================

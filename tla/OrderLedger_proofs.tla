------------------------- MODULE OrderLedger_proofs -------------------------
(***************************************************************************)
(* What follows from OrderLedger for any callers and external ids.  Orders *)
(* implements the ledger (Orders_proofs, Refinement), Batches uses it.     *)
(***************************************************************************)
EXTENDS OrderLedger, TLAPS

(* The inductive invariant: a call owns one external id at most, only an   *)
(* owner books, and what callers were told agrees with both.               *)
LedgerInv ==
  /\ LedgerTypeOK
  /\ \A e1, e2 \in ExtId : owner[e1] # None /\ owner[e1] = owner[e2] => e1 = e2
  /\ \A r \in booked : Owns(r)
  /\ \A r \in Caller : outcome[r] = "created" => r \in booked
  /\ \A r \in Caller : outcome[r] = "duplicate" => ~Owns(r)

(* The empty ledger satisfies the invariant.                               *)
LEMMA LedgerInitInv == LedgerInit => LedgerInv
  BY LedgerAssumption DEF LedgerInit, LedgerInv, LedgerTypeOK, Outcome, Owns

(* Telling a caller changes neither owners nor bookings.                   *)
LEMMA TellStep ==
  ASSUME LedgerInv, NEW r \in Caller, NEW what \in Outcome, Tell(r, what),
         what = "created" => r \in booked,
         what = "duplicate" => ~Owns(r)
  PROVE  LedgerInv'
  BY DEF LedgerInv, LedgerTypeOK, Owns, Tell

(* Every entry of the ledger keeps the invariant.                          *)
LEMMA LedgerNextInv == LedgerInv /\ [LedgerNext]_ledger => LedgerInv'
  <1> SUFFICES ASSUME LedgerInv, [LedgerNext]_ledger PROVE LedgerInv'
    OBVIOUS
  <1>1. CASE UNCHANGED ledger
    BY <1>1 DEF ledger, LedgerInv, LedgerTypeOK, Owns
  <1>2. ASSUME NEW r \in Caller, Claim(r) PROVE LedgerInv'
    <2>1. PICK e \in ExtId : owner[e] = None /\ owner' = [owner EXCEPT ![e] = r]
      BY <1>2 DEF Claim
    <2>2. UNCHANGED <<booked, outcome>> /\ outcome[r] = "none" /\ ~Owns(r)
      BY <1>2 DEF Claim
    <2>3. LedgerTypeOK' /\ \A f \in ExtId : owner'[f] = IF f = e THEN r ELSE owner[f]
      BY <2>1, <2>2 DEF LedgerInv, LedgerTypeOK
    <2>4. \A q \in Caller : Owns(q)' <=> Owns(q) \/ q = r
      BY <2>1, <2>3, LedgerAssumption DEF Owns
    <2>5. \A e1, e2 \in ExtId : owner'[e1] # None /\ owner'[e1] = owner'[e2] => e1 = e2
      BY <2>2, <2>3 DEF LedgerInv, Owns
    <2> QED BY <2>2, <2>3, <2>4, <2>5 DEF LedgerInv, LedgerTypeOK
  <1>3. ASSUME NEW r \in Caller, Book(r) PROVE LedgerInv'
    BY <1>3 DEF Book, LedgerInv, LedgerTypeOK, Owns
  <1>4. ASSUME NEW r \in Caller, Created(r) \/ Duplicate(r) \/ Fail(r) PROVE LedgerInv'
    BY <1>4, TellStep DEF Created, Duplicate, Fail, Outcome
  <1> QED BY <1>1, <1>2, <1>3, <1>4 DEF LedgerNext

(* In the ledger no external id is booked by two calls.                    *)
THEOREM LedgerSafety == LedgerSpec => []OneBookingPerExtId
  <1>1. LedgerInv => OneBookingPerExtId
    BY DEF LedgerInv, OneBookingPerExtId, Owns
  <1> QED BY <1>1, LedgerInitInv, LedgerNextInv, PTL DEF LedgerSpec
=============================================================================

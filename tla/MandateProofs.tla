--------------------------- MODULE MandateProofs ---------------------------
(***************************************************************************)
(* Proofs about the mandates, for any number of mandates, challenges,      *)
(* approvals, calls and transactions, any limits and any clock: approvals, *)
(* autonomous closings and the policy ledger; and, for every set of        *)
(* evidence, workers and hashes, the anchor outbox: who may decide a job,  *)
(* and that leases, tokens and transactions implement the promise of       *)
(* AnchorPromise.                                                          *)
(***************************************************************************)
EXTENDS MandateSystem, AnchorOutbox, SetFacts

-----------------------------------------------------------------------------
(* Mandates and the ledger. *)

(* A challenge in use is for a mandate; an approval in flight works on one  *)
(* that was issued; inside the critical section the approval holds the      *)
(* registry's chain, so its mandate still awaits a signature; and what it   *)
(* commits has been spent.                                                  *)
ChallengesInUse ==
    /\ \A c \in Challenge :
         challenge[c].state # "free" => challenge[c].mandate \in Mandate
    /\ \A a \in Approval :
         approval[a].pc # "idle" =>
             /\ approval[a].challenge \in Challenge
             /\ challenge[approval[a].challenge].state
                    \in {"issued", "consumed"}

Inside(a) == approval[a].pc \in {"critical", "commit"}

ApprovalMandate(a) == challenge[approval[a].challenge].mandate

SectionIsHeld ==
    \A a \in Approval :
        /\ Inside(a) =>
             /\ lock = a
             /\ mandate[ApprovalMandate(a)].status = "awaiting_user_signature"
        /\ approval[a].pc = "commit" =>
             challenge[approval[a].challenge].state = "consumed"

(* A mandate has a proof exactly from its activation on, and the proof is a *)
(* spent challenge of its own.                                              *)
ProofsAreSpent ==
    \A m \in Mandate :
        /\ mandate[m].status \in {"absent", "awaiting_user_signature"}
             => mandate[m].proof = None
        /\ mandate[m].status = "active" => mandate[m].proof # None
        /\ mandate[m].proof # None =>
             /\ challenge[mandate[m].proof].mandate = m
             /\ challenge[mandate[m].proof].state = "consumed"

ApprovalInv ==
    /\ MandatesTypeOK
    /\ ChallengesInUse
    /\ SectionIsHeld
    /\ ProofsAreSpent
    /\ ApprovalSpentOnce

(* Calls that got past getAuthorizedActive, and calls that have reserved    *)
(* and not released.                                                        *)
Authorized == {c \in Call : call[c].pc \in {"loaded", "reserved", "releasing",
                                            "closed"}}
Holding == {c \in Call : call[c].pc \in {"reserved", "releasing", "closed"}}

OwnReservation(c) ==
    [tx |-> transactionId[c], at |-> call[c].now,
     checkout |-> openCheckout[c], payment |-> openPayment[c]]

AuthorizedWasApproved ==
    \A c \in Authorized : \A m \in MandatesOf(c) :
        mandate[m].proof # None /\ Unexpired(m, call[c].now)

HoldingIsReserved ==
    /\ \A c \in Holding : OwnReservation(c) \in reservations
    /\ \A c, d \in Holding : transactionId[c] = transactionId[d] => c = d

(* Spent as the sum of a weight, a function on reservations.                *)
Weight == [r \in Reservation |-> amountMinor[r.tx]]

(* The reservations of a mandate within a window. *)
Window(R, m, t) ==
    {r \in R : (r.checkout = m \/ r.payment = m)
                  /\ r.at >= t /\ r.at <= t + frequencyWindow[m]}

RelevantIn(R, m) == {r \in R : r.checkout = m \/ r.payment = m}

(* LimitsHold of any set of reservations, and of windows that begin at any  *)
(* instant: a reservation stamped with a new clock begins a window that may *)
(* hold reservations of others, stamped ahead of it.                        *)
Limited(R) ==
    \A m \in LedgerMandate :
        /\ SumOver(Weight, RelevantIn(R, m)) <= totalBudgetMinor[m]
        /\ Cardinality(RelevantIn(R, m)) <= maxOperations[m]
        /\ \A t \in Nat :
             Cardinality(Window(R, m, t)) <= maxOperationsPerWindow[m]

LedgerInv ==
    /\ LedgerTypeOK
    /\ IsFiniteSet(reservations)
    /\ \A r, s \in reservations : r.tx = s.tx => r = s
    /\ Limited(reservations)

CallTypeOK ==
    call \in [Call -> [pc : {"idle", "loaded", "reserved", "releasing",
                             "closed", "rejected"},
                       now : Nat]]

MandateInv ==
    /\ ApprovalInv
    /\ LedgerInv
    /\ CallTypeOK
    /\ AuthorizedWasApproved
    /\ HoldingIsReserved

-----------------------------------------------------------------------------
(* Registry and trusted surface. *)

(* The types hold after every step of the registry and the trusted surface. *)
LEMMA MandatesTypeStep ==
    ASSUME MandatesTypeOK, ChallengesInUse, MandatesNext
    PROVE  MandatesTypeOK'
<1> USE MandateAssumption DEF MandatesTypeOK, Statuses
<1>1. ASSUME NEW m \in Mandate, NEW s \in Statuses,
             mandate' = [mandate EXCEPT ![m].status = s],
             UNCHANGED <<challenge, approval, lock, kya, clock>>
      PROVE  MandatesTypeOK'
  <2>1. [mandate[m] EXCEPT !.status = s]
          \in [status : Statuses, proof : Challenge \cup {None}]
    OBVIOUS
  <2>2. QED
    BY <1>1, <2>1
<1>2. ASSUME NEW m \in Mandate, KyaChange(m) PROVE MandatesTypeOK'
  BY <1>2 DEF KyaChange, registryVars
<1>3. ASSUME NEW m \in Mandate, NEW c \in Challenge, ChallengeBegin(c, m)
      PROVE  MandatesTypeOK'
  BY <1>3 DEF ChallengeBegin
<1>4. ASSUME NEW c \in Challenge, ChallengeCreate(c) PROVE MandatesTypeOK'
  BY <1>4 DEF ChallengeCreate, NoChallenge
<1>5. ASSUME NEW a \in Approval, NEW c \in Challenge, ApproveRead(a, c)
      PROVE  MandatesTypeOK'
  BY <1>5 DEF ApproveRead
<1>6. ASSUME NEW a \in Approval, ApproveVerify(a) PROVE MandatesTypeOK'
  BY <1>6 DEF ApproveVerify
<1>7. ASSUME NEW a \in Approval, ApproveEnter(a) PROVE MandatesTypeOK'
  BY <1>7 DEF ApproveEnter
<1>8. ASSUME NEW a \in Approval, ApproveConsume(a) PROVE MandatesTypeOK'
  <2> DEFINE c == approval[a].challenge
  <2>1. /\ approval' = [approval EXCEPT ![a].pc = "commit"]
        /\ challenge' = [challenge EXCEPT ![c].state = "consumed"]
        /\ UNCHANGED <<mandate, lock, kya, clock>>
    BY <1>8 DEF ApproveConsume
  <2>2. c \in Challenge
    BY <1>8 DEF ApproveConsume, ChallengesInUse
  <2>3. [challenge[c] EXCEPT !.state = "consumed"]
          \in [state : {"free", "drafting", "issued", "consumed"},
               mandate : Mandate \cup {None}, at : Nat]
    BY <2>2
  <2>4. [approval[a] EXCEPT !.pc = "commit"]
          \in [pc : {"idle", "read", "verified", "critical", "commit"},
               challenge : Challenge \cup {None}, now : Nat]
    OBVIOUS
  <2> HIDE DEF c
  <2>5. QED
    BY <2>1, <2>2, <2>3, <2>4
<1>9. ASSUME NEW a \in Approval, ApproveCommit(a) PROVE MandatesTypeOK'
  BY <1>9 DEF ApproveCommit, NoApproval, ChallengesInUse
<1>10. ASSUME NEW a \in Approval, ApproveAbort(a) PROVE MandatesTypeOK'
  BY <1>10 DEF ApproveAbort, NoApproval
<1>11. CASE Tick
  BY <1>11 DEF Tick, registryVars
<1>12. QED
  BY <1>1, <1>2, <1>3, <1>4, <1>5, <1>6, <1>7, <1>8, <1>9, <1>10, <1>11
     DEF MandatesNext, Create, Revoke

(* Approvals outside the section take no part in what the section is about, *)
(* and no two are inside.                                                   *)
LEMMA OneInside ==
    ASSUME SectionIsHeld, NEW a \in Approval, Inside(a), NEW b \in Approval,
           Inside(b)
    PROVE  a = b
BY DEF SectionIsHeld

(* The parts of ApprovalInv beyond the types. *)
ApprovalFacts ==
    ChallengesInUse /\ SectionIsHeld /\ ProofsAreSpent /\ ApprovalSpentOnce

(* create: the new mandate has no proof, and nobody is inside for it.       *)
LEMMA CreateFacts ==
    ASSUME ApprovalInv, NEW m \in Mandate, Create(m)
    PROVE  ApprovalFacts'
<1> USE DEF ApprovalInv
<1>1. /\ mandate[m].status = "absent"
      /\ mandate'[m].status = "awaiting_user_signature"
      /\ mandate'[m].proof = mandate[m].proof
      /\ \A n \in Mandate \ {m} : mandate'[n] = mandate[n]
      /\ UNCHANGED <<challenge, approval, lock>>
  BY DEF Create, MandatesTypeOK
<1>2. ChallengesInUse'
  BY <1>1 DEF ChallengesInUse
<1>3. \A a \in Approval : Inside(a) =>
        /\ ApprovalMandate(a) \in Mandate \ {m}
        /\ approval[a].challenge \in Challenge
  BY <1>1 DEF SectionIsHeld, ChallengesInUse, Inside, ApprovalMandate
<1>4. SectionIsHeld'
  BY <1>1, <1>3 DEF SectionIsHeld, Inside, ApprovalMandate
<1>5. ProofsAreSpent'
  BY <1>1 DEF ProofsAreSpent
<1>6. ApprovalSpentOnce'
  <2>1. \A n \in Mandate : mandate'[n].proof = mandate[n].proof
    BY <1>1
  <2>2. \A c \in Challenge : challenge[c].state = "consumed" =>
          challenge[c].mandate \in Mandate
    BY DEF ChallengesInUse
  <2>3. QED
    BY <1>1, <2>1, <2>2 DEF ApprovalSpentOnce
<1>7. QED
  BY <1>2, <1>4, <1>5, <1>6 DEF ApprovalFacts

(* revoke: it waits for the chain, so nobody is inside. *)
LEMMA RevokeFacts ==
    ASSUME ApprovalInv, NEW m \in Mandate, Revoke(m)
    PROVE  ApprovalFacts'
<1> USE DEF ApprovalInv
<1>1. /\ mandate'[m].status = "revoked"
      /\ mandate'[m].proof = mandate[m].proof
      /\ \A n \in Mandate \ {m} : mandate'[n] = mandate[n]
      /\ lock = None
      /\ UNCHANGED <<challenge, approval, lock>>
  BY DEF Revoke, MandatesTypeOK
<1>2. ChallengesInUse'
  BY <1>1 DEF ChallengesInUse
<1>3. \A a \in Approval : ~Inside(a)
  BY <1>1, MandateAssumption DEF SectionIsHeld
<1>4. SectionIsHeld'
  BY <1>1, <1>3 DEF SectionIsHeld, Inside
<1>5. ProofsAreSpent'
  BY <1>1 DEF ProofsAreSpent
<1>6. ApprovalSpentOnce'
  <2>1. \A n \in Mandate : mandate'[n].proof = mandate[n].proof
    BY <1>1
  <2>2. \A c \in Challenge : challenge[c].state = "consumed" =>
          challenge[c].mandate \in Mandate
    BY DEF ChallengesInUse
  <2>3. QED
    BY <1>1, <2>1, <2>2 DEF ApprovalSpentOnce
<1>7. QED
  BY <1>2, <1>4, <1>5, <1>6 DEF ApprovalFacts

(* Steps on a challenge that is not issued yet, or no longer drafted: no    *)
(* approval works on it and it is nobody's proof.                           *)
LEMMA DraftFacts ==
    ASSUME ApprovalInv, NEW c \in Challenge,
           challenge[c].state \in {"free", "drafting"},
           challenge'[c].state \in {"free", "drafting", "issued"},
           challenge'[c].state # "free" => challenge'[c].mandate \in Mandate,
           \A d \in Challenge \ {c} : challenge'[d] = challenge[d],
           UNCHANGED <<mandate, approval, lock>>
    PROVE  ApprovalFacts'
<1> USE DEF ApprovalInv
<1>1. ChallengesInUse'
  BY DEF ChallengesInUse
<1>2. \A a \in Approval : approval[a].pc # "idle" =>
        approval[a].challenge \in Challenge \ {c}
  BY DEF ChallengesInUse
<1>3. SectionIsHeld'
  BY <1>2 DEF SectionIsHeld, Inside, ApprovalMandate
<1>4. \A m \in Mandate : mandate[m].proof # None =>
        mandate[m].proof \in Challenge \ {c}
  BY DEF ProofsAreSpent, MandatesTypeOK
<1>5. ProofsAreSpent'
  BY <1>4 DEF ProofsAreSpent
<1>6. ApprovalSpentOnce'
  BY <1>4 DEF ApprovalSpentOnce
<1>7. QED
  BY <1>1, <1>3, <1>5, <1>6 DEF ApprovalFacts

(* Steps of one approval outside the section. *)
LEMMA OutsideFacts ==
    ASSUME ApprovalInv, NEW a \in Approval,
           approval[a].pc # "commit",
           approval'[a].pc \in {"idle", "read", "verified"},
           approval'[a].pc # "idle" =>
               /\ approval'[a].challenge \in Challenge
               /\ challenge[approval'[a].challenge].state
                      \in {"issued", "consumed"},
           \A b \in Approval \ {a} : approval'[b] = approval[b],
           lock' = lock \/ lock = a,
           UNCHANGED <<mandate, challenge>>
    PROVE  ApprovalFacts'
<1> USE DEF ApprovalInv
<1>1. ChallengesInUse'
  BY DEF ChallengesInUse
<1>2. SectionIsHeld'
  BY DEF SectionIsHeld, Inside, ApprovalMandate
<1>3. ProofsAreSpent'
  BY DEF ProofsAreSpent
<1>4. ApprovalSpentOnce'
  BY DEF ApprovalSpentOnce
<1>5. QED
  BY <1>1, <1>2, <1>3, <1>4 DEF ApprovalFacts

(* Entering: the chain was free and the mandate awaits its signature.       *)
LEMMA EnterFacts ==
    ASSUME ApprovalInv, NEW a \in Approval, ApproveEnter(a)
    PROVE  ApprovalFacts'
<1> USE DEF ApprovalInv
<1>1. /\ approval[a].pc = "verified" /\ lock = None /\ lock' = a
      /\ mandate[ApprovalMandate(a)].status = "awaiting_user_signature"
      /\ approval'[a].pc = "critical"
      /\ approval'[a].challenge = approval[a].challenge
      /\ \A b \in Approval \ {a} : approval'[b] = approval[b]
      /\ UNCHANGED <<mandate, challenge>>
  BY DEF ApproveEnter, MandatesTypeOK, ApprovalMandate
<1>2. ChallengesInUse'
  BY <1>1 DEF ChallengesInUse
<1>3. \A b \in Approval : ~Inside(b)
  BY <1>1, MandateAssumption DEF SectionIsHeld
<1>4. SectionIsHeld'
  BY <1>1, <1>3 DEF SectionIsHeld, Inside, ApprovalMandate
<1>5. ProofsAreSpent'
  BY <1>1 DEF ProofsAreSpent
<1>6. ApprovalSpentOnce'
  BY <1>1 DEF ApprovalSpentOnce
<1>7. QED
  BY <1>2, <1>4, <1>5, <1>6 DEF ApprovalFacts

(* Consuming the challenge: from now on the commit cannot fail.             *)
LEMMA ConsumeFacts ==
    ASSUME ApprovalInv, NEW a \in Approval, ApproveConsume(a)
    PROVE  ApprovalFacts'
<1> USE DEF ApprovalInv
<1> DEFINE c == approval[a].challenge
<1>0. c \in Challenge
  BY DEF ChallengesInUse, ApproveConsume
<1>1. /\ approval[a].pc = "critical" /\ challenge[c].state = "issued"
      /\ challenge'[c].state = "consumed"
      /\ challenge'[c].mandate = challenge[c].mandate
      /\ \A d \in Challenge \ {c} : challenge'[d] = challenge[d]
      /\ approval'[a].pc = "commit" /\ approval'[a].challenge = c
      /\ \A b \in Approval \ {a} : approval'[b] = approval[b]
      /\ UNCHANGED <<mandate, lock>>
  BY <1>0 DEF ApproveConsume, MandatesTypeOK
<1> HIDE DEF c
<1>2. ChallengesInUse'
  BY <1>0, <1>1 DEF ChallengesInUse, c
<1>3. \A b \in Approval : Inside(b)' => Inside(b)
  BY <1>1 DEF Inside
<1>4. \A b \in Approval : Inside(b) => b = a
  BY <1>1, OneInside DEF Inside
<1>5. SectionIsHeld'
  BY <1>0, <1>1, <1>3, <1>4 DEF SectionIsHeld, Inside, ApprovalMandate, c
<1>6. ProofsAreSpent'
  <2>1. \A d \in Challenge : challenge'[d].mandate = challenge[d].mandate
    BY <1>0, <1>1
  <2>2. \A d \in Challenge : challenge[d].state = "consumed" =>
          challenge'[d].state = "consumed"
    BY <1>0, <1>1
  <2>3. QED
    BY <1>1, <2>1, <2>2 DEF ProofsAreSpent, MandatesTypeOK
<1>7. ApprovalSpentOnce'
  <2>1. \A d \in Challenge : challenge'[d].mandate = challenge[d].mandate
    BY <1>0, <1>1
  <2>2. ASSUME NEW d \in Challenge, challenge'[d].state = "consumed"
        PROVE  \/ mandate'[challenge'[d].mandate].proof = d
               \/ \E b \in Approval : /\ approval'[b].challenge = d
                                       /\ approval'[b].pc = "commit"
    <3>1. CASE d = c
      BY <1>1, <3>1
    <3>2. CASE d # c
      <4>1. \/ mandate[challenge[d].mandate].proof = d
            \/ \E b \in Approval : approval[b].challenge = d
                                    /\ approval[b].pc = "commit"
        BY <1>1, <2>2, <3>2 DEF ApprovalSpentOnce
      <4>2. QED
        BY <1>1, <2>1, <4>1
    <3>3. QED
      BY <3>1, <3>2
  <2>3. QED
    BY <1>6, <2>2 DEF ApprovalSpentOnce, ProofsAreSpent
<1>8. QED
  BY <1>2, <1>5, <1>6, <1>7 DEF ApprovalFacts

(* Committing: the mandate had no proof, so no spent challenge loses its    *)
(* mandate.                                                                 *)
LEMMA CommitFacts ==
    ASSUME ApprovalInv, NEW a \in Approval, ApproveCommit(a)
    PROVE  ApprovalFacts'
<1> USE DEF ApprovalInv
<1> DEFINE c == approval[a].challenge
           m == challenge[c].mandate
<1>0. /\ c \in Challenge /\ m \in Mandate /\ Inside(a)
      /\ challenge[c].state = "consumed"
      /\ mandate[m].proof = None
  BY DEF ChallengesInUse, ApproveCommit, SectionIsHeld, Inside, ProofsAreSpent,
         ApprovalMandate
<1>1. /\ approval[a].pc = "commit"
      /\ mandate'[m].status = "active" /\ mandate'[m].proof = c
      /\ \A n \in Mandate \ {m} : mandate'[n] = mandate[n]
      /\ approval'[a].pc = "idle"
      /\ \A b \in Approval \ {a} : approval'[b] = approval[b]
      /\ UNCHANGED challenge
  BY <1>0 DEF ApproveCommit, MandatesTypeOK, NoApproval
<1> HIDE DEF m
<1>2. ChallengesInUse'
  BY <1>1 DEF ChallengesInUse
<1>3. \A b \in Approval : Inside(b) => b = a
  BY <1>0, OneInside
<1>4. \A b \in Approval : ~Inside(b)'
  BY <1>1, <1>3 DEF Inside
<1>5. SectionIsHeld'
  BY <1>4 DEF SectionIsHeld, Inside
<1>6. ProofsAreSpent'
  BY <1>0, <1>1, MandateAssumption DEF ProofsAreSpent, m
<1>7. ApprovalSpentOnce'
  <2>1. ASSUME NEW d \in Challenge, challenge[d].state = "consumed"
        PROVE  mandate'[challenge[d].mandate].proof = d
    <3>1. CASE d = c
      BY <1>1, <3>1 DEF m
    <3>2. CASE d # c
      <4>1. ~ \E b \in Approval : approval[b].challenge = d
                                  /\ approval[b].pc = "commit"
        BY <1>3, <3>2 DEF Inside
      <4>2. mandate[challenge[d].mandate].proof = d
        BY <2>1, <4>1 DEF ApprovalSpentOnce
      <4>3. challenge[d].mandate \in Mandate
        BY <2>1 DEF ChallengesInUse
      <4>4. challenge[d].mandate # m
        BY <1>0, <4>2, MandateAssumption
      <4>5. QED
        BY <1>1, <4>2, <4>3, <4>4
    <3>3. QED
      BY <3>1, <3>2
  <2>2. QED
    BY <1>1, <1>6, <2>1 DEF ApprovalSpentOnce, ProofsAreSpent
<1>8. QED
  BY <1>2, <1>5, <1>6, <1>7 DEF ApprovalFacts

(* Every step of the registry and the trusted surface keeps their invariant. *)
LEMMA ApprovalStep ==
    ASSUME ApprovalInv, MandatesNext
    PROVE  ApprovalInv'
<1> USE DEF ApprovalInv
<1>1. ASSUME NEW m \in Mandate, Create(m) PROVE ApprovalFacts'
  BY <1>1, CreateFacts
<1>2. ASSUME NEW m \in Mandate, Revoke(m) PROVE ApprovalFacts'
  BY <1>2, RevokeFacts
<1>3. ASSUME NEW m \in Mandate, NEW c \in Challenge, ChallengeBegin(c, m)
      PROVE  ApprovalFacts'
  <2>1. /\ challenge'[c].state = "drafting" /\ challenge'[c].mandate = m
        /\ \A d \in Challenge \ {c} : challenge'[d] = challenge[d]
    BY <1>3 DEF ChallengeBegin, MandatesTypeOK
  <2>2. QED
    BY <1>3, <2>1, DraftFacts DEF ChallengeBegin
<1>4. ASSUME NEW c \in Challenge, ChallengeCreate(c)
      PROVE  ApprovalFacts'
  <2>1. challenge[c].mandate \in Mandate
    BY <1>4 DEF ChallengeCreate, ChallengesInUse
  <2>2. /\ challenge'[c] = IF challenge[c].mandate \in kya
                           THEN [challenge[c] EXCEPT !.state = "issued"]
                           ELSE NoChallenge
        /\ \A d \in Challenge \ {c} : challenge'[d] = challenge[d]
    BY <1>4 DEF ChallengeCreate, MandatesTypeOK
  <2>3. /\ challenge'[c].state \in {"free", "issued"}
        /\ challenge'[c].state # "free" => challenge'[c].mandate \in Mandate
    BY <2>1, <2>2 DEF MandatesTypeOK, NoChallenge
  <2>4. QED
    BY <1>4, <2>2, <2>3, DraftFacts DEF ChallengeCreate
<1>5. ASSUME NEW a \in Approval, NEW c \in Challenge, ApproveRead(a, c)
      PROVE  ApprovalFacts'
  <2>1. /\ approval'[a].pc = "read" /\ approval'[a].challenge = c
        /\ \A b \in Approval \ {a} : approval'[b] = approval[b]
    BY <1>5 DEF ApproveRead, MandatesTypeOK
  <2>2. QED
    BY <1>5, <2>1, OutsideFacts DEF ApproveRead
<1>6. ASSUME NEW a \in Approval, ApproveVerify(a)
      PROVE  ApprovalFacts'
  <2>1. /\ approval'[a].pc = "verified"
        /\ approval'[a].challenge = approval[a].challenge
        /\ \A b \in Approval \ {a} : approval'[b] = approval[b]
    BY <1>6 DEF ApproveVerify, MandatesTypeOK
  <2>2. approval[a].pc = "read"
    BY <1>6 DEF ApproveVerify
  <2>3. /\ approval[a].challenge \in Challenge
        /\ challenge[approval[a].challenge].state \in {"issued", "consumed"}
    BY <2>2 DEF ChallengesInUse
  <2>4. QED
    BY <1>6, <2>1, <2>2, <2>3, OutsideFacts DEF ApproveVerify
<1>7. ASSUME NEW a \in Approval, ApproveEnter(a) PROVE ApprovalFacts'
  BY <1>7, EnterFacts
<1>8. ASSUME NEW a \in Approval, ApproveConsume(a) PROVE ApprovalFacts'
  BY <1>8, ConsumeFacts
<1>9. ASSUME NEW a \in Approval, ApproveCommit(a) PROVE ApprovalFacts'
  BY <1>9, CommitFacts
<1>10. ASSUME NEW a \in Approval, ApproveAbort(a)
      PROVE  ApprovalFacts'
  <2>1. /\ approval'[a].pc = "idle" /\ approval[a].pc # "commit"
        /\ \A b \in Approval \ {a} : approval'[b] = approval[b]
    BY <1>10 DEF ApproveAbort, MandatesTypeOK, NoApproval
  <2>2. QED
    BY <1>10, <2>1, OutsideFacts DEF ApproveAbort
<1>11. ASSUME UNCHANGED registryVars PROVE ApprovalFacts'
  BY <1>11 DEF registryVars, ApprovalFacts, ChallengesInUse, SectionIsHeld,
     ProofsAreSpent, ApprovalSpentOnce, Inside, ApprovalMandate
<1>12. (\E m \in Mandate : KyaChange(m)) \/ Tick => UNCHANGED registryVars
  BY DEF KyaChange, Tick
<1>13. ApprovalFacts'
  BY <1>1, <1>2, <1>3, <1>4, <1>5, <1>6, <1>7, <1>8, <1>9, <1>10, <1>11,
     <1>12 DEF MandatesNext
<1>14. QED
  BY <1>13, MandatesTypeStep DEF ApprovalFacts

(* Steps of a call and of the ledger leave approvals alone.                 *)
LEMMA ApprovalUnchanged ==
    ASSUME ApprovalInv, UNCHANGED <<registryVars, kya, clock>>
    PROVE  ApprovalInv'
BY DEF registryVars, ApprovalInv, MandatesTypeOK, ChallengesInUse,
   SectionIsHeld, ProofsAreSpent, ApprovalSpentOnce, Inside, ApprovalMandate

(* What a step of the registry never does: touch the proof of an activated  *)
(* mandate, or bring a revoked one back.                                    *)
LEMMA RegistryKeeps ==
    ASSUME ApprovalInv, MandatesNext, NEW m \in Mandate
    PROVE  /\ mandate[m].proof # None => mandate'[m].proof = mandate[m].proof
           /\ mandate[m].status = "revoked" => mandate'[m].status = "revoked"
<1> USE DEF ApprovalInv
<1>1. ASSUME NEW n \in Mandate, Create(n) \/ Revoke(n)
      PROVE  /\ mandate'[m].proof = mandate[m].proof
             /\ mandate[m].status = "revoked" => mandate'[m].status = "revoked"
  BY <1>1 DEF Create, Revoke, MandatesTypeOK
<1>2. ASSUME NEW a \in Approval, ApproveCommit(a)
      PROVE  /\ mandate[m].proof # None => mandate'[m].proof = mandate[m].proof
             /\ mandate[m].status = "revoked" => mandate'[m].status = "revoked"
  <2> DEFINE n == ApprovalMandate(a)
  <2>1. n \in Mandate /\ mandate[n].status = "awaiting_user_signature"
    BY <1>2 DEF ApproveCommit, SectionIsHeld, Inside, ApprovalMandate,
       ChallengesInUse
  <2>2. mandate[n].proof = None
    BY <2>1 DEF ProofsAreSpent
  <2>3. m # n => mandate'[m] = mandate[m]
    BY <1>2 DEF ApproveCommit, ApprovalMandate, MandatesTypeOK
  <2>4. QED
    BY <2>1, <2>2, <2>3
<1>3. ASSUME UNCHANGED mandate
      PROVE  /\ mandate'[m].proof = mandate[m].proof
             /\ mandate'[m].status = mandate[m].status
  BY <1>3
<1>4. QED
  BY <1>1, <1>2, <1>3 DEF MandatesNext, KyaChange, Tick, ChallengeBegin,
     ChallengeCreate, ApproveRead, ApproveVerify, ApproveEnter, ApproveConsume,
     ApproveAbort, registryVars

-----------------------------------------------------------------------------
(* The policy ledger. *)

(* Spent, as a sum over the reservations that count. *)
LEMMA SpentIsSum ==
    ASSUME NEW R \in SUBSET Reservation, IsFiniteSet(R)
    PROVE  MapThenSumSet(LAMBDA r : amountMinor[r.tx], R) = SumOver(Weight, R)
<1> DEFINE Iter(g) == g = [s \in SUBSET R |->
                       IF s = {} THEN 0
                       ELSE amountMinor[(CHOOSE x \in s : TRUE).tx]
                              + g[s \ {CHOOSE x \in s : TRUE}]]
           h == CHOOSE g : Iter(g)
<1>1. MapThenSumSet(LAMBDA r : amountMinor[r.tx], R) = h[R]
  BY DEF MapThenSumSet, MapThenFoldSet
<1>2. \A s \in SUBSET R : s # {} =>
        amountMinor[(CHOOSE x \in s : TRUE).tx] = Weight[First(s)]
  BY FirstIn DEF First, Weight
<1>3. \A g : IsIteration(g, Weight, R) <=> Iter(g)
  BY <1>2 DEF IsIteration, First
<1>4. \E g : IsIteration(g, Weight, R)
  BY IterationExists
<1>5. IsIteration(h, Weight, R)
  BY <1>3, <1>4, Zenon
<1> HIDE DEF h, Iter
<1>6. QED
  BY <1>1, <1>5, SumIsIterated

(* What the ledger's queries compute, as sums and sets of any reservations. *)
LEMMA QueriesAreSums ==
    ASSUME LedgerTypeOK, IsFiniteSet(reservations), NEW m \in LedgerMandate
    PROVE  /\ Spent(m) = SumOver(Weight, RelevantIn(reservations, m))
           /\ Relevant(m) = RelevantIn(reservations, m)
           /\ \A t : {r \in Relevant(m) : r.at >= t
                                            /\ r.at <= t + frequencyWindow[m]}
                      = Window(reservations, m, t)
<1>1. Relevant(m) = RelevantIn(reservations, m)
  BY DEF Relevant, RelevantIn
<1>2. Relevant(m) \subseteq reservations /\ IsFiniteSet(Relevant(m))
  BY FS_Subset DEF Relevant
<1>3. Relevant(m) \in SUBSET Reservation
  BY <1>2 DEF LedgerTypeOK
<1>4. Spent(m) = SumOver(Weight, Relevant(m))
  BY <1>2, <1>3, SpentIsSum DEF Spent
<1>5. \A t : {r \in Relevant(m) : r.at >= t /\ r.at <= t + frequencyWindow[m]}
               = Window(reservations, m, t)
  BY DEF Relevant, Window
<1>6. QED
  BY <1>1, <1>4, <1>5

(* The invariant of the ledger gives its property. *)
LEMMA LimitedGivesLimits == LedgerInv => LimitsHold
<1> SUFFICES ASSUME LedgerInv
             PROVE  LimitsHold
  OBVIOUS
<1> USE DEF LedgerInv
<1>1. \A r \in reservations : r.at \in Nat
  BY DEF LedgerTypeOK, Reservation
<1>2. \A t \in {r.at : r \in reservations} : t \in Nat
  BY <1>1
<1>3. QED
  BY <1>2, QueriesAreSums, Zenon DEF LimitsHold, Limited

(* Amounts are natural numbers. *)
LEMMA WeightIsNatural == \A r \in Reservation : Weight[r] \in Nat
BY LedgerAssumption DEF Weight, Reservation

(* The reservations of a mandate a call finds recent: Recent, of any set.   *)
RecentIn(R, m, now) ==
    {r \in RelevantIn(R, m) : r.at >= now - frequencyWindow[m]}

(* One mandate's limits survive the reservation its checks let through.  A  *)
(* window that holds the new stamp started at most one length before it, so *)
(* everything in it is recent: stamps need not arrive in order.             *)
LEMMA AddKeepsLimits ==
    ASSUME NEW R \in SUBSET Reservation, IsFiniteSet(R), Limited(R),
           NEW e \in Reservation, e \notin R,
           \A m \in {e.checkout, e.payment} :
              /\ SumOver(Weight, RelevantIn(R, m)) + amountMinor[e.tx]
                   <= totalBudgetMinor[m]
              /\ Cardinality(RelevantIn(R, m)) < maxOperations[m]
              /\ Cardinality(RecentIn(R, m, e.at)) < maxOperationsPerWindow[m]
    PROVE  Limited(R \cup {e})
<1> DEFINE N == R \cup {e}
<1>0. /\ e.checkout \in LedgerMandate /\ e.payment \in LedgerMandate
      /\ e.at \in Nat /\ Weight[e] = amountMinor[e.tx]
      /\ \A r \in R : r.at \in Nat
      /\ \A r \in N : Weight[r] \in Nat
  BY WeightIsNatural DEF Reservation, Weight
<1>1. IsFiniteSet(N)
  BY FS_AddElement
<1>2. ASSUME NEW m \in LedgerMandate, m \notin {e.checkout, e.payment}
      PROVE  /\ RelevantIn(N, m) = RelevantIn(R, m)
             /\ \A t : Window(N, m, t) = Window(R, m, t)
  BY <1>2 DEF RelevantIn, Window
<1>3. ASSUME NEW m \in {e.checkout, e.payment}
      PROVE  /\ RelevantIn(N, m) = RelevantIn(R, m) \cup {e}
             /\ e \notin RelevantIn(R, m)
             /\ IsFiniteSet(RelevantIn(R, m))
             /\ IsFiniteSet(RecentIn(R, m, e.at))
  <2>1. RelevantIn(N, m) = RelevantIn(R, m) \cup {e} /\ e \notin RelevantIn(R, m)
    BY <1>3 DEF RelevantIn
  <2>2. RelevantIn(R, m) \in SUBSET R /\ RecentIn(R, m, e.at) \in SUBSET R
    BY DEF RelevantIn, RecentIn
  <2>3. QED
    BY <2>1, <2>2, FS_Subset
<1>4. ASSUME NEW m \in LedgerMandate
      PROVE  SumOver(Weight, RelevantIn(N, m)) <= totalBudgetMinor[m]
  <2>1. CASE m \in {e.checkout, e.payment}
    <3> DEFINE S == RelevantIn(R, m)
    <3>1. S \subseteq N /\ e \in N /\ e \notin S
      BY <1>3, <2>1 DEF RelevantIn
    <3> HIDE DEF S, N
    <3>2. SumOver(Weight, S \cup {e}) = Weight[e] + SumOver(Weight, S)
      BY <1>0, <1>1, <3>1, SumAddElement
    <3>3. SumOver(Weight, S) \in Nat
      <4>1. IsFiniteSet(S) /\ \A x \in S : Weight[x] \in Nat
        BY <1>0, <1>1, <3>1, FS_Subset
      <4>2. QED
        BY <4>1, SumIsNatural
    <3>9. RelevantIn(N, m) = S \cup {e}
      BY <1>3, <2>1 DEF S
    <3>4. SumOver(Weight, S) + Weight[e] <= totalBudgetMinor[m]
      BY <1>0, <2>1 DEF S
    <3>5. Weight[e] \in Nat
      BY <1>0 DEF N
    <3>6. QED
      BY <3>9, <3>2, <3>3, <3>4, <3>5
  <2>2. CASE m \notin {e.checkout, e.payment}
    BY <1>2, <2>2 DEF Limited
  <2>3. QED
    BY <2>1, <2>2
<1>5. ASSUME NEW m \in LedgerMandate
      PROVE  Cardinality(RelevantIn(N, m)) <= maxOperations[m]
  <2>1. CASE m \in {e.checkout, e.payment}
    <3> DEFINE S == RelevantIn(R, m)
    <3>1. RelevantIn(N, m) = S \cup {e} /\ e \notin S /\ IsFiniteSet(S)
      BY <1>3, <2>1
    <3>2. Cardinality(S) < maxOperations[m]
      BY <2>1
    <3> HIDE DEF S, N
    <3>3. Cardinality(S \cup {e}) = Cardinality(S) + 1 /\ Cardinality(S) \in Nat
      BY <3>1, FS_AddElement, FS_CardinalityType
    <3>4. maxOperations[m] \in Nat
      BY LedgerAssumption
    <3>5. QED
      BY <3>1, <3>2, <3>3, <3>4
  <2>2. CASE m \notin {e.checkout, e.payment}
    BY <1>2, <2>2 DEF Limited
  <2>3. QED
    BY <2>1, <2>2
<1>6. ASSUME NEW m \in LedgerMandate, NEW t \in Nat
      PROVE  Cardinality(Window(N, m, t)) <= maxOperationsPerWindow[m]
  <2>0. /\ frequencyWindow[m] \in Nat
        /\ maxOperationsPerWindow[m] \in Nat
    BY <1>0, LedgerAssumption
  <2>1. CASE m \in {e.checkout, e.payment} /\ e.at >= t
                 /\ e.at <= t + frequencyWindow[m]
    <3> DEFINE C == RecentIn(R, m, e.at)
    <3>1. Window(N, m, t) \in SUBSET (C \cup {e})
      BY <1>0, <2>0, <2>1 DEF Window, RecentIn, RelevantIn
    <3>2. IsFiniteSet(C) /\ Cardinality(C) \in Nat
      BY <1>3, <2>1, FS_CardinalityType
    <3>3. Cardinality(C) < maxOperationsPerWindow[m]
      BY <2>1
    <3> HIDE DEF C
    <3>4. IsFiniteSet(C \cup {e}) /\ Cardinality(C \cup {e}) <= Cardinality(C) + 1
      <4>1. /\ IsFiniteSet(C \cup {e})
            /\ Cardinality(C \cup {e})
                 = IF e \in C THEN Cardinality(C) ELSE Cardinality(C) + 1
        BY <3>2, FS_AddElement
      <4>2. QED
        BY <3>2, <4>1
    <3>5. /\ Cardinality(Window(N, m, t)) <= Cardinality(C \cup {e})
          /\ IsFiniteSet(Window(N, m, t))
      BY <3>1, <3>4, FS_Subset
    <3>6. Cardinality(Window(N, m, t)) \in Nat /\ Cardinality(C \cup {e}) \in Nat
      BY <3>4, <3>5, FS_CardinalityType
    <3>7. QED
      BY <2>0, <3>2, <3>3, <3>4, <3>5, <3>6
  <2>2. CASE ~(m \in {e.checkout, e.payment} /\ e.at >= t
                 /\ e.at <= t + frequencyWindow[m])
    <3>1. Window(N, m, t) = Window(R, m, t)
      BY <2>2 DEF Window
    <3>2. QED
      BY <3>1 DEF Limited
  <2>3. QED
    BY <2>1, <2>2
<1>7. QED
  BY <1>4, <1>5, <1>6 DEF Limited

(* Limits survive what a release takes away.                                *)
LEMMA RemoveKeepsLimits ==
    ASSUME NEW R \in SUBSET Reservation, IsFiniteSet(R), Limited(R), NEW e
    PROVE  Limited(R \ {e})
<1> DEFINE N == R \ {e}
<1> SUFFICES ASSUME NEW m \in LedgerMandate
             PROVE  /\ SumOver(Weight, RelevantIn(N, m)) <= totalBudgetMinor[m]
                    /\ Cardinality(RelevantIn(N, m)) <= maxOperations[m]
                    /\ \A t \in Nat :
                         Cardinality(Window(N, m, t))
                           <= maxOperationsPerWindow[m]
  BY DEF Limited
<1> DEFINE S == RelevantIn(R, m)
<1>0. /\ totalBudgetMinor[m] \in Nat /\ maxOperations[m] \in Nat
      /\ maxOperationsPerWindow[m] \in Nat
  BY LedgerAssumption
<1>1. RelevantIn(N, m) = S \ {e}
  BY DEF RelevantIn
<1>2. IsFiniteSet(S) /\ \A x \in S : Weight[x] \in Nat
  <2>1. S \in SUBSET R /\ S \in SUBSET Reservation
    BY DEF RelevantIn
  <2>2. QED
    BY <2>1, FS_Subset, WeightIsNatural
<1>3. SumOver(Weight, S) <= totalBudgetMinor[m]
      /\ Cardinality(S) <= maxOperations[m]
  BY DEF Limited
<1>4. SumOver(Weight, RelevantIn(N, m)) <= totalBudgetMinor[m]
  <2> HIDE DEF S, N
  <2>1. SumOver(Weight, S \ {e}) <= SumOver(Weight, S)
    BY <1>2, SumRemoveElement
  <2>2. IsFiniteSet(S \ {e})
    BY <1>2, FS_RemoveElement
  <2>3. SumOver(Weight, S \ {e}) \in Nat /\ SumOver(Weight, S) \in Nat
    BY <1>2, <2>2, SumIsNatural
  <2>4. QED
    BY <1>0, <1>1, <1>3, <2>1, <2>3
<1>5. ASSUME NEW T, IsFiniteSet(T), NEW U \in SUBSET T, NEW n \in Nat,
             Cardinality(T) <= n
      PROVE  Cardinality(U) <= n
  <2>1. IsFiniteSet(U) /\ Cardinality(U) <= Cardinality(T)
    BY <1>5, FS_Subset
  <2>2. Cardinality(U) \in Nat /\ Cardinality(T) \in Nat
    BY <1>5, <2>1, FS_CardinalityType
  <2>3. QED
    BY <1>5, <2>1, <2>2
<1>6. Cardinality(RelevantIn(N, m)) <= maxOperations[m]
  <2>1. RelevantIn(N, m) \in SUBSET S
    BY <1>1
  <2>2. QED
    BY <1>0, <1>2, <1>3, <1>5, <2>1
<1>7. ASSUME NEW t \in Nat
      PROVE  Cardinality(Window(N, m, t)) <= maxOperationsPerWindow[m]
  <2>1. Window(N, m, t) \in SUBSET Window(R, m, t) /\ Window(R, m, t) \in SUBSET R
    BY DEF Window
  <2>2. Cardinality(Window(R, m, t)) <= maxOperationsPerWindow[m]
    BY DEF Limited
  <2>3. IsFiniteSet(Window(R, m, t))
    BY <2>1, FS_Subset
  <2>4. QED
    BY <1>0, <1>5, <2>1, <2>2, <2>3
<1>8. QED
  BY <1>4, <1>6, <1>7

(* Reserve keeps the ledger's invariant, and adds one reservation of a      *)
(* transaction that has none.                                               *)
LEMMA ReserveKeeps ==
    ASSUME LedgerInv, NEW checkout \in LedgerMandate,
           NEW payment \in LedgerMandate, NEW tx \in Transaction,
           NEW now \in Nat, Reserve(checkout, payment, tx, now)
    PROVE  LedgerInv'
<1> USE DEF LedgerInv
<1> DEFINE e == [tx |-> tx, at |-> now, checkout |-> checkout,
                 payment |-> payment]
           R == reservations
<1>1. R \in SUBSET Reservation /\ e \in Reservation
  BY DEF LedgerTypeOK, Reservation
<1>2. e \notin R /\ \A r \in R : r.tx # tx
  BY DEF Reserve, CanReserve, Unused
<1>3. R' = R \cup {e} /\ UNCHANGED <<released, durable>>
  BY DEF Reserve
<1>4. LedgerTypeOK'
  BY <1>1, <1>3 DEF LedgerTypeOK
<1>5. IsFiniteSet(R')
  BY <1>3, FS_AddElement
<1>6. \A r, s \in R' : r.tx = s.tx => r = s
  BY <1>2, <1>3
<1>7. \A m \in {e.checkout, e.payment} :
        /\ SumOver(Weight, RelevantIn(R, m)) + amountMinor[e.tx]
             <= totalBudgetMinor[m]
        /\ Cardinality(RelevantIn(R, m)) < maxOperations[m]
        /\ Cardinality(RecentIn(R, m, e.at)) < maxOperationsPerWindow[m]
  <2> SUFFICES ASSUME NEW m \in {checkout, payment}
               PROVE  /\ SumOver(Weight, RelevantIn(R, m)) + amountMinor[tx]
                           <= totalBudgetMinor[m]
                      /\ Cardinality(RelevantIn(R, m)) < maxOperations[m]
                      /\ Cardinality(RecentIn(R, m, now))
                           < maxOperationsPerWindow[m]
    OBVIOUS
  <2>1. /\ Spent(m) = SumOver(Weight, RelevantIn(R, m))
        /\ Relevant(m) = RelevantIn(R, m)
    BY QueriesAreSums
  <2>2. Recent(m, now) = RecentIn(R, m, now)
    BY <2>1 DEF Recent, RecentIn
  <2>3. WithinBudget(m, tx) /\ WithinOperations(m) /\ WithinFrequency(m, now)
    BY DEF Reserve, CanReserve
  <2>4. QED
    BY <2>1, <2>2, <2>3 DEF WithinBudget, WithinOperations, WithinFrequency
<1>8. Limited(R)
  OBVIOUS
<1> HIDE DEF e, R
<1>9. Limited(R \cup {e})
  BY <1>1, <1>2, <1>7, <1>8, AddKeepsLimits DEF R
<1>10. QED
  BY <1>3, <1>4, <1>5, <1>6, <1>9 DEF R

(* Release keeps it too: a transaction has at most one reservation.         *)
LEMMA ReleaseKeeps ==
    ASSUME LedgerInv, NEW tx \in Transaction, Release(tx)
    PROVE  LedgerInv'
<1> USE DEF LedgerInv
<1>1. /\ reservations' = {r \in reservations : r.tx # tx}
      /\ UNCHANGED durable
  BY DEF Release
<1>2. LedgerTypeOK'
  BY <1>1 DEF LedgerTypeOK, Release
<1>3. IsFiniteSet(reservations')
  BY <1>1, FS_Subset
<1>4. \A r, s \in reservations' : r.tx = s.tx => r = s
  BY <1>1
<1>5. Limited(reservations')
  <2>1. CASE \E r \in reservations : r.tx = tx
    <3>1. PICK e \in reservations : e.tx = tx
      BY <2>1
    <3>2. reservations' = reservations \ {e}
      BY <1>1, <3>1
    <3>3. QED
      BY <3>2, RemoveKeepsLimits DEF LedgerTypeOK
  <2>2. CASE \A r \in reservations : r.tx # tx
    <3>1. reservations' = reservations
      BY <1>1, <2>2
    <3>2. QED
      BY <3>1
  <2>3. QED
    BY <2>1, <2>2
<1>6. QED
  BY <1>2, <1>3, <1>4, <1>5

-----------------------------------------------------------------------------
(* The calls. *)

CallFacts == CallTypeOK /\ AuthorizedWasApproved /\ HoldingIsReserved

(* What a step of one call moves: its own program counter.                  *)
LEMMA GotoMoves ==
    ASSUME CallTypeOK, NEW c \in Call,
           NEW p \in {"reserved", "releasing", "closed", "rejected"}, Goto(c, p)
    PROVE  /\ CallTypeOK'
           /\ call'[c].pc = p
           /\ \A d \in Call : call'[d].now = call[d].now
           /\ \A d \in Call \ {c} : call'[d] = call[d]
BY DEF CallTypeOK, Goto

(* A call that was authorized stays so: it goes on with the mandates and    *)
(* the clock it read.                                                       *)
LEMMA GotoKeepsApproval ==
    ASSUME MandateInv, NEW c \in Authorized,
           NEW p \in {"reserved", "releasing", "closed", "rejected"}, Goto(c, p),
           UNCHANGED registryVars
    PROVE  CallTypeOK' /\ AuthorizedWasApproved'
<1>0. c \in Call
  BY DEF Authorized
<1>1. /\ CallTypeOK'
      /\ \A d \in Call : call'[d].now = call[d].now
      /\ \A d \in Call \ {c} : call'[d] = call[d]
  BY <1>0, GotoMoves DEF MandateInv
<1>2. \A d \in Call : d \in Authorized' => d \in Authorized
  BY <1>1 DEF Authorized
<1>3. AuthorizedWasApproved'
  <2> SUFFICES ASSUME NEW d \in Authorized', NEW m \in MandatesOf(d)
               PROVE  mandate'[m].proof # None /\ Unexpired(m, call'[d].now)
    BY DEF AuthorizedWasApproved, MandatesOf, Unexpired
  <2>1. d \in Call /\ d \in Authorized
    BY <1>2 DEF Authorized
  <2>2. mandate[m].proof # None /\ Unexpired(m, call[d].now)
    BY <2>1 DEF MandateInv, AuthorizedWasApproved
  <2>3. QED
    BY <1>1, <2>1, <2>2 DEF registryVars
<1>4. QED
  BY <1>1, <1>3

(* Steps of a call that leave the ledger alone.                             *)
LEMMA GotoKeepsHolding ==
    ASSUME MandateInv, NEW c \in Call,
           NEW p \in {"reserved", "releasing", "closed", "rejected"}, Goto(c, p),
           p # "rejected" => c \in Holding,
           UNCHANGED reservations
    PROVE  HoldingIsReserved'
<1>1. /\ call'[c].pc = p
      /\ \A d \in Call : call'[d].now = call[d].now
      /\ \A d \in Call \ {c} : call'[d] = call[d]
  BY GotoMoves DEF MandateInv
<1>2. \A d \in Call : d \in Holding' => d \in Holding
  BY <1>1 DEF Holding
<1>3. \A d \in Call : OwnReservation(d)' = OwnReservation(d)
  BY <1>1 DEF OwnReservation
<1>4. Holding' \subseteq Call
  BY DEF Holding
<1>5. QED
  BY <1>2, <1>3, <1>4 DEF MandateInv, HoldingIsReserved

(* A call reserves: its transaction had no reservation, so no other call    *)
(* holds one for it.                                                        *)
LEMMA ReserveKeepsHolding ==
    ASSUME MandateInv, NEW c \in Call, call[c].pc = "loaded",
           NEW p \in {"reserved", "rejected"}, Goto(c, p), ReserveFor(c)
    PROVE  HoldingIsReserved'
<1>1. /\ call'[c].pc = p
      /\ \A d \in Call : call'[d].now = call[d].now
      /\ \A d \in Call \ {c} : call'[d] = call[d]
  BY GotoMoves DEF MandateInv
<1>2. \A d \in Call : d \in Holding' => d \in Holding \/ d = c
  BY <1>1 DEF Holding
<1>3. \A d \in Call : OwnReservation(d)' = OwnReservation(d)
  BY <1>1 DEF OwnReservation
<1>4. reservations' = reservations \cup {OwnReservation(c)}
  BY DEF ReserveFor, Reserve, OwnReservation
<1>5. \A r \in reservations : r.tx # transactionId[c]
  BY DEF ReserveFor, Reserve, CanReserve, Unused
<1>6. \A d \in Holding : d \in Call /\ OwnReservation(d) \in reservations
  BY DEF MandateInv, HoldingIsReserved, Holding
<1>7. \A d \in Holding : transactionId[d] # transactionId[c]
  BY <1>5, <1>6 DEF OwnReservation
<1>8. Holding' \subseteq Call
  BY DEF Holding
<1>9. \A d \in Holding' : OwnReservation(d)' \in reservations'
  BY <1>2, <1>3, <1>4, <1>6, <1>8
<1>10. \A d, e \in Holding' : transactionId[d] = transactionId[e] => d = e
  BY <1>2, <1>7, <1>8 DEF MandateInv, HoldingIsReserved
<1>11. QED
  BY <1>9, <1>10 DEF HoldingIsReserved

(* A call releases what it holds: the other calls hold other transactions.  *)
LEMMA ReleaseKeepsHolding ==
    ASSUME MandateInv, NEW c \in Holding, Goto(c, "rejected"),
           Release(transactionId[c])
    PROVE  HoldingIsReserved'
<1>0. c \in Call
  BY DEF Holding
<1>1. /\ call'[c].pc = "rejected"
      /\ \A d \in Call : call'[d].now = call[d].now
      /\ \A d \in Call \ {c} : call'[d] = call[d]
  BY <1>0, GotoMoves DEF MandateInv
<1>2. \A d \in Call : d \in Holding' => d \in Holding /\ d # c
  BY <1>1 DEF Holding
<1>3. \A d \in Call : OwnReservation(d)' = OwnReservation(d)
  BY <1>1 DEF OwnReservation
<1>4. reservations' = {r \in reservations : r.tx # transactionId[c]}
  BY DEF Release
<1>5. Holding' \subseteq Call
  BY DEF Holding
<1>6. ASSUME NEW d \in Holding' PROVE OwnReservation(d)' \in reservations'
  <2>1. d \in Call /\ d \in Holding /\ d # c
    BY <1>2, <1>5
  <2>2. OwnReservation(d) \in reservations /\ transactionId[d] # transactionId[c]
    BY <2>1 DEF MandateInv, HoldingIsReserved
  <2>3. QED
    BY <1>3, <1>4, <2>1, <2>2 DEF OwnReservation
<1>7. \A d, e \in Holding' : transactionId[d] = transactionId[e] => d = e
  BY <1>2, <1>5 DEF MandateInv, HoldingIsReserved
<1>8. QED
  BY <1>6, <1>7 DEF HoldingIsReserved

(* A call reads its mandates, and the clock it will go by.                  *)
LEMMA LoadKeeps ==
    ASSUME MandateInv, NEW c \in Call, CloseLoad(c)
    PROVE  CallFacts'
<1>1. call' = [call EXCEPT ![c] = [pc |-> "loaded", now |-> clock]]
      /\ UNCHANGED <<registryVars, ledgerVars>>
  BY DEF CloseLoad
<1>2. clock \in Nat
  BY DEF MandateInv, ApprovalInv, MandatesTypeOK
<1>3. CallTypeOK'
  BY <1>1, <1>2 DEF MandateInv, CallTypeOK
<1>4. /\ call'[c] = [pc |-> "loaded", now |-> clock]
      /\ \A d \in Call \ {c} : call'[d] = call[d]
  BY <1>1 DEF MandateInv, CallTypeOK
<1>5. AuthorizedWasApproved'
  <2> SUFFICES ASSUME NEW d \in Authorized', NEW m \in MandatesOf(d)
               PROVE  mandate'[m].proof # None /\ Unexpired(m, call'[d].now)
    BY DEF AuthorizedWasApproved, MandatesOf, Unexpired
  <2>0. mandate' = mandate
    BY <1>1 DEF registryVars
  <2>1. CASE d = c
    BY <1>4, <2>0, <2>1 DEF CloseLoad, AuthorizedActive
  <2>2. CASE d # c
    <3>1. d \in Authorized /\ call'[d] = call[d]
      BY <1>4, <2>2 DEF Authorized
    <3>2. QED
      BY <2>0, <3>1 DEF MandateInv, AuthorizedWasApproved
  <2>3. QED
    BY <2>1, <2>2
<1>6. HoldingIsReserved'
  <2>1. \A d \in Holding' : d \in Holding /\ d \in Call /\ call'[d] = call[d]
    BY <1>4 DEF Holding
  <2>2. \A d \in Holding' : OwnReservation(d)' = OwnReservation(d)
    BY <2>1 DEF OwnReservation
  <2>3. QED
    BY <1>1, <2>1, <2>2 DEF MandateInv, HoldingIsReserved, ledgerVars
<1>7. QED
  BY <1>3, <1>5, <1>6 DEF CallFacts

CallStep(c) ==
    \/ CloseLoad(c) \/ CloseRefuse(c) \/ CloseReserve(c)
    \/ CloseReserveRefused(c) \/ CloseReserveLost(c) \/ CloseSigned(c)
    \/ CloseSignFails(c) \/ CloseRelease(c) \/ CloseReleaseLost(c)

(* Every step of a call keeps the ledger's invariant and the calls'.        *)
LEMMA CallStepKeeps ==
    ASSUME MandateInv, NEW c \in Call, CallStep(c)
    PROVE  LedgerInv' /\ CallFacts'
<1>0. /\ openCheckout[c] \in LedgerMandate /\ openPayment[c] \in LedgerMandate
      /\ transactionId[c] \in Transaction
      /\ call[c].now \in Nat
  BY CallAssumption DEF MandateInv, CallTypeOK
<1>1. UNCHANGED ledgerVars => LedgerInv'
  BY DEF MandateInv, LedgerInv, LedgerTypeOK, ledgerVars
<1>2. CASE CloseLoad(c)
  BY <1>1, <1>2, LoadKeeps DEF CloseLoad
<1>3. CASE CloseRefuse(c) \/ CloseReserveRefused(c)
  <2>1. /\ Goto(c, "rejected") /\ c \in Authorized
        /\ UNCHANGED <<registryVars, ledgerVars>>
    BY <1>3 DEF CloseRefuse, CloseReserveRefused, Authorized
  <2>2. UNCHANGED reservations
    BY <2>1 DEF ledgerVars
  <2>3. QED
    BY <1>1, <2>1, <2>2, GotoKeepsApproval, GotoKeepsHolding DEF CallFacts
<1>4. CASE CloseReserve(c) \/ CloseReserveLost(c)
  <2>1. PICK p \in {"reserved", "rejected"} : Goto(c, p)
    BY <1>4 DEF CloseReserve, CloseReserveLost
  <2>2. /\ c \in Authorized /\ call[c].pc = "loaded" /\ ReserveFor(c)
        /\ UNCHANGED registryVars
    BY <1>4 DEF CloseReserve, CloseReserveLost, Authorized
  <2>3. LedgerInv'
    BY <1>0, <2>2, ReserveKeeps DEF MandateInv, ReserveFor
  <2>4. QED
    BY <2>1, <2>2, <2>3, GotoKeepsApproval, ReserveKeepsHolding DEF CallFacts
<1>5. CASE CloseSigned(c) \/ CloseSignFails(c)
  <2>1. PICK p \in {"closed", "releasing"} : Goto(c, p)
    BY <1>5 DEF CloseSigned, CloseSignFails
  <2>2. /\ c \in Authorized /\ c \in Holding
        /\ UNCHANGED <<registryVars, ledgerVars>>
    BY <1>5 DEF CloseSigned, CloseSignFails, Authorized, Holding
  <2>3. UNCHANGED reservations
    BY <2>2 DEF ledgerVars
  <2>4. QED
    BY <1>1, <2>1, <2>2, <2>3, GotoKeepsApproval, GotoKeepsHolding
       DEF CallFacts
<1>6. CASE CloseRelease(c)
  <2>1. /\ c \in Authorized /\ c \in Holding /\ Goto(c, "rejected")
        /\ Release(transactionId[c]) /\ UNCHANGED registryVars
    BY <1>6 DEF CloseRelease, Authorized, Holding
  <2>2. LedgerInv'
    BY <1>0, <2>1, ReleaseKeeps DEF MandateInv
  <2>3. QED
    BY <2>1, <2>2, GotoKeepsApproval, ReleaseKeepsHolding DEF CallFacts
<1>7. CASE CloseReleaseLost(c)
  <2>1. /\ Goto(c, "rejected") /\ c \in Authorized
        /\ UNCHANGED <<registryVars, ledgerVars>>
    BY <1>7 DEF CloseReleaseLost, Authorized
  <2>2. UNCHANGED reservations
    BY <2>1 DEF ledgerVars
  <2>3. QED
    BY <1>1, <2>1, <2>2, GotoKeepsApproval, GotoKeepsHolding DEF CallFacts
<1>8. QED
  BY <1>2, <1>3, <1>4, <1>5, <1>6, <1>7 DEF CallStep

(* A step of the registry takes no proof away from a call that went past    *)
(* getAuthorizedActive, though it may revoke the mandate.                   *)
LEMMA RegistryStepKeeps ==
    ASSUME MandateInv, MandatesNext, UNCHANGED <<ledgerVars, call>>
    PROVE  LedgerInv' /\ CallFacts'
<1>1. LedgerInv'
  BY DEF MandateInv, LedgerInv, LedgerTypeOK, ledgerVars
<1>2. CallTypeOK' /\ HoldingIsReserved'
  BY DEF MandateInv, CallTypeOK, HoldingIsReserved, Holding, OwnReservation,
     ledgerVars
<1>3. AuthorizedWasApproved'
  <2> SUFFICES ASSUME NEW c \in Authorized, NEW m \in MandatesOf(c)
               PROVE  mandate'[m].proof # None /\ Unexpired(m, call[c].now)
    BY DEF AuthorizedWasApproved, MandatesOf, Unexpired, Authorized
  <2>1. m \in Mandate
    BY CallAssumption DEF MandatesOf, Authorized
  <2>2. mandate[m].proof # None /\ Unexpired(m, call[c].now)
    BY DEF MandateInv, AuthorizedWasApproved
  <2>3. QED
    BY <2>1, <2>2, RegistryKeeps DEF MandateInv
<1>4. QED
  BY <1>1, <1>2, <1>3 DEF CallFacts

-----------------------------------------------------------------------------
(* The theorems. *)

(* The initial states. *)
LEMMA MandateInitially == Init => MandateInv
<1> SUFFICES ASSUME Init
             PROVE  MandateInv
  OBVIOUS
<1> USE DEF Init
<1>1. ApprovalInv
  BY MandateAssumption DEF MandatesInit, ApprovalInv, MandatesTypeOK, Statuses,
     ChallengesInUse, SectionIsHeld, ProofsAreSpent, ApprovalSpentOnce, Inside,
     NoChallenge, NoApproval
<1>2. LedgerInv
  <2>1. LedgerTypeOK /\ reservations = {}
    BY DEF LedgerInit, LedgerTypeOK
  <2>2. IsFiniteSet({}) /\ Cardinality({}) = 0
    BY FS_EmptySet
  <2>3. SumOver(Weight, {}) = 0
    BY <2>2, SumUnfolds
  <2>4. \A m, t : RelevantIn({}, m) = {} /\ Window({}, m, t) = {}
    BY DEF RelevantIn, Window
  <2>5. Limited({})
    <3>1. \A m \in LedgerMandate :
            /\ totalBudgetMinor[m] \in Nat /\ maxOperations[m] \in Nat
            /\ maxOperationsPerWindow[m] \in Nat
      BY LedgerAssumption
    <3>2. \A n \in Nat : 0 <= n
      OBVIOUS
    <3>3. ASSUME NEW m \in LedgerMandate
          PROVE  /\ SumOver(Weight, RelevantIn({}, m)) <= totalBudgetMinor[m]
                 /\ Cardinality(RelevantIn({}, m)) <= maxOperations[m]
                 /\ \A t \in Nat :
                      Cardinality(Window({}, m, t))
                        <= maxOperationsPerWindow[m]
      <4>1. /\ RelevantIn({}, m) = {}
            /\ \A t \in Nat : Window({}, m, t) = {}
        BY <2>4
      <4>2. /\ 0 <= totalBudgetMinor[m] /\ 0 <= maxOperations[m]
            /\ 0 <= maxOperationsPerWindow[m]
        BY <3>1, <3>2
      <4>3. QED
        BY <2>2, <2>3, <4>1, <4>2
    <3>4. QED
      BY <3>3 DEF Limited
  <2>6. QED
    BY <2>1, <2>2, <2>5 DEF LedgerInv
<1>3. CallTypeOK
  BY DEF CallTypeOK
<1>4. Authorized = {} /\ Holding = {}
  BY DEF Authorized, Holding
<1>5. QED
  BY <1>1, <1>2, <1>3, <1>4 DEF MandateInv, AuthorizedWasApproved,
     HoldingIsReserved

(* Every step of the system keeps the invariant. *)
LEMMA MandateStep == MandateInv /\ [Next]_vars => MandateInv'
<1> SUFFICES ASSUME MandateInv, [Next]_vars
             PROVE  MandateInv'
  OBVIOUS
<1>1. CASE MandatesNext /\ UNCHANGED <<ledgerVars, call>>
  BY <1>1, ApprovalStep, RegistryStepKeeps DEF MandateInv, CallFacts
<1>2. ASSUME NEW c \in Call, CallStep(c)
      PROVE  MandateInv'
  <2>1. UNCHANGED <<registryVars, kya, clock>>
    BY <1>2 DEF CallStep, CloseLoad, CloseRefuse, CloseReserve,
       CloseReserveRefused, CloseReserveLost, CloseSigned, CloseSignFails,
       CloseRelease, CloseReleaseLost
  <2>2. QED
    BY <1>2, <2>1, ApprovalUnchanged, CallStepKeeps DEF MandateInv, CallFacts
<1>3. CASE UNCHANGED vars
  BY <1>3, ApprovalUnchanged DEF vars, MandateInv, LedgerInv, LedgerTypeOK,
     ledgerVars, CallTypeOK, AuthorizedWasApproved, HoldingIsReserved,
     Authorized, Holding, OwnReservation, registryVars
<1>4. QED
  BY <1>1, <1>2, <1>3 DEF Next, CallStep

(* The inductive invariant: an approval inside the critical section holds   *)
(* the chain and its mandate awaits a signature, a proof is a spent         *)
(* challenge of its own, every call past the first step has proofs behind   *)
(* it, and every call that holds a reservation has one nobody else holds.   *)
THEOREM MandateInvariant == Spec => []MandateInv
BY MandateInitially, MandateStep, PTL DEF Spec

(* The variables keep their types. *)
THEOREM MandateTypeCorrect == Spec => []TypeOK
<1>1. MandateInv => TypeOK
  BY DEF MandateInv, ApprovalInv, LedgerInv, CallTypeOK, TypeOK
<1>2. QED
  BY <1>1, MandateInvariant, PTL

(* A challenge is spent exactly when it activates its mandate, for any      *)
(* number of approvals in flight.                                           *)
THEOREM MandateApprovals == Spec => []ApprovalSpentOnce
<1>1. MandateInv => ApprovalSpentOnce
  BY DEF MandateInv, ApprovalInv
<1>2. QED
  BY <1>1, MandateInvariant, PTL

(* The limits hold for any budgets, windows, amounts and number of calls,   *)
(* in whatever order stamped reservations reach the ledger.                 *)
THEOREM MandateLimits == Spec => []LimitsHold
<1>1. MandateInv => LimitsHold
  BY LimitedGivesLimits DEF MandateInv
<1>2. QED
  BY <1>1, MandateInvariant, PTL

(* What the invariant says of a closed pair.                                *)
LEMMA ClosingsFollow ==
    MandateInv => ClosedIsReserved /\ OneClosePerTransaction /\ ClosedWasApproved
<1>1. ASSUME MandateInv
      PROVE  ClosedIsReserved /\ OneClosePerTransaction /\ ClosedWasApproved
  <2>1. \A c \in Closed : c \in Call /\ c \in Holding /\ c \in Authorized
    BY DEF Closed, Holding, Authorized
  <2>2. ClosedIsReserved /\ OneClosePerTransaction
    BY <1>1, <2>1 DEF MandateInv, HoldingIsReserved, OwnReservation,
       ClosedIsReserved, OneClosePerTransaction
  <2>3. ASSUME NEW c \in Closed, NEW m \in MandatesOf(c)
        PROVE  /\ mandate[m].proof # None
               /\ challenge[mandate[m].proof].mandate = m
               /\ challenge[mandate[m].proof].state = "consumed"
               /\ Unexpired(m, call[c].now)
    <3>1. m \in Mandate
      BY <2>1, CallAssumption DEF MandatesOf
    <3>2. mandate[m].proof # None /\ Unexpired(m, call[c].now)
      BY <1>1, <2>1 DEF MandateInv, AuthorizedWasApproved
    <3>3. QED
      BY <1>1, <3>1, <3>2 DEF MandateInv, ApprovalInv, ProofsAreSpent
  <2>4. QED
    BY <2>2, <2>3 DEF ClosedWasApproved
<1>2. QED
  BY <1>1

(* A closed pair keeps its reservation.                                     *)
THEOREM MandateReserved == Spec => []ClosedIsReserved
<1>1. MandateInv => ClosedIsReserved
  BY ClosingsFollow
<1>2. QED
  BY <1>1, MandateInvariant, PTL

(* A closed pair is the only one of its transaction.                        *)
THEOREM MandateClosedOnce == Spec => []OneClosePerTransaction
<1>1. MandateInv => OneClosePerTransaction
  BY ClosingsFollow
<1>2. QED
  BY <1>1, MandateInvariant, PTL

(* A closed pair has the user's spent challenges behind it, and was made    *)
(* within its mandates' lifetimes.                                          *)
THEOREM MandateClosedApproved == Spec => []ClosedWasApproved
<1>1. MandateInv => ClosedWasApproved
  BY ClosingsFollow
<1>2. QED
  BY <1>1, MandateInvariant, PTL

(* A revocation is never written over: an activation that could, holds the  *)
(* chain that revoke waits for.                                             *)
THEOREM MandateRevocation == Spec => RevokedIsFinal
<1>1. ASSUME MandateInv, [Next]_vars
      PROVE  \A m \in Mandate : mandate[m].status = "revoked" =>
                                  mandate'[m].status = "revoked"
  <2>1. CASE MandatesNext
    BY <1>1, <2>1, RegistryKeeps DEF MandateInv
  <2>2. CASE UNCHANGED mandate
    BY <2>2
  <2>3. QED
    BY <1>1, <2>1, <2>2 DEF Next, vars, registryVars, CloseLoad, CloseRefuse,
       CloseReserve, CloseReserveRefused, CloseReserveLost, CloseSigned,
       CloseSignFails, CloseRelease, CloseReleaseLost
<1>2. QED
  BY <1>1, MandateInvariant, PTL DEF Spec, RevokedIsFinal

-----------------------------------------------------------------------------
(* The anchor outbox. *)

Busy(w) == worker[w].pc # "idle"

JobOf(w) == jobs[worker[w].job]

(* A claim that is held was handed out: tokens of the future are unused.    *)
ClaimsIssued ==
    /\ \A i \in DOMAIN jobs :
         jobs[i].status = "processing" => jobs[i].claimToken <= issued
    /\ \A w \in Worker :
         Busy(w) => /\ worker[w].job \in DOMAIN jobs
                    /\ worker[w].token <= issued

(* No two workers are busy under one claim. *)
ClaimsDistinct ==
    \A v, w \in Worker :
        Busy(v) /\ Busy(w) /\ worker[v].token = worker[w].token => v = w

(* A piece of evidence has one job. *)
OneJobPerKey ==
    \A i, j \in DOMAIN jobs :
        EvidenceKey(jobs[i].evidence) = EvidenceKey(jobs[j].evidence) => i = j

(* What was sent to the contract carries an old token and the evidence of a *)
(* job - of the job of the worker that still waits for it, if one does.     *)
SentIsKnown ==
    \A tx \in mempool \cup emitted :
        /\ tx.token <= issued
        /\ \E i \in DOMAIN jobs : jobs[i].evidence = tx.evidence
        /\ \A w \in Worker :
             Busy(w) /\ worker[w].token = tx.token
                 => JobOf(w).evidence = tx.evidence

(* The contract's mapping is what its events say. *)
AnchoredIsEmitted ==
    \A tx \in emitted : /\ closedCheckoutHash[tx.evidence] \in anchored
                        /\ closedPaymentHash[tx.evidence] \in anchored

OutboxInv ==
    /\ OutboxTypeOK
    /\ ClaimsIssued
    /\ ClaimsDistinct
    /\ OneJobPerKey
    /\ SentIsKnown
    /\ AnchoredIsEmitted

-----------------------------------------------------------------------------
(* Records and sequences of jobs. *)

(* What the methods of the outbox make of a job is a job of the same        *)
(* evidence.                                                                *)
LEMMA JobEdits ==
    ASSUME OutboxTypeOK, NEW j \in Job, NEW t \in Nat
    PROVE  /\ GiveUp(j) \in Job /\ GiveUp(j).evidence = j.evidence
           /\ GiveUp(j).status = "failed"
           /\ Claim(j, t) \in Job /\ Claim(j, t).evidence = j.evidence
           /\ Claim(j, t).status = "processing" /\ Claim(j, t).claimToken = t
           /\ MarkAnchored(j, t) \in Job
           /\ MarkAnchored(j, t).evidence = j.evidence
           /\ MarkAnchored(j, t).status = "processing" =>
                  MarkAnchored(j, t).claimToken = j.claimToken
           /\ MarkFailed(j, t) \in Job
           /\ MarkFailed(j, t).evidence = j.evidence
           /\ MarkFailed(j, t).status = "processing" =>
                  MarkFailed(j, t).claimToken = j.claimToken
<1>1. time + leaseMs \in Nat /\ j.attempts + 1 \in Nat
  BY OutboxAssumption DEF OutboxTypeOK, Job
<1>2. /\ GiveUp(j) \in Job /\ GiveUp(j).evidence = j.evidence
      /\ GiveUp(j).status = "failed"
  <2> DEFINE n == j.attempts + 1
             z == 0
  <2>1. n \in Nat /\ z \in Nat
    BY <1>1
  <2>2. GiveUp(j) = [j EXCEPT !.attempts = n, !.status = "failed",
                              !.claimToken = z, !.leaseUntil = z]
    BY DEF GiveUp, NoToken
  <2> HIDE DEF n, z
  <2>3. QED
    BY <2>1, <2>2 DEF Job
<1>3. /\ Claim(j, t) \in Job /\ Claim(j, t).evidence = j.evidence
      /\ Claim(j, t).status = "processing" /\ Claim(j, t).claimToken = t
  <2> DEFINE n == j.attempts + 1
             u == time + leaseMs
  <2>1. n \in Nat /\ u \in Nat
    BY <1>1
  <2>2. Claim(j, t) = [j EXCEPT !.attempts = n, !.status = "processing",
                                !.claimToken = t, !.leaseUntil = u]
    BY DEF Claim
  <2> HIDE DEF n, u
  <2>3. QED
    BY <2>1, <2>2 DEF Job
<1>4. /\ MarkAnchored(j, t) \in Job
      /\ MarkAnchored(j, t).evidence = j.evidence
      /\ MarkAnchored(j, t).status = "processing" =>
             MarkAnchored(j, t).claimToken = j.claimToken
  BY DEF MarkAnchored, Job, NoToken
<1>5. /\ MarkFailed(j, t) \in Job
      /\ MarkFailed(j, t).evidence = j.evidence
      /\ MarkFailed(j, t).status = "processing" =>
             MarkFailed(j, t).claimToken = j.claimToken
  BY DEF MarkFailed, Job, NoToken
<1>6. QED
  BY <1>2, <1>3, <1>4, <1>5

(* A function that has a job for every job is an outbox again. *)
LEMMA JobsAgain ==
    ASSUME OutboxTypeOK, NEW f, f = [i \in DOMAIN jobs |-> f[i]],
           \A i \in DOMAIN jobs : f[i] \in Job
    PROVE  f \in Seq(Job) /\ DOMAIN f = DOMAIN jobs
<1>1. DOMAIN jobs = 1 .. Len(jobs) /\ Len(jobs) \in Nat
  BY DEF OutboxTypeOK
<1>2. f \in [1 .. Len(jobs) -> Job]
  BY <1>1
<1>3. QED
  BY <1>1, <1>2

(* A step that keeps every job in its place, with its evidence.             *)
JobsStay ==
    /\ DOMAIN jobs' = DOMAIN jobs
    /\ \A i \in DOMAIN jobs : jobs'[i].evidence = jobs[i].evidence

(* Such a step leaves the evidence distinct.                                *)
LEMMA KeysStay ==
    ASSUME OneJobPerKey, JobsStay
    PROVE  OneJobPerKey'
  BY DEF OneJobPerKey, JobsStay, EvidenceKey

(* If, moreover, nothing is sent and no worker takes up a claim, what is    *)
(* known of the transactions stays true.                                    *)
LEMMA SentStaysKnown ==
    ASSUME SentIsKnown, JobsStay, ClaimsIssued,
           mempool' \cup emitted' \subseteq mempool \cup emitted,
           issued' = issued,
           \A w \in Worker : Busy(w)' =>
               Busy(w) /\ worker'[w].job = worker[w].job
                       /\ worker'[w].token = worker[w].token
    PROVE  SentIsKnown'
<1> SUFFICES ASSUME NEW tx \in mempool' \cup emitted'
             PROVE  /\ tx.token <= issued'
                    /\ \E i \in DOMAIN jobs' : jobs'[i].evidence = tx.evidence
                    /\ \A w \in Worker :
                         Busy(w)' /\ worker'[w].token = tx.token
                             => jobs'[worker'[w].job].evidence = tx.evidence
  BY DEF SentIsKnown, JobOf
<1>1. tx \in mempool \cup emitted
  OBVIOUS
<1>2. tx.token <= issued'
  BY <1>1 DEF SentIsKnown
<1>3. \E i \in DOMAIN jobs' : jobs'[i].evidence = tx.evidence
  BY <1>1 DEF SentIsKnown, JobsStay
<1>4. ASSUME NEW w \in Worker, Busy(w)', worker'[w].token = tx.token
      PROVE  jobs'[worker'[w].job].evidence = tx.evidence
  <2>1. Busy(w) /\ worker[w].token = tx.token /\ worker[w].job \in DOMAIN jobs
    BY <1>4 DEF ClaimsIssued
  <2>2. jobs[worker[w].job].evidence = tx.evidence
    BY <1>1, <2>1 DEF SentIsKnown, JobOf
  <2>3. QED
    BY <1>4, <2>1, <2>2 DEF JobsStay
<1>5. QED
  BY <1>2, <1>3, <1>4

-----------------------------------------------------------------------------
(* The invariant, action by action. *)

(* enqueue: a new job under a key of its own. *)
LEMMA EnqueueInv ==
    ASSUME OutboxInv, NEW e \in Evidence, Enqueue(e)
    PROVE  OutboxInv'
<1> USE DEF OutboxInv
<1>1. NewJob(e) \in Job /\ NewJob(e).status = "pending"
      /\ NewJob(e).evidence = e
  BY DEF NewJob, Job, NoToken
<1> DEFINE n == Len(jobs) + 1
<1>2. /\ n \in Nat /\ n \notin DOMAIN jobs
      /\ jobs' \in Seq(Job) /\ DOMAIN jobs' = DOMAIN jobs \cup {n}
      /\ jobs'[n] = NewJob(e)
      /\ \A i \in DOMAIN jobs : jobs'[i] = jobs[i]
  BY <1>1 DEF Enqueue, OutboxTypeOK
<1> HIDE DEF n
<1>3. OutboxTypeOK'
  BY <1>2 DEF OutboxTypeOK, Enqueue, chainVars
<1>4. ClaimsIssued'
  <2>1. \A i \in DOMAIN jobs' :
          jobs'[i].status = "processing" => jobs'[i].claimToken <= issued'
    BY <1>1, <1>2 DEF ClaimsIssued, Enqueue
  <2>2. QED
    BY <1>2, <2>1 DEF ClaimsIssued, Enqueue, Busy
<1>5. ClaimsDistinct'
  BY DEF ClaimsDistinct, Enqueue, Busy
<1>6. OneJobPerKey'
  BY <1>1, <1>2 DEF OneJobPerKey, Enqueue, EvidenceKey
<1>7. SentIsKnown'
  <2> SUFFICES ASSUME NEW tx \in mempool \cup emitted
               PROVE  /\ tx.token <= issued
                      /\ \E i \in DOMAIN jobs' :
                           jobs'[i].evidence = tx.evidence
                      /\ \A w \in Worker :
                           Busy(w) /\ worker[w].token = tx.token
                               => jobs'[worker[w].job].evidence = tx.evidence
    BY DEF SentIsKnown, JobOf, Busy, Enqueue, chainVars
  <2>1. \A w \in Worker : Busy(w) => worker[w].job \in DOMAIN jobs
    BY DEF ClaimsIssued
  <2>2. QED
    BY <1>2, <2>1 DEF SentIsKnown, JobOf
<1>8. AnchoredIsEmitted'
  BY DEF AnchoredIsEmitted, Enqueue, chainVars
<1>9. QED
  BY <1>3, <1>4, <1>5, <1>6, <1>7, <1>8

(* claimNext: a new token, one job claimed, the exhausted ones before it    *)
(* given up.                                                                *)
LEMMA ClaimNextInv ==
    ASSUME OutboxInv, NEW w \in Worker, ClaimNext(w)
    PROVE  OutboxInv' /\ JobsStay
<1> USE DEF OutboxInv
<1>1. PICK i \in DOMAIN jobs :
        /\ IsNext(i)
        /\ issued' = issued + 1
        /\ jobs' = [j \in DOMAIN jobs |->
                      IF j = i THEN Claim(jobs[j], issued + 1)
                      ELSE IF j < i /\ Due(jobs[j]) THEN GiveUp(jobs[j])
                      ELSE jobs[j]]
        /\ worker' = [worker EXCEPT
                        ![w] = [pc |-> "claimed", job |-> i,
                                token |-> issued + 1]]
        /\ UNCHANGED <<chainVars, time>>
  BY DEF ClaimNext
<1>2. issued \in Nat /\ issued + 1 \in Nat /\ i \in Nat
  BY DEF OutboxTypeOK
<1>3. \A j \in DOMAIN jobs :
        /\ jobs[j] \in Job
        /\ jobs'[j] \in Job /\ jobs'[j].evidence = jobs[j].evidence
        /\ jobs'[j].status = "processing" =>
              \/ j = i /\ jobs'[j].claimToken = issued + 1
              \/ jobs'[j] = jobs[j]
  <2> SUFFICES ASSUME NEW j \in DOMAIN jobs
               PROVE  /\ jobs[j] \in Job
                      /\ jobs'[j] \in Job
                      /\ jobs'[j].evidence = jobs[j].evidence
                      /\ jobs'[j].status = "processing" =>
                            \/ j = i /\ jobs'[j].claimToken = issued + 1
                            \/ jobs'[j] = jobs[j]
    OBVIOUS
  <2>1. jobs[j] \in Job
    BY DEF OutboxTypeOK
  <2>2. QED
    BY <1>1, <1>2, <2>1, JobEdits
<1>4. jobs' \in Seq(Job) /\ JobsStay
  <2>1. jobs' = [j \in DOMAIN jobs |-> jobs'[j]]
    BY <1>1
  <2>2. QED
    BY <1>3, <2>1, JobsAgain DEF JobsStay
<1>5. /\ worker' \in [Worker -> [pc : {"idle", "claimed", "sent"},
                                 job : Nat, token : Nat]]
      /\ worker'[w] = [pc |-> "claimed", job |-> i, token |-> issued + 1]
      /\ \A v \in Worker \ {w} : worker'[v] = worker[v]
  BY <1>1, <1>2 DEF OutboxTypeOK
<1>6. OutboxTypeOK'
  BY <1>1, <1>2, <1>4, <1>5 DEF OutboxTypeOK, chainVars
<1>7. ClaimsIssued'
  <2>1. ASSUME NEW j \in DOMAIN jobs, jobs'[j].status = "processing"
        PROVE  jobs'[j].claimToken <= issued'
    <3>1. CASE j = i /\ jobs'[j].claimToken = issued + 1
      BY <1>1, <1>2, <3>1
    <3>2. CASE jobs'[j] = jobs[j]
      <4>1. jobs[j].claimToken <= issued /\ jobs[j].claimToken \in Nat
        BY <1>3, <2>1, <3>2 DEF ClaimsIssued, Job
      <4>2. QED
        BY <1>1, <1>2, <3>2, <4>1
    <3>3. QED
      BY <1>3, <2>1, <3>1, <3>2
  <2>2. ASSUME NEW v \in Worker, Busy(v)'
        PROVE  worker'[v].job \in DOMAIN jobs' /\ worker'[v].token <= issued'
    <3>1. CASE v = w
      BY <1>1, <1>2, <1>4, <1>5, <3>1 DEF JobsStay
    <3>2. CASE v # w
      BY <1>1, <1>2, <1>4, <1>5, <2>2, <3>2
         DEF JobsStay, ClaimsIssued, Busy, OutboxTypeOK
    <3>3. QED
      BY <3>1, <3>2
  <2>3. QED
    BY <1>4, <2>1, <2>2 DEF ClaimsIssued, JobsStay
<1>8. \A v \in Worker \ {w} :
        Busy(v)' => Busy(v) /\ worker'[v].token # issued + 1
  BY <1>2, <1>5 DEF ClaimsIssued, Busy, OutboxTypeOK
<1>9. ClaimsDistinct'
  <2> SUFFICES ASSUME NEW u \in Worker, NEW v \in Worker, Busy(u)', Busy(v)',
                      worker'[u].token = worker'[v].token
               PROVE  u = v
    BY DEF ClaimsDistinct
  <2>1. CASE u = w \/ v = w
    BY <1>5, <1>8, <2>1
  <2>2. CASE u # w /\ v # w
    BY <1>5, <1>8, <2>2 DEF ClaimsDistinct
  <2>3. QED
    BY <2>1, <2>2
<1>10. OneJobPerKey'
  BY <1>4, KeysStay
<1>11. SentIsKnown'
  <2> SUFFICES ASSUME NEW tx \in mempool \cup emitted
               PROVE  /\ tx.token <= issued'
                      /\ \E j \in DOMAIN jobs' :
                           jobs'[j].evidence = tx.evidence
                      /\ \A v \in Worker :
                           Busy(v)' /\ worker'[v].token = tx.token
                               => jobs'[worker'[v].job].evidence = tx.evidence
    BY <1>1 DEF SentIsKnown, JobOf, chainVars
  <2>1. tx.token \in Nat /\ tx.token <= issued
    BY DEF OutboxTypeOK, AnchorTransaction, SentIsKnown
  <2>2. tx.token <= issued' /\ tx.token # issued + 1
    BY <1>1, <1>2, <2>1
  <2>3. \E j \in DOMAIN jobs' : jobs'[j].evidence = tx.evidence
    BY <1>4 DEF SentIsKnown, JobsStay
  <2>4. ASSUME NEW v \in Worker, Busy(v)', worker'[v].token = tx.token
        PROVE  jobs'[worker'[v].job].evidence = tx.evidence
    <3>1. v # w
      BY <1>5, <2>2, <2>4
    <3>2. Busy(v) /\ worker[v].token = tx.token
          /\ worker'[v].job = worker[v].job /\ worker[v].job \in DOMAIN jobs
      BY <1>5, <1>8, <2>4, <3>1 DEF ClaimsIssued
    <3>3. jobs[worker[v].job].evidence = tx.evidence
      BY <3>2 DEF SentIsKnown, JobOf
    <3>4. QED
      BY <1>4, <3>2, <3>3 DEF JobsStay
  <2>5. QED
    BY <2>2, <2>3, <2>4
<1>12. AnchoredIsEmitted'
  BY <1>1 DEF AnchoredIsEmitted, chainVars
<1>13. QED
  BY <1>4, <1>6, <1>7, <1>9, <1>10, <1>11, <1>12

(* A step that rewrites jobs in their places, gives no job a new claim and  *)
(* moves no worker to another claim.                                        *)
LEMMA EditInv ==
    ASSUME OutboxInv,
           jobs' = [i \in DOMAIN jobs |-> jobs'[i]],
           \A i \in DOMAIN jobs :
               /\ jobs'[i] \in Job
               /\ jobs'[i].evidence = jobs[i].evidence
               /\ jobs'[i].status = "processing" => jobs'[i] = jobs[i],
           \A w \in Worker : worker'[w] = worker[w] \/ worker'[w] = IdleWorker,
           worker' = [w \in Worker |-> worker'[w]],
           UNCHANGED <<issued, chainVars, time>>
    PROVE  OutboxInv' /\ JobsStay
<1> USE DEF OutboxInv
<1>1. jobs' \in Seq(Job) /\ JobsStay
  BY JobsAgain DEF JobsStay
<1>2. \A w \in Worker : Busy(w)' => Busy(w) /\ worker'[w] = worker[w]
  BY DEF Busy, IdleWorker
<1>3. OutboxTypeOK'
  <2>1. \A w \in Worker :
          worker'[w] \in [pc : {"idle", "claimed", "sent"}, job : Nat,
                          token : Nat]
    BY DEF OutboxTypeOK, IdleWorker, NoToken
  <2>2. QED
    BY <1>1, <2>1 DEF OutboxTypeOK, chainVars
<1>4. ClaimsIssued'
  BY <1>1, <1>2 DEF ClaimsIssued, JobsStay
<1>5. ClaimsDistinct'
  BY <1>2 DEF ClaimsDistinct
<1>6. OneJobPerKey'
  BY <1>1, KeysStay
<1>7. SentIsKnown'
  BY <1>1, <1>2, SentStaysKnown DEF chainVars
<1>8. AnchoredIsEmitted'
  BY DEF AnchoredIsEmitted, chainVars
<1>9. QED
  BY <1>1, <1>3, <1>4, <1>5, <1>6, <1>7, <1>8

(* claimNext without a claim: exhausted jobs are given up. *)
LEMMA ClaimNoneInv ==
    ASSUME OutboxInv, NEW w \in Worker, ClaimNone(w)
    PROVE  OutboxInv' /\ JobsStay
<1>1. \A i \in DOMAIN jobs : jobs[i] \in Job
  BY DEF OutboxInv, OutboxTypeOK
<1>2. jobs' = [i \in DOMAIN jobs |-> IF Due(jobs[i]) THEN GiveUp(jobs[i])
                                     ELSE jobs[i]]
  BY DEF ClaimNone
<1>3. \A i \in DOMAIN jobs :
        /\ jobs'[i] \in Job
        /\ jobs'[i].evidence = jobs[i].evidence
        /\ jobs'[i].status = "processing" => jobs'[i] = jobs[i]
  <2> SUFFICES ASSUME NEW i \in DOMAIN jobs
               PROVE  /\ jobs'[i] \in Job
                      /\ jobs'[i].evidence = jobs[i].evidence
                      /\ jobs'[i].status = "processing" => jobs'[i] = jobs[i]
    OBVIOUS
  <2>1. 0 \in Nat /\ jobs[i] \in Job
    BY <1>1
  <2>2. QED
    BY <1>2, <2>1, JobEdits DEF OutboxInv
<1>4. worker' = worker /\ worker' = [v \in Worker |-> worker'[v]]
      /\ UNCHANGED <<issued, chainVars, time>>
  BY DEF ClaimNone, OutboxInv, OutboxTypeOK
<1>5. jobs' = [i \in DOMAIN jobs |-> jobs'[i]]
  BY <1>2
<1>6. QED
  BY <1>3, <1>4, <1>5, EditInv

(* The worker's answer: markAnchored and markFailed never create a claim.   *)
LEMMA AnswerInv ==
    ASSUME OutboxInv, NEW w \in Worker, AnchorSucceeds(w) \/ AnchorFails(w)
    PROVE  /\ OutboxInv' /\ JobsStay
           /\ worker[w].job \in DOMAIN jobs /\ JobOf(w) \in Job
           /\ worker[w].token \in Nat
<1> DEFINE k == worker[w].job
<1>1. k \in DOMAIN jobs /\ jobs[k] \in Job /\ worker[w].token \in Nat
  BY DEF OutboxInv, OutboxTypeOK, ClaimsIssued, Busy, AnchorSucceeds,
         AnchorFails
<1>2. PICK j \in {MarkAnchored(jobs[k], worker[w].token),
                  MarkFailed(jobs[k], worker[w].token)} : Finish(w, j)
  BY DEF AnchorSucceeds, AnchorFails
<1>3. /\ jobs' = [jobs EXCEPT ![k] = j]
      /\ worker' = [worker EXCEPT ![w] = IdleWorker]
      /\ UNCHANGED <<issued, chainVars, time>>
  BY <1>2 DEF Finish
<1>4. /\ j \in Job
      /\ j.evidence = jobs[k].evidence
      /\ j.status = "processing" => j = jobs[k]
  <2>1. CASE j = MarkAnchored(jobs[k], worker[w].token)
    <3>1. j.status = "processing" => j = jobs[k]
      BY <1>1, <2>1 DEF MarkAnchored, Job
    <3>2. QED
      BY <1>1, <2>1, <3>1, JobEdits DEF OutboxInv
  <2>2. CASE j = MarkFailed(jobs[k], worker[w].token)
    <3>1. j.status = "processing" => j = jobs[k]
      BY <1>1, <2>2 DEF MarkFailed, Job
    <3>2. QED
      BY <1>1, <2>2, <3>1, JobEdits DEF OutboxInv
  <2>3. QED
    BY <1>2, <2>1, <2>2
<1> HIDE DEF k
<1>5. \A i \in DOMAIN jobs :
        /\ jobs'[i] \in Job
        /\ jobs'[i].evidence = jobs[i].evidence
        /\ jobs'[i].status = "processing" => jobs'[i] = jobs[i]
  <2> SUFFICES ASSUME NEW i \in DOMAIN jobs
               PROVE  /\ jobs'[i] \in Job
                      /\ jobs'[i].evidence = jobs[i].evidence
                      /\ jobs'[i].status = "processing" => jobs'[i] = jobs[i]
    OBVIOUS
  <2>1. jobs[i] \in Job
    BY DEF OutboxInv, OutboxTypeOK
  <2>2. CASE i = k
    <3>1. jobs'[k] = j
      BY <1>1, <1>3
    <3>2. /\ jobs'[k] \in Job /\ jobs'[k].evidence = jobs[k].evidence
          /\ jobs'[k].status = "processing" => jobs'[k] = jobs[k]
      BY <1>4, <3>1
    <3>3. QED
      BY <2>2, <3>2
  <2>3. CASE i # k
    BY <1>3, <2>1, <2>3
  <2>4. QED
    BY <2>2, <2>3
<1>6. jobs' = [i \in DOMAIN jobs |-> jobs'[i]]
  <2>1. jobs = [i \in DOMAIN jobs |-> jobs[i]]
    BY DEF OutboxInv, OutboxTypeOK
  <2>2. QED
    BY <1>3, <2>1
<1>7. /\ worker' = [v \in Worker |-> worker'[v]]
      /\ \A v \in Worker : worker'[v] = worker[v] \/ worker'[v] = IdleWorker
  BY <1>3 DEF OutboxInv, OutboxTypeOK
<1>8. OutboxInv' /\ JobsStay
  BY <1>3, <1>5, <1>6, <1>7, EditInv
<1>9. QED
  BY <1>1, <1>8 DEF JobOf, k

(* The worker sends its transaction: it carries the worker's own token.     *)
LEMMA SubmitInv ==
    ASSUME OutboxInv, NEW w \in Worker, Submit(w)
    PROVE  OutboxInv'
<1> USE DEF OutboxInv
<1> DEFINE sent == [token |-> worker[w].token, evidence |-> JobOf(w).evidence]
<1>1. /\ Busy(w) /\ worker[w].job \in DOMAIN jobs
      /\ sent \in AnchorTransaction
      /\ mempool' = mempool \cup {sent}
  <2>1. Busy(w) /\ worker[w].job \in DOMAIN jobs
        /\ mempool' = mempool \cup {sent}
    BY DEF Submit, Busy, ClaimsIssued, JobOf
  <2>2. JobOf(w) \in Job /\ worker[w].token \in Nat
    BY <2>1 DEF JobOf, OutboxTypeOK
  <2>3. QED
    BY <2>1, <2>2 DEF Job, AnchorTransaction
<1>2. \A v \in Worker : /\ Busy(v)' <=> Busy(v)
                       /\ worker'[v].job = worker[v].job
                       /\ worker'[v].token = worker[v].token
  BY DEF Submit, Busy, OutboxTypeOK
<1>3. OutboxTypeOK'
  BY <1>1 DEF OutboxTypeOK, Submit
<1>4. ClaimsIssued'
  BY <1>2 DEF ClaimsIssued, Submit
<1>5. ClaimsDistinct'
  BY <1>2 DEF ClaimsDistinct
<1>6. OneJobPerKey'
  BY DEF OneJobPerKey, Submit, EvidenceKey
<1>7. SentIsKnown'
  <2> SUFFICES ASSUME NEW tx \in mempool \cup {sent} \cup emitted
               PROVE  /\ tx.token <= issued
                      /\ \E i \in DOMAIN jobs : jobs[i].evidence = tx.evidence
                      /\ \A v \in Worker :
                           Busy(v) /\ worker[v].token = tx.token
                               => JobOf(v).evidence = tx.evidence
    BY <1>1, <1>2 DEF SentIsKnown, JobOf, Submit
  <2>1. CASE tx = sent
    BY <1>1, <2>1 DEF ClaimsIssued, ClaimsDistinct, JobOf
  <2>2. CASE tx # sent
    BY <2>2 DEF SentIsKnown
  <2>3. QED
    BY <2>1, <2>2
<1>8. AnchoredIsEmitted'
  BY DEF AnchoredIsEmitted, Submit
<1>9. QED
  BY <1>3, <1>4, <1>5, <1>6, <1>7, <1>8

(* The contract executes or refuses a transaction. *)
LEMMA MineInv ==
    ASSUME OutboxInv, NEW tx \in mempool, Mine(tx)
    PROVE  OutboxInv'
<1> USE DEF OutboxInv
<1>1. tx \in AnchorTransaction /\ tx.evidence \in Evidence
  BY DEF OutboxTypeOK, AnchorTransaction
<1>2. OutboxTypeOK'
  BY <1>1, OutboxAssumption DEF OutboxTypeOK, Mine, outboxVars
<1>3. ClaimsIssued' /\ ClaimsDistinct' /\ OneJobPerKey'
  BY DEF ClaimsIssued, ClaimsDistinct, OneJobPerKey, EvidenceKey, Busy, Mine,
         outboxVars
<1>4. mempool' \cup emitted' \subseteq mempool \cup emitted
  BY DEF Mine
<1>5. SentIsKnown'
  BY <1>4, SentStaysKnown DEF Mine, outboxVars, JobsStay, Busy
<1>6. AnchoredIsEmitted'
  BY DEF AnchoredIsEmitted, Mine
<1>7. QED
  BY <1>2, <1>3, <1>5, <1>6

(* The rest: the contract's owner, the clock, and no step at all.           *)
LEMMA OtherInv ==
    ASSUME OutboxInv, UNCHANGED <<outboxVars, mempool, reverted, anchored,
                                  emitted>>,
           paused' \in BOOLEAN, time' \in Nat
    PROVE  OutboxInv'
BY DEF OutboxInv, OutboxTypeOK, ClaimsIssued, ClaimsDistinct, OneJobPerKey,
       SentIsKnown, AnchoredIsEmitted, Busy, JobOf, EvidenceKey, outboxVars

(* The invariant of the outbox, its workers and the contract.               *)
THEOREM OutboxInvariant == OutboxSpec => []OutboxInv
<1>1. OutboxInit => OutboxInv
  <2> SUFFICES ASSUME OutboxInit
               PROVE  OutboxInv
    OBVIOUS
  <2>1. OutboxTypeOK
    <3>1. jobs \in Seq(Job)
      BY DEF OutboxInit
    <3>2. worker \in [Worker -> [pc : {"idle", "claimed", "sent"},
                                job : Nat, token : Nat]]
      BY DEF OutboxInit, IdleWorker, NoToken
    <3>3. QED
      BY <3>1, <3>2 DEF OutboxInit, OutboxTypeOK
  <2>2. ~ \E w \in Worker : Busy(w)
    BY DEF OutboxInit, Busy, IdleWorker
  <2>3. DOMAIN jobs = {} /\ mempool = {} /\ emitted = {}
    BY DEF OutboxInit
  <2>4. QED
    BY <2>1, <2>2, <2>3 DEF OutboxInv, ClaimsIssued, ClaimsDistinct,
       OneJobPerKey, SentIsKnown, AnchoredIsEmitted
<1>2. OutboxInv /\ [OutboxNext]_anchorVars => OutboxInv'
  <2> SUFFICES ASSUME OutboxInv, [OutboxNext]_anchorVars
               PROVE  OutboxInv'
    OBVIOUS
  <2>1. ASSUME NEW e \in Evidence, Enqueue(e) PROVE OutboxInv'
    BY <2>1, EnqueueInv
  <2>2. ASSUME NEW w \in Worker, ClaimNext(w) PROVE OutboxInv'
    BY <2>2, ClaimNextInv
  <2>3. ASSUME NEW w \in Worker, ClaimNone(w) PROVE OutboxInv'
    BY <2>3, ClaimNoneInv
  <2>4. ASSUME NEW w \in Worker, Submit(w) PROVE OutboxInv'
    BY <2>4, SubmitInv
  <2>5. ASSUME NEW w \in Worker, AnchorSucceeds(w) \/ AnchorFails(w)
        PROVE  OutboxInv'
    BY <2>5, AnswerInv
  <2>6. ASSUME NEW tx \in mempool, Mine(tx) PROVE OutboxInv'
    BY <2>6, MineInv
  <2>7. ASSUME NEW b \in BOOLEAN, SetPaused(b) PROVE OutboxInv'
    BY <2>7, OtherInv DEF SetPaused, OutboxInv, OutboxTypeOK
  <2>8. CASE OutboxTick
    BY <2>8, OtherInv DEF OutboxTick, OutboxInv, OutboxTypeOK, chainVars
  <2>9. CASE UNCHANGED anchorVars
    BY <2>9, OtherInv DEF anchorVars, chainVars, OutboxInv, OutboxTypeOK
  <2>10. QED
    BY <2>1, <2>2, <2>3, <2>4, <2>5, <2>6, <2>7, <2>8, <2>9 DEF OutboxNext
<1>3. QED
  BY <1>1, <1>2, PTL DEF OutboxSpec

(* The types of the outbox's variables hold in every reachable state.       *)
THEOREM OutboxTypeCorrect == OutboxSpec => []OutboxTypeOK
BY OutboxInvariant, PTL DEF OutboxInv

(* At most one worker is able to decide a job, for any number of workers    *)
(* and jobs and any lease: both would hold the job's one token.             *)
THEOREM OutboxOneDecider == OutboxSpec => []OneDecider
<1>1. OutboxInv => OneDecider
  BY DEF OutboxInv, ClaimsDistinct, Busy, OneDecider, Deciding
<1>2. QED
  BY <1>1, OutboxInvariant, PTL

-----------------------------------------------------------------------------
(* The refinement of AnchorPromise. *)

(* What a job in a given status means to the caller of enqueue().           *)
Told(status) == IF status \in {"pending", "processing"} THEN "open" ELSE status

(* The outcome of a piece of evidence is that of its one job.               *)
OutcomeIsTold ==
    \A e \in Evidence : \A i \in DOMAIN jobs :
        jobs[i].evidence = e => Outcome(e) = Told(jobs[i].status)

LEMMA OutcomeOfJob == OneJobPerKey => OutcomeIsTold
<1> SUFFICES ASSUME OneJobPerKey, NEW e \in Evidence, NEW i \in DOMAIN jobs,
                    jobs[i].evidence = e
             PROVE  Outcome(e) = Told(jobs[i].status)
  BY DEF OutcomeIsTold
<1> DEFINE k == CHOOSE n \in DOMAIN jobs : jobs[n].evidence = e
<1>1. k \in DOMAIN jobs /\ jobs[k].evidence = e
  OBVIOUS
<1>2. k = i
  BY <1>1 DEF OneJobPerKey, EvidenceKey
<1> HIDE DEF k
<1>3. Outcome(e) = Told(jobs[k].status)
  BY <1>1 DEF Outcome, Told, k
<1>4. QED
  BY <1>2, <1>3

(* The same after a step. *)
LEMMA OutcomeOfJobNext == OneJobPerKey' => OutcomeIsTold'
BY OutcomeOfJob, PTL

(* A step that keeps the jobs in their places changes the outcome of no     *)
(* evidence, except where it changes what a job's status means.             *)
LEMMA OutcomesFollowJobs ==
    ASSUME OneJobPerKey, OneJobPerKey', JobsStay,
           NEW e \in Evidence
    PROVE  \/ \E i \in DOMAIN jobs :
                 /\ jobs[i].evidence = e
                 /\ Outcome(e) = Told(jobs[i].status)
                 /\ Outcome(e)' = Told(jobs'[i].status)
           \/ /\ \A i \in DOMAIN jobs : jobs[i].evidence # e
              /\ Outcome(e) = "unknown" /\ Outcome(e)' = "unknown"
<1>1. CASE \E i \in DOMAIN jobs : jobs[i].evidence = e
  <2>1. PICK i \in DOMAIN jobs : jobs[i].evidence = e
    BY <1>1
  <2>2. i \in DOMAIN jobs' /\ jobs'[i].evidence = e
    BY <2>1 DEF JobsStay
  <2>3. Outcome(e) = Told(jobs[i].status)
    BY <2>1, OutcomeOfJob DEF OutcomeIsTold
  <2>5. Outcome(e)' = Told(jobs'[i].status)
    BY <2>2, OutcomeOfJobNext DEF OutcomeIsTold
  <2>6. QED
    BY <2>1, <2>3, <2>5
<1>2. CASE \A i \in DOMAIN jobs : jobs[i].evidence # e
  <2>1. \A i \in DOMAIN jobs' : jobs'[i].evidence # e
    BY <1>2 DEF JobsStay
  <2>2. Outcome(e) = "unknown" /\ Outcome(e)' = "unknown"
    BY <1>2, <2>1 DEF Outcome
  <2>3. QED
    BY <1>2, <2>2
<1>3. QED
  BY <1>1, <1>2

(* The outcomes as the refinement mapping computes them. *)
Outcomes == [e \in Evidence |-> Outcome(e)]

OnChain == {tx.evidence : tx \in emitted}

(* Steps that leave the meaning of every job as it was are stutters.        *)
LEMMA NothingTold ==
    ASSUME OneJobPerKey, OneJobPerKey', JobsStay,
           \A i \in DOMAIN jobs : Told(jobs'[i].status) = Told(jobs[i].status)
    PROVE  Outcomes' = Outcomes
<1> SUFFICES ASSUME NEW e \in Evidence
             PROVE  Outcome(e)' = Outcome(e)
  BY DEF Outcomes
<1>1. QED
  BY OutcomesFollowJobs

(* Steps that give up open jobs report a set of failures. *)
LEMMA FailuresTold ==
    ASSUME OneJobPerKey, OneJobPerKey', JobsStay, emitted' = emitted,
           \A i \in DOMAIN jobs : jobs[i].evidence \in Evidence,
           NEW G \in SUBSET DOMAIN jobs,
           \A i \in G : /\ jobs[i].status \in {"pending", "processing"}
                        /\ jobs'[i].status = "failed",
           \A i \in DOMAIN jobs \ G :
               Told(jobs'[i].status) = Told(jobs[i].status)
    PROVE  \E S \in SUBSET Evidence : Promise!ReportFailed(S)
<1> DEFINE S == {jobs[i].evidence : i \in G}
<1>1. S \in SUBSET Evidence
  OBVIOUS
<1>2. \A e \in Evidence :
        Outcome(e)' = IF e \in S THEN "failed" ELSE Outcome(e)
  <2> SUFFICES ASSUME NEW e \in Evidence
               PROVE  Outcome(e)' = IF e \in S THEN "failed" ELSE Outcome(e)
    OBVIOUS
  <2>1. CASE \E i \in DOMAIN jobs :
               /\ jobs[i].evidence = e
               /\ Outcome(e) = Told(jobs[i].status)
               /\ Outcome(e)' = Told(jobs'[i].status)
    <3>1. PICK i \in DOMAIN jobs :
               /\ jobs[i].evidence = e
               /\ Outcome(e) = Told(jobs[i].status)
               /\ Outcome(e)' = Told(jobs'[i].status)
      BY <2>1
    <3>2. e \in S <=> i \in G
      BY <3>1 DEF OneJobPerKey, EvidenceKey
    <3>3. Told("failed") = "failed"
      BY DEF Told
    <3>4. QED
      BY <3>1, <3>2, <3>3
  <2>2. CASE /\ \A i \in DOMAIN jobs : jobs[i].evidence # e
             /\ Outcome(e) = "unknown" /\ Outcome(e)' = "unknown"
    BY <2>2
  <2>3. QED
    BY <2>1, <2>2, OutcomesFollowJobs
<1>3. \A e \in S : Outcome(e) = "open"
  BY OutcomeOfJob DEF OutcomeIsTold, Told
<1> HIDE DEF S
<1>4. Outcomes' = [e \in Evidence |-> IF e \in S THEN "failed"
                                      ELSE Outcomes[e]]
  BY <1>2 DEF Outcomes
<1>5. Promise!ReportFailed(S)
  BY <1>1, <1>3, <1>4 DEF Promise!ReportFailed, Outcomes
<1>6. QED
  BY <1>1, <1>5

(* A job given up or claimed by claimNext was open. *)
LEMMA DueIsOpen ==
    ASSUME NEW j, Due(j)
    PROVE  j.status \in {"pending", "processing"}
BY DEF Due, Reclaimable

LEMMA EvidenceTyped ==
    OutboxTypeOK => \A i \in DOMAIN jobs : /\ jobs[i] \in Job
                                           /\ jobs[i].evidence \in Evidence
<1> SUFFICES ASSUME OutboxTypeOK, NEW i \in DOMAIN jobs
             PROVE  jobs[i] \in Job /\ jobs[i].evidence \in Evidence
  OBVIOUS
<1>1. jobs[i] \in Job
  BY DEF OutboxTypeOK
<1>2. QED
  BY <1>1 DEF Job

(* enqueue accepts the evidence. *)
LEMMA EnqueuePromise ==
    ASSUME OutboxInv, OutboxInv', NEW e \in Evidence, Enqueue(e)
    PROVE  Promise!Accept(e)
<1>1. NewJob(e).status = "pending" /\ NewJob(e).evidence = e
  BY DEF NewJob
<1> DEFINE n == Len(jobs) + 1
<1>2. /\ n \notin DOMAIN jobs
      /\ DOMAIN jobs' = DOMAIN jobs \cup {n}
      /\ jobs'[n] = NewJob(e)
      /\ \A i \in DOMAIN jobs : jobs'[i] = jobs[i]
  BY <1>1 DEF Enqueue, OutboxInv, OutboxTypeOK
<1> HIDE DEF n
<1>3. \A i \in DOMAIN jobs : jobs[i].evidence # e
  BY DEF Enqueue
<1>4. Outcome(e) = "unknown"
  BY <1>3 DEF Outcome
<1>5. OutcomeIsTold /\ OutcomeIsTold'
  BY OutcomeOfJob, OutcomeOfJobNext DEF OutboxInv
<1>6. Outcome(e)' = "open"
  BY <1>1, <1>2, <1>5 DEF OutcomeIsTold, Told
<1>7. ASSUME NEW d \in Evidence, d # e
      PROVE  Outcome(d)' = Outcome(d)
  <2>1. CASE \E i \in DOMAIN jobs : jobs[i].evidence = d
    BY <1>2, <1>5, <2>1 DEF OutcomeIsTold
  <2>2. CASE \A i \in DOMAIN jobs : jobs[i].evidence # d
    <3>1. \A i \in DOMAIN jobs' : jobs'[i].evidence # d
      BY <1>1, <1>2, <1>7, <2>2
    <3>2. Outcome(d) = "unknown" /\ Outcome(d)' = "unknown"
      BY <2>2, <3>1 DEF Outcome
    <3>3. QED
      BY <3>2
  <2>3. QED
    BY <2>1, <2>2
<1>8. Outcomes' = [Outcomes EXCEPT ![e] = "open"]
  BY <1>6, <1>7 DEF Outcomes
<1>9. OnChain' = OnChain
  BY DEF OnChain, Enqueue, chainVars
<1>10. QED
  BY <1>4, <1>8, <1>9 DEF Promise!Accept, Outcomes, OnChain

(* claimNext reports the jobs it gives up on the way. *)
LEMMA ClaimNextPromise ==
    ASSUME OutboxInv, OutboxInv', NEW w \in Worker, ClaimNext(w)
    PROVE  \E S \in SUBSET Evidence : Promise!ReportFailed(S)
<1>1. JobsStay
  BY ClaimNextInv
<1>2. PICK i \in DOMAIN jobs :
        /\ IsNext(i)
        /\ jobs' = [j \in DOMAIN jobs |->
                      IF j = i THEN Claim(jobs[j], issued + 1)
                      ELSE IF j < i /\ Due(jobs[j]) THEN GiveUp(jobs[j])
                      ELSE jobs[j]]
        /\ emitted' = emitted
  BY DEF ClaimNext, chainVars
<1>3. \A j \in DOMAIN jobs : jobs[j] \in Job /\ jobs[j].evidence \in Evidence
  BY EvidenceTyped DEF OutboxInv
<1>4. issued + 1 \in Nat
  BY DEF OutboxInv, OutboxTypeOK
<1> DEFINE G == {j \in DOMAIN jobs : j # i /\ j < i /\ Due(jobs[j])}
<1>5. \A j \in G : /\ jobs[j].status \in {"pending", "processing"}
                   /\ jobs'[j].status = "failed"
  BY <1>2, <1>3, <1>4, JobEdits, DueIsOpen DEF OutboxInv
<1>6. \A j \in DOMAIN jobs \ G : Told(jobs'[j].status) = Told(jobs[j].status)
  <2> SUFFICES ASSUME NEW j \in DOMAIN jobs \ G
               PROVE  Told(jobs'[j].status) = Told(jobs[j].status)
    OBVIOUS
  <2>1. CASE j = i
    <3>1. jobs'[i].status = "processing"
      BY <1>2, <1>3, <1>4, JobEdits DEF OutboxInv
    <3>2. jobs[i].status \in {"pending", "processing"}
      BY <1>2, DueIsOpen DEF IsNext
    <3>3. QED
      BY <2>1, <3>1, <3>2 DEF Told
  <2>2. CASE j # i
    BY <1>2, <2>2
  <2>3. QED
    BY <2>1, <2>2
<1> HIDE DEF G
<1>7. G \in SUBSET DOMAIN jobs
  BY DEF G
<1>8. QED
  BY <1>1, <1>2, <1>3, <1>5, <1>6, <1>7, FailuresTold DEF OutboxInv

LEMMA ClaimNonePromise ==
    ASSUME OutboxInv, OutboxInv', NEW w \in Worker, ClaimNone(w)
    PROVE  \E S \in SUBSET Evidence : Promise!ReportFailed(S)
<1>1. JobsStay
  BY ClaimNoneInv
<1>2. /\ jobs' = [j \in DOMAIN jobs |-> IF Due(jobs[j]) THEN GiveUp(jobs[j])
                                        ELSE jobs[j]]
      /\ emitted' = emitted
  BY DEF ClaimNone, chainVars
<1>3. \A j \in DOMAIN jobs : jobs[j] \in Job /\ jobs[j].evidence \in Evidence
  BY EvidenceTyped DEF OutboxInv
<1> DEFINE G == {j \in DOMAIN jobs : Due(jobs[j])}
<1>4. \A j \in G : /\ jobs[j].status \in {"pending", "processing"}
                   /\ jobs'[j].status = "failed"
  <2>1. 0 \in Nat
    OBVIOUS
  <2>2. QED
    BY <1>2, <1>3, <2>1, JobEdits, DueIsOpen DEF OutboxInv
<1>5. \A j \in DOMAIN jobs \ G : Told(jobs'[j].status) = Told(jobs[j].status)
  BY <1>2
<1> HIDE DEF G
<1>6. G \in SUBSET DOMAIN jobs
  BY DEF G
<1>7. QED
  BY <1>1, <1>2, <1>3, <1>4, <1>5, <1>6, FailuresTold DEF OutboxInv

(* The answer "anchored" is told of evidence on the chain: the transaction  *)
(* that was seen to succeed carries the evidence of the worker's own job.   *)
LEMMA AnchorSucceedsPromise ==
    ASSUME OutboxInv, OutboxInv', NEW w \in Worker, AnchorSucceeds(w)
    PROVE  \/ UNCHANGED <<Outcomes, OnChain>>
           \/ \E e \in Evidence : Promise!ReportAnchored(e)
<1> DEFINE k == worker[w].job
           j == jobs[k]
           t == worker[w].token
<1>1. k \in DOMAIN jobs /\ j \in Job /\ JobsStay /\ t \in Nat
  BY AnswerInv DEF JobOf
<1>2. /\ jobs' = [jobs EXCEPT ![k] = MarkAnchored(j, t)]
      /\ emitted' = emitted /\ OnChain' = OnChain
  BY DEF AnchorSucceeds, Finish, chainVars, OnChain
<1>3. j.evidence \in Evidence /\ j.evidence \in OnChain
  <2>1. PICK tx \in emitted : tx.token = t
    BY DEF AnchorSucceeds
  <2>2. Busy(w)
    BY DEF Busy, AnchorSucceeds
  <2>3. tx.evidence = j.evidence
    BY <2>1, <2>2 DEF OutboxInv, SentIsKnown, JobOf
  <2>4. QED
    BY <1>1, <2>1, <2>3 DEF OnChain, Job
<1>4. CASE ~HoldsClaim(j, t)
  <2>1. jobs' = jobs
    BY <1>1, <1>2, <1>4 DEF MarkAnchored, OutboxInv, OutboxTypeOK
  <2>2. QED
    BY <1>1, <1>2, <2>1, NothingTold DEF OutboxInv
<1>5. CASE HoldsClaim(j, t)
  <2>1. jobs'[k].status = "anchored" /\ j.status = "processing"
    BY <1>1, <1>2, <1>5 DEF MarkAnchored, HoldsClaim, Job
  <2>2. \A i \in DOMAIN jobs \ {k} : jobs'[i] = jobs[i]
    BY <1>2
  <2> HIDE DEF k, j, t
  <2>3. \A d \in Evidence : Outcome(d)' = IF d = j.evidence THEN "anchored"
                                          ELSE Outcome(d)
    <3> SUFFICES ASSUME NEW d \in Evidence
                 PROVE  Outcome(d)' = IF d = j.evidence THEN "anchored"
                                      ELSE Outcome(d)
      OBVIOUS
    <3>1. CASE d = j.evidence
      <4>1. k \in DOMAIN jobs' /\ jobs'[k].evidence = d
        BY <1>1, <3>1 DEF JobsStay, j, k
      <4>2. OutcomeIsTold'
        BY OutcomeOfJobNext DEF OutboxInv
      <4>3. QED
        BY <2>1, <3>1, <4>1, <4>2 DEF OutcomeIsTold, Told
    <3>2. CASE d # j.evidence
      <4>1. CASE \E i \in DOMAIN jobs :
                   /\ jobs[i].evidence = d
                   /\ Outcome(d) = Told(jobs[i].status)
                   /\ Outcome(d)' = Told(jobs'[i].status)
        BY <2>2, <3>2, <4>1 DEF j, k
      <4>2. CASE Outcome(d) = "unknown" /\ Outcome(d)' = "unknown"
        BY <3>2, <4>2
      <4>3. QED
        BY <1>1, <4>1, <4>2, OutcomesFollowJobs DEF OutboxInv
    <3>3. QED
      BY <3>1, <3>2
  <2>4. Outcome(j.evidence) = "open"
    BY <1>1, <1>3, <2>1, OutcomeOfJob DEF OutcomeIsTold, Told, OutboxInv, j
  <2>5. Outcomes' = [Outcomes EXCEPT ![j.evidence] = "anchored"]
    BY <1>3, <2>3 DEF Outcomes
  <2>6. Promise!ReportAnchored(j.evidence)
    BY <1>2, <1>3, <2>4, <2>5 DEF Promise!ReportAnchored, Outcomes, OnChain
  <2>7. QED
    BY <1>3, <2>6
<1>6. QED
  BY <1>4, <1>5

(* A failure is told once the last attempt is used up. *)
LEMMA AnchorFailsPromise ==
    ASSUME OutboxInv, OutboxInv', NEW w \in Worker, AnchorFails(w)
    PROVE  \/ UNCHANGED <<Outcomes, OnChain>>
           \/ \E S \in SUBSET Evidence : Promise!ReportFailed(S)
<1> DEFINE k == worker[w].job
           j == jobs[k]
           t == worker[w].token
<1>1. k \in DOMAIN jobs /\ j \in Job /\ JobsStay /\ t \in Nat
  BY AnswerInv DEF JobOf
<1>2. /\ jobs' = [jobs EXCEPT ![k] = MarkFailed(j, t)]
      /\ emitted' = emitted /\ OnChain' = OnChain
  BY DEF AnchorFails, Finish, chainVars, OnChain
<1>3. CASE ~HoldsClaim(j, t)
  <2>1. jobs' = jobs
    BY <1>1, <1>2, <1>3 DEF MarkFailed, OutboxInv, OutboxTypeOK
  <2>2. QED
    BY <1>1, <1>2, <2>1, NothingTold DEF OutboxInv
<1>4. CASE HoldsClaim(j, t)
  <2>1. /\ jobs'[k].status = IF j.attempts >= maxAttempts THEN "failed"
                             ELSE "pending"
        /\ j.status = "processing"
    BY <1>1, <1>2, <1>4 DEF MarkFailed, HoldsClaim, Job
  <2>2. \A i \in DOMAIN jobs \ {k} : jobs'[i] = jobs[i]
    BY <1>2
  <2> HIDE DEF k
  <2>3. CASE jobs'[k].status = "failed"
    <3>1. \A i \in DOMAIN jobs : jobs[i].evidence \in Evidence
      BY EvidenceTyped DEF OutboxInv
    <3>2. \A i \in {k} : /\ jobs[i].status \in {"pending", "processing"}
                         /\ jobs'[i].status = "failed"
      BY <2>1, <2>3
    <3>3. \A i \in DOMAIN jobs \ {k} :
            Told(jobs'[i].status) = Told(jobs[i].status)
      BY <2>2
    <3>4. {k} \in SUBSET DOMAIN jobs
      BY <1>1
    <3>5. QED
      BY <1>1, <1>2, <3>1, <3>2, <3>3, <3>4, FailuresTold DEF OutboxInv
  <2>4. CASE jobs'[k].status = "pending"
    <3>1. \A i \in DOMAIN jobs : Told(jobs'[i].status) = Told(jobs[i].status)
      BY <2>1, <2>2, <2>4 DEF Told
    <3>2. QED
      BY <1>1, <1>2, <3>1, NothingTold DEF OutboxInv
  <2>5. QED
    BY <2>1, <2>3, <2>4
<1>5. QED
  BY <1>3, <1>4

(* Jobs that do not change keep their outcomes. *)
LEMMA NoJobMoves ==
    ASSUME jobs' = jobs
    PROVE  Outcomes' = Outcomes
BY DEF Outcomes, Outcome

(* A transaction the contract accepts is a commit: none of its hashes was   *)
(* on the chain.                                                            *)
LEMMA MinePromise ==
    ASSUME OutboxInv, OutboxInv', NEW tx \in mempool, Mine(tx)
    PROVE  \/ UNCHANGED <<Outcomes, OnChain>>
           \/ \E e \in Evidence : Promise!Commit(e)
<1>1. Outcomes' = Outcomes
  BY NoJobMoves DEF Mine, outboxVars
<1>2. CASE ~Accepts(tx.evidence)
  BY <1>1, <1>2 DEF Mine, OnChain
<1>3. CASE Accepts(tx.evidence)
  <2> DEFINE e == tx.evidence
  <2>1. e \in Evidence
    BY DEF OutboxInv, OutboxTypeOK, AnchorTransaction
  <2>2. OnChain' = OnChain \cup {e}
    BY <1>3 DEF Mine, OnChain
  <2>3. Outcome(e) # "unknown"
    <3>1. PICK i \in DOMAIN jobs : jobs[i].evidence = e
      BY DEF OutboxInv, SentIsKnown
    <3>2. jobs[i] \in Job
      BY DEF OutboxInv, OutboxTypeOK
    <3>3. Outcome(e) = Told(jobs[i].status)
      BY <2>1, <3>1, OutcomeOfJob DEF OutboxInv, OutcomeIsTold
    <3>4. QED
      BY <3>2, <3>3 DEF Told, Job
  <2>4. \A d \in OnChain : Promise!Hashes(d) \cap Promise!Hashes(e) = {}
    BY <1>3 DEF OnChain, Promise!Hashes, Accepts, OutboxInv, AnchoredIsEmitted
  <2>5. Promise!Commit(e)
    BY <1>1, <2>1, <2>2, <2>3, <2>4
       DEF Promise!Commit, Outcomes, OnChain
  <2>6. QED
    BY <2>1, <2>5
<1>4. QED
  BY <1>2, <1>3

(* Leases, tokens, workers and transactions implement the promise: every    *)
(* step of the outbox is a step of AnchorPromise or changes nothing of it.  *)
THEOREM OutboxKeepsPromise == OutboxSpec => KeepsPromise
<1>1. OutboxInit => Promise!PInit
  BY DEF OutboxInit, Promise!PInit, Outcome
<1>2. OutboxInv /\ OutboxInv' /\ [OutboxNext]_anchorVars
         => [Promise!PNext]_(Promise!promiseVars)
  <2> SUFFICES ASSUME OutboxInv, OutboxInv', [OutboxNext]_anchorVars
               PROVE  Promise!PNext \/ UNCHANGED <<Outcomes, OnChain>>
    BY DEF Promise!promiseVars, Outcomes, OnChain
  <2>1. ASSUME NEW e \in Evidence, Enqueue(e)
        PROVE  Promise!PNext
    BY <2>1, EnqueuePromise DEF Promise!PNext
  <2>2. ASSUME NEW w \in Worker, ClaimNext(w)
        PROVE  Promise!PNext
    BY <2>2, ClaimNextPromise DEF Promise!PNext
  <2>3. ASSUME NEW w \in Worker, ClaimNone(w)
        PROVE  Promise!PNext
    BY <2>3, ClaimNonePromise DEF Promise!PNext
  <2>4. ASSUME NEW w \in Worker, Submit(w)
        PROVE  UNCHANGED <<Outcomes, OnChain>>
    BY <2>4, NoJobMoves DEF Submit, OnChain
  <2>5. ASSUME NEW w \in Worker, AnchorSucceeds(w)
        PROVE  Promise!PNext \/ UNCHANGED <<Outcomes, OnChain>>
    BY <2>5, AnchorSucceedsPromise DEF Promise!PNext
  <2>6. ASSUME NEW w \in Worker, AnchorFails(w)
        PROVE  Promise!PNext \/ UNCHANGED <<Outcomes, OnChain>>
    BY <2>6, AnchorFailsPromise DEF Promise!PNext
  <2>7. ASSUME NEW tx \in mempool, Mine(tx)
        PROVE  Promise!PNext \/ UNCHANGED <<Outcomes, OnChain>>
    BY <2>7, MinePromise DEF Promise!PNext
  <2>8. ASSUME UNCHANGED <<jobs, emitted>>
        PROVE  UNCHANGED <<Outcomes, OnChain>>
    BY <2>8, NoJobMoves DEF OnChain
  <2>9. ASSUME NEW b \in BOOLEAN, SetPaused(b)
        PROVE  UNCHANGED <<jobs, emitted>>
    BY <2>9 DEF SetPaused, outboxVars
  <2>10. OutboxTick \/ UNCHANGED anchorVars => UNCHANGED <<jobs, emitted>>
    BY DEF OutboxTick, anchorVars, outboxVars, chainVars
  <2>11. QED
    BY <2>1, <2>2, <2>3, <2>4, <2>5, <2>6, <2>7, <2>8, <2>9, <2>10
       DEF OutboxNext
<1>3. QED
  BY <1>1, <1>2, OutboxInvariant, PTL DEF OutboxSpec, KeepsPromise,
     Promise!PSpec

===============================================================================
